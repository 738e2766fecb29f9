---------------------------- MODULE KconfigProofs ----------------------------
(***************************************************************************)
(* Proofs about the configuration programs, for every Kconfig file: what   *)
(* reading, writing and working out the values of a configuration do, and  *)
(* from it the properties of the build (Kbuild) and of the menus           *)
(* (MenuConfig).                                                           *)
(***************************************************************************)
EXTENDS Kbuild, MenuConfig, TLAPS, SequenceTheorems, FiniteSetTheorems, WellFoundedInduction

-----------------------------------------------------------------------------
(* Lists.                                                                  *)

(* Induction over numbers, in the form the provers can use, without an     *)
(* operator as parameter.                                                  *)
LEMMA SetInduction ==
  ASSUME NEW S \in SUBSET Nat, 0 \in S, \A k \in S : k + 1 \in S
  PROVE  S = Nat
<1> SUFFICES ASSUME S # Nat PROVE FALSE
  OBVIOUS
<1>1. \E x \in Nat \ S : \A y \in Nat \ S : <<y, x>> \notin OpToRel(<, Nat)
  BY NatLessThanWellFounded, WFMin
<1>2. PICK x \in Nat \ S : \A y \in Nat \ S : ~(y < x)
  BY <1>1 DEF OpToRel
<1>3. x - 1 \in Nat /\ (x - 1) + 1 = x /\ x - 1 < x
  BY <1>2
<1> QED
  BY <1>2, <1>3

(* A sequence, and what a list that is walked along has at each place.      *)
Listing(list) == list \in Seq(Range(list))

LEMMA ListingIs ==
  ASSUME NEW list, Listing(list)
  PROVE  /\ Len(list) \in Nat /\ DOMAIN list = 1..Len(list)
         /\ \A i \in 1..Len(list) : list[i] \in Range(list)
         /\ \A x \in Range(list) : \E i \in 1..Len(list) : x = list[i]
BY DEF Listing, Range

(* The walk of Those is there, and does what it is said to.                 *)
ThoseWalk(list, set, f, n) ==
  f = [i \in 0..n |-> IF i = 0 THEN <<>>
                      ELSE IF list[i] \in set THEN Append(f[i - 1], list[i]) ELSE f[i - 1]]

LEMMA ThoseWalks ==
  ASSUME NEW list, NEW set
  PROVE  \A n \in Nat : \E f : ThoseWalk(list, set, f, n)
<1> DEFINE After(x, i) == IF list[i] \in set THEN Append(x, list[i]) ELSE x
           Walk(f, n) == f = [i \in 0..n |-> IF i = 0 THEN <<>> ELSE After(f[i - 1], i)]
           S == {n \in Nat : \E f : Walk(f, n)}
<1>1. 0 \in S
  <2> HIDE DEF After
  <2>1. Walk([i \in 0..0 |-> <<>>], 0)
    OBVIOUS
  <2> QED
    BY <2>1
<1>2. ASSUME NEW k \in S PROVE k + 1 \in S
  <2>1. PICK f : Walk(f, k)
    OBVIOUS
  <2> DEFINE g == [i \in 0..(k + 1) |-> IF i = k + 1 THEN After(f[k], k + 1) ELSE f[i]]
  <2> HIDE DEF After
  <2>2. ASSUME NEW i \in 0..(k + 1)
        PROVE  g[i] = IF i = 0 THEN <<>> ELSE After(g[i - 1], i)
    <3>1. CASE i = k + 1
      <4>1. g[i - 1] = f[k]
        BY <3>1
      <4> QED
        BY <3>1, <4>1
    <3>2. CASE i # k + 1
      <4>1. i \in 0..k
        BY <3>2
      <4>2. i # 0 => i - 1 \in 0..k /\ g[i - 1] = f[i - 1]
        BY <4>1
      <4>3. g[i] = f[i]
        BY <3>2
      <4>4. f[i] = IF i = 0 THEN <<>> ELSE After(f[i - 1], i)
        BY <2>1, <4>1
      <4> QED
        BY <4>2, <4>3, <4>4
    <3> QED
      BY <3>1, <3>2
  <2>3. Walk(g, k + 1)
    BY <2>2
  <2>4. k + 1 \in Nat
    OBVIOUS
  <2> HIDE DEF Walk, g
  <2> QED
    BY <2>3, <2>4
<1>3. S = Nat
  <2> HIDE DEF Walk
  <2>1. S \in SUBSET Nat
    OBVIOUS
  <2> HIDE DEF S
  <2> QED
    BY <1>1, <1>2, <2>1, SetInduction
<1>4. ASSUME NEW n \in Nat PROVE \E f : ThoseWalk(list, set, f, n)
  <2>1. PICK f : Walk(f, n)
    BY <1>3
  <2>2. ThoseWalk(list, set, f, n)
    BY <2>1 DEF ThoseWalk
  <2> QED
    BY <2>2
<1> QED
  BY <1>4

LEMMA ThoseWalked ==
  ASSUME NEW list, NEW set, Len(list) \in Nat
  PROVE  \E f : ThoseWalk(list, set, f, Len(list)) /\ Those(list, set) = f[Len(list)]
<1> DEFINE f == CHOOSE g : ThoseWalk(list, set, g, Len(list))
<1>1. ThoseWalk(list, set, f, Len(list))
  BY ThoseWalks
<1>2. Those(list, set) = f[Len(list)]
  BY DEF Those, ThoseWalk
<1> QED
  BY <1>1, <1>2

(* What a list goes through of a set.                                       *)
LEMMA ThoseIs ==
  ASSUME NEW list, NEW set, Listing(list)
  PROVE  /\ Listing(Those(list, set))
         /\ Range(Those(list, set)) = Range(list) \cap set
<1> DEFINE n == Len(list)
<1>1. n \in Nat /\ DOMAIN list = 1..n
  BY ListingIs
<1>2. PICK f : ThoseWalk(list, set, f, n) /\ Those(list, set) = f[n]
  BY <1>1, ThoseWalked
<1> DEFINE Met(i) == {list[j] : j \in 1..i} \cap set
           S == {i \in Nat : i <= n => f[i] \in Seq(Met(i)) /\ Range(f[i]) = Met(i)}
<1>3. 0 \in S
  <2>1. f[0] = <<>>
    BY <1>1, <1>2 DEF ThoseWalk
  <2>2. Met(0) = {} /\ Range(<<>>) = {} /\ <<>> \in Seq({})
    BY DEF Range
  <2> QED
    BY <2>1, <2>2
<1>4. ASSUME NEW i \in S PROVE i + 1 \in S
  <2> SUFFICES ASSUME i + 1 <= n
               PROVE  f[i + 1] \in Seq(Met(i + 1)) /\ Range(f[i + 1]) = Met(i + 1)
    OBVIOUS
  <2>1. i \in 0..n /\ i + 1 \in 0..n /\ i + 1 # 0 /\ (i + 1) - 1 = i /\ i <= n
    BY <1>1
  <2>2. f[i] \in Seq(Met(i)) /\ Range(f[i]) = Met(i)
    BY <2>1
  <2>3. f[i + 1] = IF list[i + 1] \in set THEN Append(f[i], list[i + 1]) ELSE f[i]
    BY <1>2, <2>1 DEF ThoseWalk
  <2>4. Met(i + 1) = Met(i) \cup ({list[i + 1]} \cap set)
    <3>1. 1..(i + 1) = 1..i \cup {i + 1}
      BY <2>1
    <3> QED
      BY <3>1
  <2> DEFINE M == Met(i)
             N == Met(i + 1)
             x == list[i + 1]
             q == f[i]
  <2>5. q \in Seq(M) /\ Range(q) = M /\ N = M \cup ({x} \cap set)
    BY <2>2, <2>4
  <2>6. f[i + 1] = IF x \in set THEN Append(q, x) ELSE q
    BY <2>3
  <2> HIDE DEF M, N, x, q
  <2>7. CASE x \in set
    <3>1. N = M \cup {x}
      BY <2>5, <2>7
    <3>2. q \in Seq(N) /\ x \in N
      BY <2>5, <3>1
    <3>3. /\ Append(q, x) \in Seq(N) /\ Len(Append(q, x)) = Len(q) + 1 /\ Len(q) \in Nat
          /\ DOMAIN q = 1..Len(q) /\ DOMAIN Append(q, x) = 1..(Len(q) + 1)
          /\ \A j \in 1..Len(q) : Append(q, x)[j] = q[j]
          /\ Append(q, x)[Len(q) + 1] = x
      BY <3>2
    <3>4. Range(Append(q, x)) = Range(q) \cup {x}
      BY <3>3 DEF Range
    <3> QED
      BY <2>5, <2>6, <2>7, <3>1, <3>3, <3>4 DEF N
  <2>8. CASE x \notin set
    <3>1. N = M
      BY <2>5, <2>8
    <3>2. f[i + 1] = q
      BY <2>6, <2>8
    <3>3. f[i + 1] \in Seq(N) /\ Range(f[i + 1]) = N
      BY <2>5, <3>1, <3>2
    <3> QED
      BY <3>3 DEF N
  <2> QED
    BY <2>7, <2>8
<1>5. S = Nat
  <2>1. S \in SUBSET Nat
    OBVIOUS
  <2> HIDE DEF S
  <2> QED
    BY <1>3, <1>4, <2>1, SetInduction
<1>6. f[n] \in Seq(Met(n)) /\ Range(f[n]) = Met(n)
  <2>1. n \in S /\ n <= n
    <3> HIDE DEF S
    <3> QED
      BY <1>1, <1>5
  <2> HIDE DEF Met, n
  <2> QED
    BY <2>1
<1>7. Met(n) = Range(list) \cap set
  BY <1>1 DEF Range
<1> QED
  BY <1>2, <1>6, <1>7 DEF Listing

-----------------------------------------------------------------------------
(* Reading a file.                                                         *)

(* A walk with a first state and the next one at every place: the walks of   *)
(* conf_read_simple and Values have this form.                               *)
ReadWalk(tbl, file, f, n) ==
  f = [i \in 0..n |-> IF i = 0 THEN [user |-> Forgotten, warnings |-> 0, unknown |-> {}]
                      ELSE read_line(tbl, f[i - 1], file[i])]

LEMMA ReadWalks ==
  ASSUME NEW tbl, NEW file
  PROVE  \A n \in Nat : \E f : ReadWalk(tbl, file, f, n)
<1> DEFINE Start == [user |-> Forgotten, warnings |-> 0, unknown |-> {}]
           After(x, i) == read_line(tbl, x, file[i])
           Walk(f, n) == f = [i \in 0..n |-> IF i = 0 THEN Start ELSE After(f[i - 1], i)]
           S == {n \in Nat : \E f : Walk(f, n)}
<1>1. 0 \in S
  <2> HIDE DEF After, Start
  <2>1. Walk([i \in 0..0 |-> Start], 0)
    OBVIOUS
  <2> QED
    BY <2>1
<1>2. ASSUME NEW k \in S PROVE k + 1 \in S
  <2>1. PICK f : Walk(f, k)
    OBVIOUS
  <2> DEFINE g == [i \in 0..(k + 1) |-> IF i = k + 1 THEN After(f[k], k + 1) ELSE f[i]]
  <2> HIDE DEF After, Start
  <2>2. ASSUME NEW i \in 0..(k + 1)
        PROVE  g[i] = IF i = 0 THEN Start ELSE After(g[i - 1], i)
    <3>1. CASE i = k + 1
      <4>1. g[i - 1] = f[k]
        BY <3>1
      <4> QED
        BY <3>1, <4>1
    <3>2. CASE i # k + 1
      <4>1. i \in 0..k
        BY <3>2
      <4>2. i # 0 => i - 1 \in 0..k /\ g[i - 1] = f[i - 1]
        BY <4>1
      <4>3. g[i] = f[i]
        BY <3>2
      <4>4. f[i] = IF i = 0 THEN Start ELSE After(f[i - 1], i)
        BY <2>1, <4>1
      <4> QED
        BY <4>2, <4>3, <4>4
    <3> QED
      BY <3>1, <3>2
  <2>3. Walk(g, k + 1)
    BY <2>2
  <2>4. k + 1 \in Nat
    OBVIOUS
  <2> HIDE DEF Walk, g
  <2> QED
    BY <2>3, <2>4
<1>3. S = Nat
  <2> HIDE DEF Walk
  <2>1. S \in SUBSET Nat
    OBVIOUS
  <2> HIDE DEF S
  <2> QED
    BY <1>1, <1>2, <2>1, SetInduction
<1>4. ASSUME NEW n \in Nat PROVE \E f : ReadWalk(tbl, file, f, n)
  <2>1. PICK f : Walk(f, n)
    BY <1>3
  <2>2. ReadWalk(tbl, file, f, n)
    BY <2>1 DEF ReadWalk
  <2> QED
    BY <2>2
<1> QED
  BY <1>4

LEMMA ReadWalked ==
  ASSUME NEW tbl, NEW file, Len(file) \in Nat
  PROVE  \E f : ReadWalk(tbl, file, f, Len(file)) /\ conf_read_simple(tbl, file) = f[Len(file)]
<1> DEFINE f == CHOOSE g : ReadWalk(tbl, file, g, Len(file))
<1>1. ReadWalk(tbl, file, f, Len(file))
  BY ReadWalks
<1>2. conf_read_simple(tbl, file) = f[Len(file)]
  BY DEF conf_read_simple, ReadWalk
<1> QED
  BY <1>1, <1>2

(* The lines that say something a symbol can take.                          *)
Line(file, i, s) == file[i].sym = s /\ Fits(s, file[i].val)

(* What a line makes of a symbol that has it.                                *)
Gives(u, s, value) ==
  /\ u.tri[s] = IF Logical(s) THEN TriOf(value) ELSE 0
  /\ ~Logical(s) => u.val[s] = value

Reads(r) == r = [user |-> r.user, warnings |-> r.warnings, unknown |-> r.unknown] /\ UserOK(r.user)

(* After n lines: each symbol that is no choice has the value of one of its  *)
(* lines, if there is any, and the symbols nobody knows are kept in mind.    *)
Told(file, u, s, n) ==
  /\ u.has[s] => \E i \in 1..n : Line(file, i, s) /\ Gives(u, s, file[i].val)
  /\ (\E i \in 1..n : Line(file, i, s)) => u.has[s]

ReadSoFar(tbl, file, r, n) ==
  /\ Reads(r)
  /\ r.unknown = {file[i].sym : i \in 1..n} \ DOMAIN tbl
  /\ \A s \in DOMAIN tbl \ ChoiceSymbols : Told(file, r.user, s, n)

(* The choice of a symbol of the table is one, and not the symbol itself.    *)
ChoicesOK(tbl) ==
  /\ DOMAIN tbl \subseteq DOMAIN Type
  /\ \A s \in DOMAIN tbl : tbl[s].choice = Empty \/ (Logical(s) /\ tbl[s].choice \in ChoiceSymbols)

LEMMA Kinds ==
  /\ \A s \in DOMAIN Type : Logical(s) <=> Type[s] # "int"
  /\ \A s \in DOMAIN Type : Type[s] \in {"bool", "tristate", "int"}
  /\ ChoiceSymbols \subseteq DOMAIN Type
  /\ \A s \in ChoiceSymbols : Logical(s)
  /\ Empty \notin DOMAIN Type /\ "MODULES" \notin DOMAIN Type
  /\ "y" \notin DOMAIN Type /\ "m" \notin DOMAIN Type /\ "n" \notin DOMAIN Type
BY TypeAssumption DEF Logical, TypeIs

LEMMA SetValue ==
  ASSUME NEW u, NEW s \in DOMAIN Type, NEW value, UserOK(u), Fits(s, value)
  PROVE  LET v == conf_set_sym_val(u, s, value)
         IN /\ UserOK(v) /\ v.has[s] /\ Gives(v, s, value)
            /\ \A x \in DOMAIN Type \ {s} : v.has[x] = u.has[x] /\ v.tri[x] = u.tri[x] /\ v.val[x] = u.val[x]
<1> DEFINE v == conf_set_sym_val(u, s, value)
<1>1. PICK h, t, w : u = [has |-> h, tri |-> t, val |-> w]
  BY DEF UserOK
<1>2. v = [has |-> [u.has EXCEPT ![s] = TRUE],
           tri |-> [u.tri EXCEPT ![s] = IF Logical(s) THEN TriOf(value) ELSE 0],
           val |-> [u.val EXCEPT ![s] = IF Logical(s) THEN @ ELSE value]]
  <2> DEFINE hh == [u.has EXCEPT ![s] = TRUE]
             tt == [u.tri EXCEPT ![s] = IF Logical(s) THEN TriOf(value) ELSE 0]
             u1 == [u EXCEPT !.has = hh]
             u2 == [u1 EXCEPT !.tri[s] = IF Logical(s) THEN TriOf(value) ELSE 0]
             u3 == [u2 EXCEPT !.val[s] = IF Logical(s) THEN @ ELSE value]
  <2>1. v = u3
    BY DEF conf_set_sym_val
  <2> HIDE DEF hh
  <2>2. u1 = [has |-> hh, tri |-> t, val |-> w]
    BY <1>1
  <2> HIDE DEF u1
  <2>3. u2 = [has |-> hh, tri |-> tt, val |-> w]
    BY <1>1, <2>2
  <2> HIDE DEF u2, tt
  <2>4. u3 = [has |-> hh, tri |-> tt, val |-> [w EXCEPT ![s] = IF Logical(s) THEN w[s] ELSE value]]
    BY <2>3
  <2> HIDE DEF u3, v
  <2>5. w = u.val
    BY <1>1
  <2> QED
    BY <2>1, <2>4, <2>5 DEF hh, tt
<1>3. ~Logical(s) => IsNumber(value)
  BY Kinds DEF Fits, IsNumber
<1> HIDE DEF v
<1>4. /\ v.has \in [DOMAIN Type -> BOOLEAN]
      /\ v.tri = [x \in DOMAIN Type |-> v.tri[x]]
      /\ v.val = [x \in DOMAIN Type |-> v.val[x]]
      /\ v = [has |-> v.has, tri |-> v.tri, val |-> v.val]
  BY <1>2 DEF UserOK
<1>5. /\ v.has[s] /\ v.tri[s] = IF Logical(s) THEN TriOf(value) ELSE 0
      /\ ~Logical(s) => v.val[s] = value
      /\ \A x \in DOMAIN Type \ {s} : v.has[x] = u.has[x] /\ v.tri[x] = u.tri[x] /\ v.val[x] = u.val[x]
  BY <1>2 DEF UserOK
<1>6. UserOK(v)
  BY <1>3, <1>4, <1>5 DEF UserOK
<1> QED
  BY <1>5, <1>6 DEF Gives, v

(* What is said of a symbol is left as it is.                               *)
SameOf(v, u, s) == v.has[s] = u.has[s] /\ v.tri[s] = u.tri[s] /\ v.val[s] = u.val[s]

LEMMA SetChoice ==
  ASSUME NEW r, NEW ch \in ChoiceSymbols, NEW s \in DOMAIN Type, Reads(r)
  PROVE  LET q == set_choice_of(r, ch, s)
         IN /\ Reads(q) /\ q.unknown = r.unknown
            /\ \A x \in DOMAIN Type \ {ch} : SameOf(q.user, r.user, x)
<1> DEFINE q == set_choice_of(r, ch, s)
           t == r.user.tri[s]
           was == r.user.tri[ch]
           clash == (t = 1 /\ was = 2) \/ (t = 2 /\ was # 0)
           hh == [r.user.has EXCEPT ![ch] = IF t = 1 /\ was = 2 THEN FALSE ELSE @]
           ww == [r.user.val EXCEPT ![ch] = IF t = 2 THEN s ELSE @]
           tt == [r.user.tri EXCEPT ![ch] = EXPR_OR(was, t)]
           u1 == [r.user EXCEPT !.has = hh]
           u2 == [u1 EXCEPT !.val[ch] = IF t = 2 THEN s ELSE @]
           u3 == [u2 EXCEPT !.tri[ch] = EXPR_OR(was, t)]
           warned == IF clash THEN r.warnings + 1 ELSE r.warnings
<1>1. PICK h, k, w : r.user = [has |-> h, tri |-> k, val |-> w]
  BY DEF UserOK, Reads
<1>2. r = [user |-> r.user, warnings |-> r.warnings, unknown |-> r.unknown] /\ UserOK(r.user)
  BY DEF Reads
<1>3. ch \in DOMAIN Type /\ Logical(ch)
  BY Kinds
<1>4. u3 = [has |-> hh, tri |-> tt, val |-> ww]
  <2> HIDE DEF hh, t, was
  <2>1. u1 = [has |-> hh, tri |-> k, val |-> w]
    BY <1>1
  <2> HIDE DEF u1
  <2>2. u2 = [has |-> hh, tri |-> k, val |-> [w EXCEPT ![ch] = IF t = 2 THEN s ELSE w[ch]]]
    BY <2>1
  <2> HIDE DEF u2
  <2>3. u3 = [has |-> hh, tri |-> [k EXCEPT ![ch] = EXPR_OR(was, t)],
              val |-> [w EXCEPT ![ch] = IF t = 2 THEN s ELSE w[ch]]]
    BY <2>2
  <2> HIDE DEF u3
  <2>4. r.user.tri = k /\ r.user.val = w
    BY <1>1
  <2> QED
    BY <2>3, <2>4
<1>5. q = [user |-> u3, warnings |-> warned, unknown |-> r.unknown]
  <2> DEFINE r1 == [r EXCEPT !.warnings = warned]
  <2>1. q = [r1 EXCEPT !.user = u3]
    BY DEF set_choice_of
  <2> HIDE DEF warned, q, u3
  <2>2. r1 = [user |-> r.user, warnings |-> warned, unknown |-> r.unknown]
    BY <1>2
  <2> HIDE DEF r1
  <2> QED
    BY <2>1, <2>2
<1>6. /\ hh \in [DOMAIN Type -> BOOLEAN]
      /\ tt = [x \in DOMAIN Type |-> tt[x]] /\ ww = [x \in DOMAIN Type |-> ww[x]]
      /\ \A x \in DOMAIN Type \ {ch} : hh[x] = r.user.has[x] /\ tt[x] = r.user.tri[x] /\ ww[x] = r.user.val[x]
  <2> HIDE DEF t, was
  <2> QED
    BY <1>2, <1>3 DEF UserOK
<1> HIDE DEF hh, tt, ww, u3, q, warned
<1>7. q.user = u3 /\ q.unknown = r.unknown /\ q.warnings = warned
  BY <1>5
<1>8. u3.has = hh /\ u3.tri = tt /\ u3.val = ww
  BY <1>4
<1>9. UserOK(u3)
  BY <1>2, <1>3, <1>4, <1>6, <1>8 DEF UserOK
<1>10. \A x \in DOMAIN Type \ {ch} : SameOf(q.user, r.user, x)
  BY <1>6, <1>7, <1>8 DEF SameOf
<1>11. Reads(q)
  BY <1>5, <1>7, <1>9 DEF Reads
<1> QED
  BY <1>7, <1>10, <1>11 DEF q

(* One line: what it does to the symbol it names, and to no other.           *)
LineRead(tbl, r, line, q) ==
  /\ Reads(q)
  /\ q.unknown = IF line.sym \in DOMAIN tbl THEN r.unknown ELSE r.unknown \cup {line.sym}
  /\ \A x \in DOMAIN tbl \ ChoiceSymbols :
       (x # line.sym \/ ~Fits(x, line.val)) => SameOf(q.user, r.user, x)
  /\ \A x \in DOMAIN tbl \ ChoiceSymbols :
       (x = line.sym /\ Fits(x, line.val)) => q.user.has[x] /\ Gives(q.user, x, line.val)

LEMMA ReadLine ==
  ASSUME NEW tbl, ChoicesOK(tbl), NEW r, Reads(r), NEW line
  PROVE  LineRead(tbl, r, line, read_line(tbl, r, line))
<1> DEFINE s == line.sym
           again == IF r.user.has[s] THEN 1 ELSE 0
           taken == [r EXCEPT !.user = conf_set_sym_val(@, s, line.val), !.warnings = @ + again]
           q == read_line(tbl, r, line)
<1>1. PICK u, w, k : r = [user |-> u, warnings |-> w, unknown |-> k]
  BY DEF Reads
<1>2. UserOK(u) /\ r.user = u /\ r.unknown = k /\ r.warnings = w
  BY <1>1 DEF Reads
<1>3. CASE s \notin DOMAIN tbl
  <2>1. q = [r EXCEPT !.unknown = @ \cup {s}]
    BY <1>3 DEF read_line, Known
  <2>2. q = [user |-> u, warnings |-> w, unknown |-> k \cup {s}]
    BY <1>1, <2>1
  <2> HIDE DEF q
  <2>3. q.user = u /\ q.unknown = k \cup {s}
    BY <2>2
  <2>4. Reads(q)
    BY <1>2, <2>2, <2>3 DEF Reads
  <2> QED
    BY <1>2, <1>3, <2>3, <2>4 DEF LineRead, SameOf, q
<1>4. CASE s \in DOMAIN tbl /\ ~Fits(s, line.val)
  <2> DEFINE warned == IF line.val = "unset" THEN r.warnings + again ELSE r.warnings + again + 1
  <2>1. q = [r EXCEPT !.warnings = warned]
    BY <1>4 DEF read_line, Known
  <2> HIDE DEF warned
  <2>2. q = [user |-> u, warnings |-> warned, unknown |-> k]
    BY <1>1, <2>1
  <2> HIDE DEF q
  <2>3. q.user = u /\ q.unknown = k
    BY <2>2
  <2>4. Reads(q)
    BY <1>2, <2>2, <2>3 DEF Reads
  <2> QED
    BY <1>2, <1>4, <2>3, <2>4 DEF LineRead, SameOf, q
<1>5. CASE s \in DOMAIN tbl /\ Fits(s, line.val)
  <2>1. s \in DOMAIN Type
    BY <1>5 DEF ChoicesOK
  <2> DEFINE v == conf_set_sym_val(u, s, line.val)
  <2>2. /\ UserOK(v) /\ v.has[s] /\ Gives(v, s, line.val)
        /\ \A x \in DOMAIN Type \ {s} : v.has[x] = u.has[x] /\ v.tri[x] = u.tri[x] /\ v.val[x] = u.val[x]
    BY <1>2, <1>5, <2>1, SetValue
  <2>3. taken = [user |-> v, warnings |-> w + again, unknown |-> k]
    <3> DEFINE r1 == [r EXCEPT !.user = v]
    <3>1. r1 = [user |-> v, warnings |-> w, unknown |-> k]
      <4> HIDE DEF v
      <4> QED
        BY <1>1
    <3>2. taken = [r1 EXCEPT !.warnings = r1.warnings + again]
      BY <1>2
    <3> HIDE DEF r1, v, again, taken
    <3> QED
      BY <3>1, <3>2
  <2>4. q = IF tbl[s].choice = Empty THEN taken ELSE set_choice_of(taken, tbl[s].choice, s)
    BY <1>5 DEF read_line, Known
  <2> HIDE DEF v, taken, q, again
  <2>5. Reads(taken) /\ taken.user = v /\ taken.unknown = k
    BY <2>2, <2>3 DEF Reads
  <2>6. CASE tbl[s].choice = Empty
    <3>1. q = taken
      BY <2>4, <2>6
    <3>2. DOMAIN tbl \subseteq DOMAIN Type
      BY DEF ChoicesOK
    <3>3. LineRead(tbl, r, line, taken)
      BY <1>2, <1>5, <2>2, <2>5, <3>2 DEF LineRead, SameOf
    <3> QED
      BY <3>1, <3>3 DEF q
  <2>7. CASE tbl[s].choice # Empty
    <3>1. PICK ch \in ChoiceSymbols : ch = tbl[s].choice
      BY <1>5, <2>7 DEF ChoicesOK
    <3>2. q = set_choice_of(taken, ch, s)
      BY <2>4, <2>7, <3>1
    <3>3. /\ Reads(q) /\ q.unknown = k
          /\ \A x \in DOMAIN Type \ {ch} : SameOf(q.user, v, x)
      BY <2>1, <2>5, <3>2, SetChoice
    <3>4. DOMAIN tbl \subseteq DOMAIN Type
      BY DEF ChoicesOK
    <3>5. \A x \in DOMAIN tbl \ ChoiceSymbols : x \in DOMAIN Type \ {ch} /\ SameOf(q.user, v, x)
      BY <3>3, <3>4
    <3>6. \A x \in DOMAIN tbl \ ChoiceSymbols : x # s => SameOf(v, u, x)
      BY <2>2, <3>4 DEF SameOf
    <3>7. LineRead(tbl, r, line, q)
      BY <1>2, <1>5, <2>2, <3>3, <3>5, <3>6 DEF LineRead, SameOf, Gives
    <3> QED
      BY <3>7 DEF q
  <2> QED
    BY <2>6, <2>7
<1> QED
  BY <1>3, <1>4, <1>5

LEMMA NothingRead == Reads([user |-> Forgotten, warnings |-> 0, unknown |-> {}])
<1>1. Forgotten = [has |-> [s \in DOMAIN Type |-> sym_is_choice(s)],
                   tri |-> [s \in DOMAIN Type |-> 0], val |-> [s \in DOMAIN Type |-> Empty]]
  <2> DEFINE h == [s \in DOMAIN Type |-> sym_is_choice(s)]
             none == [s \in DOMAIN Type |-> FALSE]
             t == [s \in DOMAIN Type |-> 0]
             w == [s \in DOMAIN Type |-> Empty]
  <2>1. NothingSaid = [has |-> none, tri |-> t, val |-> w]
    BY DEF NothingSaid
  <2>2. Forgotten = [NothingSaid EXCEPT !.has = h]
    BY DEF Forgotten
  <2> HIDE DEF h, t, w, none
  <2>3. Forgotten = [has |-> h, tri |-> t, val |-> w]
    BY <2>1, <2>2
  <2> QED
    BY <2>3 DEF h, t, w
<1>2. \A s \in DOMAIN Type : ~Logical(s) => ~sym_is_choice(s)
  BY Kinds DEF sym_is_choice
<1>3. \A s \in DOMAIN Type : sym_is_choice(s) \in BOOLEAN
  BY DEF sym_is_choice
<1>4. UserOK(Forgotten)
  BY <1>1, <1>2, <1>3 DEF UserOK
<1> HIDE DEF Forgotten
<1> QED
  BY <1>4 DEF Reads

LEMMA ToldMore ==
  ASSUME NEW tbl, NEW file, NEW r, NEW q, NEW n \in Nat, NEW s \in DOMAIN tbl \ ChoiceSymbols,
         Told(file, r.user, s, n), LineRead(tbl, r, file[n + 1], q)
  PROVE  Told(file, q.user, s, n + 1)
<1>1. \A i : i \in 1..(n + 1) <=> (i \in 1..n \/ i = n + 1)
  OBVIOUS
<1>2. CASE Line(file, n + 1, s)
  <2>1. q.user.has[s] /\ Gives(q.user, s, file[n + 1].val)
    BY <1>2 DEF LineRead, Line
  <2> QED
    BY <1>1, <1>2, <2>1 DEF Told
<1>3. CASE ~Line(file, n + 1, s)
  <2>1. SameOf(q.user, r.user, s)
    BY <1>3 DEF LineRead, Line
  <2>2. \A i \in 1..n : Gives(r.user, s, file[i].val) => Gives(q.user, s, file[i].val)
    BY <2>1 DEF SameOf, Gives
  <2>3. q.user.has[s] = r.user.has[s]
    BY <2>1 DEF SameOf
  <2> QED
    BY <1>1, <1>3, <2>2, <2>3 DEF Told
<1> QED
  BY <1>2, <1>3

(* What conf_read_simple makes of a file.                                   *)
LEMMA ReadIs ==
  ASSUME NEW tbl, ChoicesOK(tbl), NEW file, Len(file) \in Nat
  PROVE  ReadSoFar(tbl, file, conf_read_simple(tbl, file), Len(file))
<1> DEFINE n == Len(file)
<1>1. PICK f : ReadWalk(tbl, file, f, n) /\ conf_read_simple(tbl, file) = f[n]
  BY ReadWalked
<1> DEFINE S == {i \in Nat : i <= n => ReadSoFar(tbl, file, f[i], i)}
<1>2. 0 \in S
  <2> DEFINE start == [user |-> Forgotten, warnings |-> 0, unknown |-> {}]
  <2>1. f[0] = start
    BY <1>1 DEF ReadWalk
  <2>2. \A s \in DOMAIN tbl \ ChoiceSymbols : s \in DOMAIN Type
    BY DEF ChoicesOK
  <2>3. \A s \in DOMAIN Type \ ChoiceSymbols : ~Forgotten.has[s]
    BY DEF Forgotten, NothingSaid, sym_is_choice
  <2>4. start.user = Forgotten /\ start.unknown = {}
    OBVIOUS
  <2>5. Reads(start)
    BY NothingRead
  <2> HIDE DEF start
  <2>6. \A s \in DOMAIN tbl \ ChoiceSymbols : Told(file, start.user, s, 0)
    <3>1. \A i : i \notin 1..0
      OBVIOUS
    <3> QED
      BY <2>2, <2>3, <2>4, <3>1 DEF Told
  <2>7. start.unknown = {file[i].sym : i \in 1..0} \ DOMAIN tbl
    BY <2>4
  <2> QED
    BY <2>1, <2>5, <2>6, <2>7 DEF ReadSoFar
<1>3. ASSUME NEW i \in S PROVE i + 1 \in S
  <2> SUFFICES ASSUME i + 1 <= n PROVE ReadSoFar(tbl, file, f[i + 1], i + 1)
    OBVIOUS
  <2>1. i \in Nat /\ i + 1 \in 0..n /\ i + 1 # 0 /\ (i + 1) - 1 = i /\ i <= n
    OBVIOUS
  <2> DEFINE r == f[i]
             q == f[i + 1]
  <2>2. ReadSoFar(tbl, file, r, i)
    BY <2>1
  <2>3. q = read_line(tbl, r, file[i + 1])
    BY <1>1, <2>1 DEF ReadWalk
  <2> HIDE DEF r, q
  <2>4. Reads(r) /\ r.unknown = {file[j].sym : j \in 1..i} \ DOMAIN tbl
    BY <2>2 DEF ReadSoFar
  <2>5. LineRead(tbl, r, file[i + 1], q)
    BY <2>3, <2>4, ReadLine
  <2>6. \A s \in DOMAIN tbl \ ChoiceSymbols : Told(file, q.user, s, i + 1)
    BY <2>1, <2>2, <2>5, ToldMore DEF ReadSoFar
  <2>7. q.unknown = {file[j].sym : j \in 1..(i + 1)} \ DOMAIN tbl
    <3>1. {file[j].sym : j \in 1..(i + 1)} = {file[j].sym : j \in 1..i} \cup {file[i + 1].sym}
      <4>1. 1..(i + 1) = 1..i \cup {i + 1}
        BY <2>1
      <4> QED
        BY <4>1
    <3> QED
      BY <2>4, <2>5, <3>1 DEF LineRead
  <2>8. Reads(q)
    BY <2>5 DEF LineRead
  <2>9. ReadSoFar(tbl, file, q, i + 1)
    BY <2>6, <2>7, <2>8 DEF ReadSoFar
  <2> QED
    BY <2>9 DEF q
<1>4. S = Nat
  <2>1. S \in SUBSET Nat
    OBVIOUS
  <2> HIDE DEF S
  <2> QED
    BY <1>2, <1>3, <2>1, SetInduction
<1>5. n \in S /\ n <= n
  <2> HIDE DEF S
  <2> QED
    BY <1>4
<1> HIDE DEF n
<1> QED
  BY <1>1, <1>5 DEF n

-----------------------------------------------------------------------------
(* Working out the values.                                                 *)

(* What a table says of a number.                                           *)
NumberOK(d) ==
  /\ d.choice = Empty
  /\ Listing(d.defaults) /\ Listing(d.ranges)
  /\ \A p \in Range(d.defaults) : IsNumber(p.value)
  /\ \A p \in Range(d.ranges) : IsNumber(p.value[1]) /\ IsNumber(p.value[2])
  /\ \A cond \in Range(d.prompts) : \E p \in Range(d.defaults) : p.cond \in {NULL, cond}

LEMMA TableIs ==
  ASSUME NEW t, TableOK(t)
  PROVE  /\ ChoicesOK(t.db)
         /\ t.order \in Seq(DOMAIN Type) /\ DOMAIN t.db = Range(t.order)
         /\ t.names \in Seq(DOMAIN Type) /\ Range(t.names) = DOMAIN t.db \ ChoiceSymbols
         /\ Listing(t.names) /\ Listing(t.order)
         /\ \A s \in DOMAIN t.db : ~Logical(s) => NumberOK(t.db[s])
<1>1. Range(t.order) \subseteq DOMAIN Type
  <2>1. t.order \in Seq(DOMAIN Type)
    BY DEF TableOK
  <2> QED
    BY <2>1 DEF Range
<1>2. ChoicesOK(t.db)
  BY <1>1 DEF TableOK, ChoicesOK
<1>3. ASSUME NEW s \in DOMAIN t.db, ~Logical(s) PROVE NumberOK(t.db[s])
  BY <1>3 DEF TableOK, NumberOK, Listing, IsList
<1>4. Listing(t.names) /\ Listing(t.order)
  <2>1. t.names \in Seq(DOMAIN Type) /\ t.order \in Seq(DOMAIN Type)
    BY DEF TableOK
  <2>2. \A q : q \in Seq(DOMAIN Type) => Listing(q)
    BY DEF Listing, Range
  <2> QED
    BY <2>1, <2>2
<1> QED
  BY <1>2, <1>3, <1>4 DEF TableOK

LEMMA MaxOne ==
  ASSUME NEW n \in Int
  PROVE  Max({n}) = n
<1>1. n \in {n} /\ \A y \in {n} : n >= y
  OBVIOUS
<1>2. Max({n}) \in {n}
  BY <1>1 DEF Max
<1> QED
  BY <1>2

(* A condition that holds, and a prompt that shows.                         *)
LEMMA PromptShows ==
  ASSUME NEW s \in DOMAIN Type, NEW tbl, NEW c, tbl[s].choice = Empty, sym_visible(s, tbl, c) # 0
  PROVE  \E p \in Range(tbl[s].prompts) : cond_value(p, c) # 0
<1>3. Max({0}) = 0
  BY MaxOne
<1> SUFFICES ASSUME \A p \in Range(tbl[s].prompts) : cond_value(p, c) = 0
             PROVE  sym_visible(s, tbl, c) = 0
  OBVIOUS
<1> DEFINE strengths == {cond_value(p, c) : p \in Range(tbl[s].prompts)}
           ch == tbl[s].choice
           seen(t) == IF ch # Empty /\ Type[s] = "tristate" /\ t = 1 /\ c[ch].tri = 2 THEN 0 ELSE t
           all == {0} \cup {seen(cond_value(p, c)) : p \in Range(tbl[s].prompts)}
<1>1. \A t : seen(t) = t
  OBVIOUS
<1>2. all = {0}
  <2> HIDE DEF seen
  <2> QED
    BY <1>1
<1>4. Max(all) = 0
  <2> HIDE DEF all
  <2> QED
    BY <1>2, <1>3
<1>5. sym_visible(s, tbl, c) = IF Max(all) = 1 /\ (Type[s] # "tristate" \/ c["MODULES"].tri = 0) THEN 2 ELSE Max(all)
  BY DEF sym_visible
<1> HIDE DEF all
<1> QED
  BY <1>4, <1>5

LEMMA FirstIs ==
  ASSUME NEW props, NEW c, Listing(props)
  PROVE  /\ FirstOf(props, c) # <<>> => Head(FirstOf(props, c)) \in Range(props)
         /\ (\E p \in Range(props) : cond_value(p.cond, c) # 0) => FirstOf(props, c) # <<>>
<1> DEFINE true == {p \in Range(props) : cond_value(p.cond, c) # 0}
           q == FirstOf(props, c)
<1>1. Listing(q) /\ Range(q) = Range(props) \cap true
  BY ThoseIs DEF FirstOf
<1> HIDE DEF q
<1>2. q # <<>> => 1 \in DOMAIN q /\ Head(q) = q[1]
  BY <1>1 DEF Listing
<1>3. \A x \in Range(q) : q # <<>>
  BY DEF Range
<1>4. \A p \in Range(props) : cond_value(p.cond, c) # 0 => p \in Range(q)
  BY <1>1
<1> QED
  BY <1>1, <1>2, <1>3, <1>4 DEF Range, q

(* A number that is shown or has a default goes into the file, and as a number. *)
NumberKept(v) == (v.write => IsNumber(v.val)) /\ (v.visible # 0 => v.write)

LEMMA ValidRange ==
  ASSUME NEW s \in DOMAIN Type, NEW tbl, NEW c, NEW val, ~Logical(s), NumberOK(tbl[s]), IsNumber(val)
  PROVE  IsNumber(sym_validate_range(s, tbl, c, val))
<1> DEFINE rs == FirstOf(tbl[s].ranges, c)
           in == sym_validate_range(s, tbl, c, val)
<1>1. Type[s] = "int" /\ val # Empty
  BY Kinds DEF IsNumber
<1>2. rs # <<>> => Head(rs) \in Range(tbl[s].ranges)
  BY FirstIs DEF NumberOK
<1>3. rs # <<>> => IsNumber(Head(rs).value[1]) /\ IsNumber(Head(rs).value[2])
  BY <1>2 DEF NumberOK
<1>4. in = CASE rs = <<>> -> val
             [] rs # <<>> /\ Place(val) < Place(Head(rs).value[1]) -> Head(rs).value[1]
             [] rs # <<>> /\ Place(val) > Place(Head(rs).value[2]) -> Head(rs).value[2]
             [] OTHER -> val
  BY <1>1 DEF sym_validate_range
<1> HIDE DEF rs, in
<1>5. in = val \/ (rs # <<>> /\ (in = Head(rs).value[1] \/ in = Head(rs).value[2]))
  BY <1>4
<1> QED
  BY <1>3, <1>5 DEF in

LEMMA NumberValued ==
  ASSUME NEW s \in DOMAIN Type, NEW tbl, NEW u, NEW c, ~Logical(s), NumberOK(tbl[s]), UserOK(u)
  PROVE  NumberKept(sym_calc_value(s, tbl, u, c))
<1> DEFINE see == sym_calc_visibility(s, tbl, c)
           ds == FirstOf(tbl[s].defaults, c)
           v == sym_calc_value(s, tbl, u, c)
           first == IF ds = <<>> THEN Empty ELSE Head(ds).value
           given == IF see.visible # 0 /\ u.has[s] THEN u.val[s] ELSE first
<1>1. Type[s] = "int" /\ ~sym_is_choice(s) /\ tbl[s].choice = Empty
  BY Kinds DEF sym_is_choice, NumberOK
<1>2. see.visible = sym_visible(s, tbl, c)
  BY DEF sym_calc_visibility
<1>3. /\ v.val = NumberValue(s, tbl, u, c, see, ds)
      /\ v.visible = see.visible
      /\ v.write = Written(s, tbl, c, see, ds, 0)
  <2> HIDE DEF see, ds
  <2> QED
    BY <1>1 DEF sym_calc_value, with_choice, see, ds
<1>4. Written(s, tbl, c, see, ds, 0) <=> (see.visible # 0 \/ ds # <<>>)
  <2> HIDE DEF see, ds
  <2> QED
    BY <1>1 DEF Written
<1>5. NumberValue(s, tbl, u, c, see, ds) = sym_validate_range(s, tbl, c, given)
  <2> HIDE DEF see, ds
  <2> QED
    BY DEF NumberValue
<1>6. ds # <<>> => IsNumber(Head(ds).value)
  BY FirstIs DEF NumberOK
<1>7. see.visible # 0 => ds # <<>>
  <2> SUFFICES ASSUME see.visible # 0 PROVE ds # <<>>
    OBVIOUS
  <2>1. PICK p \in Range(tbl[s].prompts) : cond_value(p, c) # 0
    BY <1>1, <1>2, PromptShows
  <2>2. PICK d \in Range(tbl[s].defaults) : d.cond \in {NULL, p}
    BY DEF NumberOK
  <2>3. cond_value(d.cond, c) # 0
    BY <2>1, <2>2 DEF cond_value
  <2>4. Listing(tbl[s].defaults)
    BY DEF NumberOK
  <2> HIDE DEF see
  <2> QED
    BY <2>2, <2>3, <2>4, FirstIs
<1>8. u.has[s] => IsNumber(u.val[s])
  BY DEF UserOK
<1> HIDE DEF see, ds, v
<1>9. v.write => IsNumber(given)
  BY <1>3, <1>4, <1>6, <1>7, <1>8
<1> HIDE DEF given
<1>10. v.write => IsNumber(v.val)
  BY <1>3, <1>5, <1>9, ValidRange
<1>11. v.visible # 0 => v.write
  BY <1>3, <1>4
<1> QED
  BY <1>10, <1>11 DEF NumberKept, v

(* The walk of Values.                                                      *)
Following(x, s, tbl, u) == valued(x, s, sym_calc_value(s, tbl, u, x))

ValuesWalk(ord, tbl, u, modules, f, n) ==
  f = [i \in 0..n |-> IF i = 0 THEN NoValues(modules) ELSE Following(f[i - 1], ord[i], tbl, u)]

LEMMA ValuesWalks ==
  ASSUME NEW ord, NEW tbl, NEW u, NEW modules
  PROVE  \A n \in Nat : \E f : ValuesWalk(ord, tbl, u, modules, f, n)
<1> DEFINE After(x, i) == Following(x, ord[i], tbl, u)
           Walk(f, n) == f = [i \in 0..n |-> IF i = 0 THEN NoValues(modules) ELSE After(f[i - 1], i)]
           S == {n \in Nat : \E f : Walk(f, n)}
<1>1. 0 \in S
  <2> HIDE DEF After
  <2>1. Walk([i \in 0..0 |-> NoValues(modules)], 0)
    OBVIOUS
  <2> QED
    BY <2>1
<1>2. ASSUME NEW k \in S PROVE k + 1 \in S
  <2>1. PICK f : Walk(f, k)
    OBVIOUS
  <2> DEFINE g == [i \in 0..(k + 1) |-> IF i = k + 1 THEN After(f[k], k + 1) ELSE f[i]]
  <2> HIDE DEF After
  <2>2. ASSUME NEW i \in 0..(k + 1)
        PROVE  g[i] = IF i = 0 THEN NoValues(modules) ELSE After(g[i - 1], i)
    <3>1. CASE i = k + 1
      <4>1. g[i - 1] = f[k]
        BY <3>1
      <4> QED
        BY <3>1, <4>1
    <3>2. CASE i # k + 1
      <4>1. i \in 0..k
        BY <3>2
      <4>2. i # 0 => i - 1 \in 0..k /\ g[i - 1] = f[i - 1]
        BY <4>1
      <4>3. g[i] = f[i]
        BY <3>2
      <4>4. f[i] = IF i = 0 THEN NoValues(modules) ELSE After(f[i - 1], i)
        BY <2>1, <4>1
      <4> QED
        BY <4>2, <4>3, <4>4
    <3> QED
      BY <3>1, <3>2
  <2>3. Walk(g, k + 1)
    BY <2>2
  <2>4. k + 1 \in Nat
    OBVIOUS
  <2> HIDE DEF Walk, g
  <2> QED
    BY <2>3, <2>4
<1>3. S = Nat
  <2> HIDE DEF Walk
  <2>1. S \in SUBSET Nat
    OBVIOUS
  <2> HIDE DEF S
  <2> QED
    BY <1>1, <1>2, <2>1, SetInduction
<1>4. ASSUME NEW n \in Nat PROVE \E f : ValuesWalk(ord, tbl, u, modules, f, n)
  <2>1. PICK f : Walk(f, n)
    BY <1>3
  <2>2. ValuesWalk(ord, tbl, u, modules, f, n)
    BY <2>1 DEF ValuesWalk
  <2> QED
    BY <2>2
<1> QED
  BY <1>4

LEMMA ValuesWalked ==
  ASSUME NEW ord, NEW tbl, NEW u, NEW modules, Len(ord) \in Nat
  PROVE  \E f : ValuesWalk(ord, tbl, u, modules, f, Len(ord)) /\ Values(ord, tbl, u, modules) = f[Len(ord)]
<1> DEFINE f == CHOOSE g : ValuesWalk(ord, tbl, u, modules, g, Len(ord))
<1>1. ValuesWalk(ord, tbl, u, modules, f, Len(ord))
  BY ValuesWalks
<1>2. Values(ord, tbl, u, modules) = f[Len(ord)]
  BY DEF Values, ValuesWalk, Following
<1> QED
  BY <1>1, <1>2

(* Values that are good to be written: there are no modules, and a number    *)
(* that is written is one.                                                   *)
Fixed == {"y", "m", "n", "MODULES"}
ValuesSoFar(ord, c, n) ==
  /\ DOMAIN c = Fixed \cup {ord[i] : i \in 1..n}
  /\ c["MODULES"].tri = 0
  /\ \A i \in 1..n : ~Logical(ord[i]) => NumberKept(c[ord[i]])

LEMMA ValuesMore ==
  ASSUME NEW ord, NEW c, NEW n \in Nat, ValuesSoFar(ord, c, n), ord[n + 1] \in DOMAIN Type, NEW v,
         ~Logical(ord[n + 1]) => NumberKept(v)
  PROVE  ValuesSoFar(ord, valued(c, ord[n + 1], v), n + 1)
<1> DEFINE s == ord[n + 1]
           d == valued(c, s, v)
<1>1. s # "MODULES" /\ "MODULES" \in DOMAIN c
  BY Kinds DEF ValuesSoFar, Fixed
<1>2. DOMAIN d = DOMAIN c \cup {s} /\ \A x \in DOMAIN d : d[x] = IF x = s THEN v ELSE c[x]
  BY DEF valued
<1>3. 1..(n + 1) = 1..n \cup {n + 1}
  OBVIOUS
<1> HIDE DEF d
<1>4. DOMAIN d = Fixed \cup {ord[i] : i \in 1..(n + 1)}
  BY <1>2, <1>3 DEF ValuesSoFar
<1>5. d["MODULES"].tri = 0
  BY <1>1, <1>2 DEF ValuesSoFar
<1>6. ASSUME NEW i \in 1..(n + 1), ~Logical(ord[i]) PROVE NumberKept(d[ord[i]])
  <2>1. ord[i] \in DOMAIN d
    BY <1>4
  <2>2. CASE ord[i] = s
    BY <1>2, <1>6, <2>1, <2>2
  <2>3. CASE ord[i] # s
    <3>1. i \in 1..n
      BY <1>3, <2>3
    <3> QED
      BY <1>2, <1>6, <2>1, <2>3, <3>1 DEF ValuesSoFar
  <2> QED
    BY <2>2, <2>3
<1>7. ValuesSoFar(ord, d, n + 1)
  BY <1>4, <1>5, <1>6 DEF ValuesSoFar
<1> QED
  BY <1>7 DEF d

GoodValues(tbl, c) ==
  /\ DOMAIN c = Fixed \cup DOMAIN tbl
  /\ c["MODULES"].tri = 0
  /\ \A s \in DOMAIN tbl : ~Logical(s) => NumberKept(c[s])

LEMMA ValuesAreGood ==
  ASSUME NEW t, TableOK(t), NEW u, UserOK(u)
  PROVE  GoodValues(t.db, Values(t.order, t.db, u, 0))
<1> DEFINE ord == t.order
           tbl == t.db
           n == Len(ord)
<1>1. /\ n \in Nat /\ DOMAIN ord = 1..n /\ DOMAIN tbl = Range(ord)
      /\ \A i \in 1..n : ord[i] \in DOMAIN Type /\ ord[i] \in DOMAIN tbl
      /\ \A s \in DOMAIN tbl : ~Logical(s) => NumberOK(tbl[s])
  <2>1. ord \in Seq(DOMAIN Type) /\ DOMAIN tbl = Range(ord)
        /\ \A s \in DOMAIN tbl : ~Logical(s) => NumberOK(tbl[s])
    BY TableIs
  <2> HIDE DEF ord, tbl
  <2> QED
    BY <2>1 DEF Range
<1> HIDE DEF ord, tbl
<1>2. PICK f : ValuesWalk(ord, tbl, u, 0, f, n) /\ Values(ord, tbl, u, 0) = f[n]
  BY <1>1, ValuesWalked
<1> DEFINE S == {i \in Nat : i <= n => ValuesSoFar(ord, f[i], i)}
<1>3. 0 \in S
  <2>1. f[0] = NoValues(0)
    BY <1>1, <1>2 DEF ValuesWalk
  <2>2. DOMAIN NoValues(0) = Fixed /\ NoValues(0)["MODULES"].tri = 0
    BY DEF NoValues, Fixed, Constant
  <2>3. \A i : i \notin 1..0
    OBVIOUS
  <2>4. ValuesSoFar(ord, f[0], 0)
    BY <2>1, <2>2, <2>3 DEF ValuesSoFar
  <2> QED
    BY <2>4
<1>4. ASSUME NEW i \in S PROVE i + 1 \in S
  <2> SUFFICES ASSUME i + 1 <= n PROVE ValuesSoFar(ord, f[i + 1], i + 1)
    OBVIOUS
  <2>1. i \in Nat /\ i + 1 \in 0..n /\ i + 1 \in 1..n /\ i + 1 # 0 /\ (i + 1) - 1 = i /\ i <= n
    BY <1>1
  <2> DEFINE s == ord[i + 1]
             c == f[i]
             v == sym_calc_value(s, tbl, u, c)
  <2>2. ValuesSoFar(ord, c, i)
    BY <2>1
  <2>3. f[i + 1] = valued(c, s, v)
    BY <1>2, <2>1 DEF ValuesWalk, Following
  <2>4. s \in DOMAIN Type /\ s \in DOMAIN tbl
    BY <1>1, <2>1
  <2>5. ~Logical(s) => NumberKept(v)
    BY <1>1, <2>4, NumberValued
  <2> HIDE DEF v, c
  <2>6. ValuesSoFar(ord, valued(c, s, v), i + 1)
    BY <2>1, <2>2, <2>4, <2>5, ValuesMore
  <2> QED
    BY <2>3, <2>6
<1>5. S = Nat
  <2>1. S \in SUBSET Nat
    OBVIOUS
  <2> HIDE DEF S
  <2> QED
    BY <1>3, <1>4, <2>1, SetInduction
<1>6. n \in S /\ n <= n
  <2> HIDE DEF S, n
  <2> QED
    BY <1>1, <1>5
<1> HIDE DEF n
<1>7. ValuesSoFar(ord, f[n], n)
  BY <1>6
<1>8. {ord[i] : i \in 1..n} = DOMAIN tbl
  BY <1>1 DEF Range
<1>9. GoodValues(tbl, f[n])
  BY <1>7, <1>8 DEF GoodValues, ValuesSoFar
<1> QED
  BY <1>2, <1>9 DEF ord, tbl

-----------------------------------------------------------------------------
(* The configuration saved last.                                           *)

DiskShape == disk = [config |-> disk.config, old |-> disk.old, auto |-> disk.auto,
                     header |-> disk.header, defconfig |-> disk.defconfig]

(* .config is what was saved last, or not there: then the file kept of it is *)
(* the one that was saved.                                                   *)
ConfigKept ==
  /\ disk.config \in {Missing, saved}
  /\ disk.config = Missing => saved \in {Missing, disk.old}

SurviveInv == DiskShape /\ ConfigKept

(* Backup moves the file that was saved, Replace writes the next one, and no *)
(* other step writes either file.                                            *)
LEMMA SurviveNext ==
  ASSUME SurviveInv, [BuildNext]_build_vars
  PROVE  SurviveInv'
<1> USE DEF SurviveInv, DiskShape
<1>1. CASE Backup
  <2>1. CASE disk.config = Missing
    <3>1. disk' = disk /\ saved' = saved
      BY <1>1, <2>1 DEF Backup, backup
    <3> QED
      BY <3>1 DEF ConfigKept
  <2>2. CASE disk.config # Missing
    <3>1. disk' = [disk EXCEPT !.old = disk.config, !.config = Missing] /\ saved' = saved
      BY <1>1, <2>2 DEF Backup, backup
    <3> QED
      BY <2>2, <3>1 DEF ConfigKept
  <2> QED
    BY <2>1, <2>2
<1>2. CASE Replace
  <2> DEFINE new == config_text(names, running.curr)
  <2>1. disk' = [disk EXCEPT !.config = new] /\ saved' = disk'.config
    BY <1>2 DEF Replace
  <2> HIDE DEF new
  <2> QED
    BY <2>1 DEF ConfigKept
<1>3. CASE Savedefconfig
  <2> DEFINE new == conf_write_defconfig(names, db, CurrentValues(Read(disk.config).user))
  <2>1. disk' = [disk EXCEPT !.defconfig = new] /\ saved' = saved
    BY <1>3 DEF Savedefconfig
  <2> HIDE DEF new
  <2> QED
    BY <2>1 DEF ConfigKept
<1>4. CASE WriteHeader
  <2> DEFINE new == auto_text(names, running.curr)
  <2>1. disk' = [disk EXCEPT !.header = new] /\ saved' = saved
    BY <1>4 DEF WriteHeader
  <2> HIDE DEF new
  <2> QED
    BY <2>1 DEF ConfigKept
<1>5. CASE WriteAuto
  <2> DEFINE new == auto_text(names, running.curr)
  <2>1. disk' = [disk EXCEPT !.auto = new] /\ saved' = saved
    BY <1>5 DEF WriteAuto
  <2> HIDE DEF new
  <2> QED
    BY <2>1 DEF ConfigKept
<1>6. CASE UNCHANGED <<disk, saved>>
  BY <1>6 DEF ConfigKept
<1> QED
  BY <1>1, <1>2, <1>3, <1>4, <1>5, <1>6
     DEF BuildNext, build_vars, Menuconfig, LeaveMenus, Defconfig, ReadConfig, Ask, Answered, Touch, Touched,
         Crash, Checkout, Look

(* Whatever is killed between the two renames of conf_write, and whatever    *)
(* runs after it, the configuration saved last is .config or .config.old     *)
(* (confdata.c:918-929).                                                     *)
THEOREM SavedConfigIsKept == BuildSpec => []SavedConfigSurvives
<1>1. BuildInit => SurviveInv
  BY DEF BuildInit, SurviveInv, DiskShape, ConfigKept
<1>2. SurviveInv /\ [BuildNext]_build_vars => SurviveInv'
  BY SurviveNext
<1>3. SurviveInv => SavedConfigSurvives
  BY DEF SurviveInv, ConfigKept, SavedConfigSurvives
<1> QED
  BY <1>1, <1>2, <1>3, PTL DEF BuildSpec

-----------------------------------------------------------------------------
(* What is written.                                                        *)

(* The lines a file has of a symbol.                                        *)
LinesOf(file, s) == {line \in Range(file) : line.sym = s}

SetLines(file) == Those(file, {line \in Range(file) : line.val # "unset"})

(* The files auto.conf and autoconf.h can be.                               *)
AutoLines(file) ==
  /\ Listing(file)
  /\ \A line \in Range(file) :
       /\ line = [sym |-> line.sym, val |-> line.val]
       /\ line.sym \in DOMAIN Type \ ChoiceSymbols
       /\ IF Logical(line.sym) THEN line.val = "y" ELSE IsNumber(line.val)
  /\ \A one, two \in Range(file) : one.sym = two.sym => one = two

LEMMA AutoIsThere ==
  ASSUME NEW file, AutoLines(file)
  PROVE  file # Missing
<1> SUFFICES ASSUME file = Missing PROVE FALSE
  OBVIOUS
<1>1. DOMAIN Missing = {1} /\ Missing[1].sym = Empty
  BY DEF Missing
<1>2. Missing[1] \in Range(file)
  BY <1>1 DEF Range
<1> QED
  BY <1>1, <1>2, Kinds DEF AutoLines

LEMMA MissingIsListing == Listing(Missing) /\ Len(Missing) \in Nat
BY DEF Missing, Listing, Range

(* The lines of a list of symbols, printed.                                 *)
LEMMA Printed ==
  ASSUME NEW syms, NEW c, Listing(syms)
  PROVE  LET file == [i \in DOMAIN syms |-> print_symbol(syms[i], c)]
         IN Listing(file) /\ Range(file) = {print_symbol(s, c) : s \in Range(syms)}
<1> DEFINE file == [i \in DOMAIN syms |-> print_symbol(syms[i], c)]
           n == Len(syms)
<1>1. n \in Nat /\ DOMAIN syms = 1..n /\ \A i \in 1..n : syms[i] \in Range(syms)
  BY ListingIs
<1> HIDE DEF n
<1>2. DOMAIN file = 1..n /\ \A i \in 1..n : file[i] = print_symbol(syms[i], c)
  BY <1>1
<1>3. file = [i \in 1..n |-> file[i]]
  BY <1>1
<1> HIDE DEF file
<1>4. \A i \in 1..n : file[i] \in Range(file)
  BY <1>2 DEF Range
<1>5. file \in [1..n -> Range(file)]
  BY <1>3, <1>4
<1>6. file \in Seq(Range(file))
  BY <1>1, <1>5
<1>7. Range(file) = {print_symbol(s, c) : s \in Range(syms)}
  BY <1>1, <1>2 DEF Range
<1> QED
  BY <1>6, <1>7 DEF Listing, file

LEMMA ConfigText ==
  ASSUME NEW nms, NEW c, Listing(nms)
  PROVE  /\ Listing(config_text(nms, c))
         /\ Range(config_text(nms, c)) = {print_symbol(s, c) : s \in {x \in Range(nms) : c[x].write}}
<1> DEFINE set == {s \in Range(nms) : c[s].write}
           syms == Those(nms, set)
<1>1. Listing(syms) /\ Range(syms) = Range(nms) \cap set
  BY ThoseIs
<1>2. config_text(nms, c) = [i \in DOMAIN syms |-> print_symbol(syms[i], c)]
  BY DEF config_text
<1> HIDE DEF syms
<1>3. Listing(config_text(nms, c)) /\ Range(config_text(nms, c)) = {print_symbol(s, c) : s \in Range(syms)}
  BY <1>1, <1>2, Printed
<1>4. Range(syms) = set
  BY <1>1
<1> QED
  BY <1>3, <1>4

LEMMA AutoText ==
  ASSUME NEW nms, NEW c, Listing(nms)
  PROVE  /\ auto_text(nms, c) = SetLines(config_text(nms, c))
         /\ Listing(auto_text(nms, c))
         /\ Range(auto_text(nms, c)) = {line \in Range(config_text(nms, c)) : line.val # "unset"}
<1> DEFINE lines == config_text(nms, c)
           set == {line \in Range(lines) : line.val # "unset"}
<1>1. Listing(lines)
  BY ConfigText
<1>2. auto_text(nms, c) = Those(lines, set)
  BY DEF auto_text
<1> HIDE DEF lines
<1>3. Listing(Those(lines, set)) /\ Range(Those(lines, set)) = Range(lines) \cap set
  BY <1>1, ThoseIs
<1> QED
  BY <1>2, <1>3 DEF SetLines, lines

LEMMA DefconfigText ==
  ASSUME NEW nms, NEW tbl, NEW c, Listing(nms)
  PROVE  Listing(conf_write_defconfig(nms, tbl, c))
<1> DEFINE set == {s \in Range(nms) :
                /\ c[s].write /\ sym_is_changeable(s, c)
                /\ sym_get_string_value(s, c) # sym_get_string_default(s, tbl, c)
                /\ ~is_default_of_choice(s, tbl, c)}
           syms == Those(nms, set)
<1>1. Listing(syms)
  BY ThoseIs
<1>2. conf_write_defconfig(nms, tbl, c) = [i \in DOMAIN syms |-> print_symbol(syms[i], c)]
  BY DEF conf_write_defconfig
<1> HIDE DEF syms
<1> QED
  BY <1>1, <1>2, Printed

(* How a symbol of good values is written: a logical one is y or not set, a  *)
(* number is the number.                                                     *)
LEMMA PrintIs ==
  ASSUME NEW tbl, NEW c, GoodValues(tbl, c), NEW s \in DOMAIN tbl, s \in DOMAIN Type, c[s].write
  PROVE  LET line == print_symbol(s, c)
         IN /\ line = [sym |-> s, val |-> line.val]
            /\ Logical(s) => line.val = IF c[s].tri \in {0, 1} THEN "unset" ELSE "y"
            /\ ~Logical(s) => line.val = c[s].val /\ IsNumber(line.val)
<1> DEFINE word == sym_get_string_value(s, c)
           line == print_symbol(s, c)
<1>1. s \notin {"y", "m", "n"}
  BY Kinds
<1>2. c["MODULES"].tri = 0
  BY DEF GoodValues
<1>3. Logical(s) => word = IF c[s].tri \in {0, 1} THEN "n" ELSE "y"
  BY <1>2 DEF sym_get_string_value, Logical, TriString
<1>4. ~Logical(s) => word = c[s].val
  BY <1>1 DEF sym_get_string_value, Logical
<1>5. ~Logical(s) => IsNumber(c[s].val)
  BY DEF GoodValues, NumberKept
<1> HIDE DEF word
<1>6. line = [sym |-> s, val |-> IF Logical(s) /\ word = "n" THEN "unset" ELSE word]
  BY DEF print_symbol, word
<1> QED
  BY <1>3, <1>4, <1>5, <1>6

(* What auto.conf says of a symbol, and that it is a file of the kind.       *)
LEMMA AutoSays ==
  ASSUME NEW t, TableOK(t), NEW c, GoodValues(t.db, c), NEW s
  PROVE  LinesOf(auto_text(t.names, c), s) =
           IF s \in Range(t.names) /\ c[s].write /\ print_symbol(s, c).val # "unset" THEN {print_symbol(s, c)} ELSE {}
<1> DEFINE file == auto_text(t.names, c)
           nms == t.names
<1>1. Listing(nms) /\ Range(nms) \subseteq DOMAIN t.db /\ DOMAIN t.db \subseteq DOMAIN Type
  BY TableIs DEF ChoicesOK
<1>2. Range(file) = {line \in {print_symbol(x, c) : x \in {y \in Range(nms) : c[y].write}} : line.val # "unset"}
  BY <1>1, AutoText, ConfigText
<1>3. \A x \in Range(nms) : print_symbol(x, c).sym = x
  BY DEF print_symbol
<1> HIDE DEF file, nms
<1> QED
  BY <1>2, <1>3 DEF LinesOf, file, nms

LEMMA AutoIsAuto ==
  ASSUME NEW t, TableOK(t), NEW c, GoodValues(t.db, c)
  PROVE  AutoLines(auto_text(t.names, c))
<1> DEFINE file == auto_text(t.names, c)
           nms == t.names
           tbl == t.db
<1>1. /\ Listing(nms) /\ Range(nms) = DOMAIN tbl \ ChoiceSymbols /\ DOMAIN tbl \subseteq DOMAIN Type
  BY TableIs DEF ChoicesOK
<1>2. /\ Listing(file)
      /\ Range(file) = {line \in {print_symbol(x, c) : x \in {y \in Range(nms) : c[y].write}} : line.val # "unset"}
  BY <1>1, AutoText, ConfigText
<1>3. \A x \in Range(nms) : print_symbol(x, c).sym = x
  BY DEF print_symbol
<1>4. ASSUME NEW x \in Range(nms), c[x].write
      PROVE  /\ print_symbol(x, c) = [sym |-> x, val |-> print_symbol(x, c).val]
             /\ Logical(x) => print_symbol(x, c).val \in {"unset", "y"}
             /\ ~Logical(x) => IsNumber(print_symbol(x, c).val)
  <2> HIDE DEF tbl
  <2>1. x \in DOMAIN tbl /\ x \in DOMAIN Type /\ GoodValues(tbl, c)
    BY <1>1 DEF tbl
  <2> QED
    BY <1>4, <2>1, PrintIs
<1> HIDE DEF file, nms, tbl
<1>5. ASSUME NEW line \in Range(file)
      PROVE  /\ line = [sym |-> line.sym, val |-> line.val]
             /\ line.sym \in DOMAIN Type \ ChoiceSymbols
             /\ IF Logical(line.sym) THEN line.val = "y" ELSE IsNumber(line.val)
  <2>1. PICK x \in Range(nms) : c[x].write /\ line = print_symbol(x, c) /\ line.val # "unset"
    BY <1>2
  <2> QED
    BY <1>1, <1>3, <1>4, <2>1
<1>6. ASSUME NEW one \in Range(file), NEW two \in Range(file), one.sym = two.sym PROVE one = two
  BY <1>2, <1>3, <1>6
<1> QED
  BY <1>2, <1>5, <1>6 DEF AutoLines, file

(* A symbol whose dependency file is not touched has the line in auto.conf   *)
(* that the new one will have, or none in both: a symbol of the file that    *)
(* nobody knows, or that is not written any more, is touched, and so is one  *)
(* whose value differs and one that is new and not n.                        *)
LEMMA UntouchedIsSame ==
  ASSUME NEW t, TableOK(t), NEW c, GoodValues(t.db, c), NEW auto, AutoLines(auto),
         NEW s, s \notin conf_touch_deps(t.names, t.db, c, auto)
  PROVE  LinesOf(auto, s) = LinesOf(auto_text(t.names, c), s)
<1> DEFINE tbl == t.db
           nms == t.names
           r == conf_read_simple(tbl, auto)
           n == Len(auto)
           differs(x) == IF Logical(x) THEN c[x].tri # r.user.tri[x]
                         ELSE sym_get_string_value(x, c) # r.user.val[x]
           touch(x) == CASE c[x].write /\ r.user.has[x]  -> differs(x)
                         [] c[x].write /\ ~r.user.has[x] -> ~(Logical(x) /\ c[x].tri = 0)
                         [] OTHER                        -> r.user.has[x]
           new == LinesOf(auto_text(nms, c), s)
<1>1. /\ ChoicesOK(tbl) /\ Range(nms) = DOMAIN tbl \ ChoiceSymbols /\ DOMAIN tbl \subseteq DOMAIN Type
      /\ GoodValues(tbl, c)
  BY TableIs DEF ChoicesOK
<1>2. n \in Nat /\ DOMAIN auto = 1..n /\ \A x \in Range(auto) : \E i \in 1..n : x = auto[i]
  BY ListingIs DEF AutoLines
<1>3. conf_touch_deps(nms, tbl, c, auto) = r.unknown \cup {x \in Range(nms) : touch(x)}
  BY AutoIsThere DEF conf_touch_deps
<1>4. new = IF s \in Range(nms) /\ c[s].write /\ print_symbol(s, c).val # "unset"
            THEN {print_symbol(s, c)} ELSE {}
  BY AutoSays
<1> HIDE DEF tbl, nms
<1>5. ReadSoFar(tbl, auto, r, n)
  BY <1>1, <1>2, ReadIs
<1> HIDE DEF r, n, new, touch, differs
<1>6. s \notin r.unknown /\ (s \in Range(nms) => ~touch(s))
  BY <1>3 DEF tbl, nms
<1>7. ASSUME NEW line \in LinesOf(auto, s)
      PROVE  /\ s \in Range(nms)
             /\ \E i \in 1..n : auto[i] = line /\ Line(auto, i, s)
             /\ line = [sym |-> s, val |-> line.val]
             /\ IF Logical(s) THEN line.val = "y" ELSE IsNumber(line.val)
  <2>1. line \in Range(auto) /\ line.sym = s
    BY DEF LinesOf
  <2>2. PICK i \in 1..n : line = auto[i]
    BY <1>2, <2>1
  <2>3. /\ line = [sym |-> s, val |-> line.val] /\ s \in DOMAIN Type \ ChoiceSymbols
        /\ IF Logical(s) THEN line.val = "y" ELSE IsNumber(line.val)
    BY <2>1 DEF AutoLines
  <2>4. s \in DOMAIN tbl
    BY <1>5, <1>6, <2>1, <2>2 DEF ReadSoFar
  <2>5. Fits(s, line.val)
    BY <2>3, Kinds DEF Fits, IsNumber
  <2>6. Line(auto, i, s)
    BY <2>1, <2>2, <2>5 DEF Line
  <2> QED
    BY <1>1, <2>2, <2>3, <2>4, <2>6
<1>8. CASE s \notin Range(nms)
  BY <1>4, <1>7, <1>8 DEF new, nms
<1>9. CASE s \in Range(nms)
  <2>1. s \in DOMAIN tbl \ ChoiceSymbols /\ s \in DOMAIN Type
    BY <1>1, <1>9
  <2>2. Told(auto, r.user, s, n) /\ Reads(r)
    BY <1>5, <2>1 DEF ReadSoFar
  <2>3. r.user.has[s] \in BOOLEAN
    BY <2>1, <2>2 DEF Reads, UserOK
  <2>4. CASE r.user.has[s]
    <3>1. PICK i \in 1..n : Line(auto, i, s) /\ Gives(r.user, s, auto[i].val)
      BY <2>2, <2>4 DEF Told
    <3> DEFINE line == auto[i]
    <3>2. line \in LinesOf(auto, s)
      BY <1>2, <3>1 DEF LinesOf, Line, Range
    <3>3. /\ line = [sym |-> s, val |-> line.val]
          /\ IF Logical(s) THEN line.val = "y" ELSE IsNumber(line.val)
      BY <1>7, <3>2
    <3>4. LinesOf(auto, s) = {line}
      <4>1. \A x \in LinesOf(auto, s) : x = line
        BY <3>2 DEF LinesOf, AutoLines
      <4> QED
        BY <3>2, <4>1
    <3>5. c[s].write /\ ~differs(s)
      BY <1>6, <1>9, <2>4 DEF touch
    <3> DEFINE out == print_symbol(s, c)
    <3>6. /\ out = [sym |-> s, val |-> out.val]
          /\ Logical(s) => out.val = IF c[s].tri \in {0, 1} THEN "unset" ELSE "y"
          /\ ~Logical(s) => out.val = c[s].val /\ IsNumber(out.val)
      BY <1>1, <2>1, <3>5, PrintIs
    <3> HIDE DEF out
    <3>7. out.val = line.val
      <4>1. CASE Logical(s)
        <5>1. line.val = "y" /\ r.user.tri[s] = 2
          BY <3>1, <3>3, <4>1 DEF Gives, TriOf
        <5>2. c[s].tri = 2
          BY <3>5, <4>1, <5>1 DEF differs
        <5> QED
          BY <3>6, <4>1, <5>1, <5>2
      <4>2. CASE ~Logical(s)
        <5>1. sym_get_string_value(s, c) = c[s].val
          BY <2>1, <4>2, Kinds DEF sym_get_string_value, Logical
        <5>2. r.user.val[s] = line.val
          BY <3>1, <4>2 DEF Gives
        <5> QED
          BY <3>5, <3>6, <4>2, <5>1, <5>2 DEF differs
      <4> QED
        BY <4>1, <4>2
    <3>8. out = line /\ out.val # "unset"
      <4>1. out = line
        BY <3>3, <3>6, <3>7
      <4>2. line.val # "unset"
        BY <3>3 DEF IsNumber
      <4> QED
        BY <4>1, <4>2
    <3> QED
      BY <1>4, <1>9, <3>4, <3>5, <3>8 DEF out, new, nms
  <2>5. CASE ~r.user.has[s]
    <3>1. LinesOf(auto, s) = {}
      BY <1>7, <2>2, <2>5 DEF Told
    <3>2. new = {}
      <4>1. CASE c[s].write
        <5>1. Logical(s) /\ c[s].tri = 0
          BY <1>6, <1>9, <2>5, <4>1 DEF touch
        <5>2. print_symbol(s, c).val = "unset"
          BY <1>1, <2>1, <4>1, <5>1, PrintIs
        <5> QED
          BY <1>4, <5>2
      <4>2. CASE ~c[s].write
        BY <1>4, <4>2
      <4> QED
        BY <4>1, <4>2
    <3> QED
      BY <3>1, <3>2 DEF new, nms
  <2> QED
    BY <2>3, <2>4, <2>5
<1> QED
  BY <1>8, <1>9

-----------------------------------------------------------------------------
(* What the user is taken to have said.                                    *)

LEMMA NothingIsSaid == UserOK(NothingSaid)
<1> DEFINE hh == [s \in DOMAIN Type |-> FALSE]
           tt == [s \in DOMAIN Type |-> 0]
           ww == [s \in DOMAIN Type |-> Empty]
<1>1. NothingSaid = [has |-> hh, tri |-> tt, val |-> ww]
  BY DEF NothingSaid
<1>2. \A s \in DOMAIN Type : ~hh[s]
  OBVIOUS
<1>3. hh \in [DOMAIN Type -> BOOLEAN]
  OBVIOUS
<1>4. tt = [s \in DOMAIN Type |-> tt[s]] /\ ww = [s \in DOMAIN Type |-> ww[s]]
  OBVIOUS
<1> HIDE DEF hh, tt, ww
<1> QED
  BY <1>1, <1>2, <1>3, <1>4 DEF UserOK

(* Less said of some symbols, and of others that are logical more.          *)
LEMMA SaidOtherwise ==
  ASSUME NEW u, UserOK(u), NEW h \in [DOMAIN Type -> BOOLEAN],
         \A s \in DOMAIN Type : ~Logical(s) /\ h[s] => u.has[s]
  PROVE  UserOK([u EXCEPT !.has = h]) /\ [u EXCEPT !.has = h] = [has |-> h, tri |-> u.tri, val |-> u.val]
<1> DEFINE v == [u EXCEPT !.has = h]
<1>1. PICK g, k, w : u = [has |-> g, tri |-> k, val |-> w]
  BY DEF UserOK
<1>2. v = [has |-> h, tri |-> k, val |-> w] /\ u.tri = k /\ u.val = w
  BY <1>1
<1> HIDE DEF v
<1>3. UserOK(v)
  BY <1>2 DEF UserOK
<1> QED
  BY <1>2, <1>3 DEF v

LEMMA ForgottenIsOK ==
  ASSUME NEW u, UserOK(u), NEW ord, NEW tbl, NEW c, NEW unsaved
  PROVE  UserOK(forget_generated(ord, tbl, u, c, unsaved).user)
<1> DEFINE told   == {i \in DOMAIN ord : u.has[ord[i]] /\ tbl[ord[i]].choice = Empty}
           wrong  == {i \in told : /\ ~Logical(ord[i])
                                   /\ ~sym_string_within_range(ord[i], u.val[ord[i]], tbl, c)}
           hidden == {i \in told : /\ c[ord[i]].visible = 0
                                   /\ unsaved = 0 /\ \A j \in wrong : j >= i}
           gone   == {ord[i] : i \in wrong \cup hidden}
           h == [s \in DOMAIN u.has |-> u.has[s] /\ s \notin gone]
           v == forget_generated(ord, tbl, u, c, unsaved)
<1>1. v = [user |-> [u EXCEPT !.has = h], unsaved |-> unsaved + Cardinality(wrong)]
  BY DEF forget_generated
<1> HIDE DEF gone, wrong, v
<1>2. DOMAIN u.has = DOMAIN Type /\ \A s \in DOMAIN Type : u.has[s] \in BOOLEAN
  BY DEF UserOK
<1>3. h \in [DOMAIN Type -> BOOLEAN] /\ \A s \in DOMAIN Type : ~Logical(s) /\ h[s] => u.has[s]
  BY <1>2
<1> HIDE DEF h
<1>4. UserOK([u EXCEPT !.has = h])
  BY <1>3, SaidOtherwise
<1> QED
  BY <1>1, <1>4 DEF v

LEMMA ReadIsOK ==
  ASSUME NEW t, TableOK(t), NEW u, UserOK(u), NEW file, Len(file) \in Nat, NEW named
  PROVE  UserOK(conf_read(t.order, t.db, u, file, named).user)
<1> DEFINE r == conf_read_simple(t.db, file)
           c == Values(t.order, t.db, r.user, 0)
           odd == {s \in Range(t.order) : ~sym_is_choice(s) /\ ~Agrees(s, r.user, c)}
           done == forget_generated(t.order, t.db, r.user, c, Cardinality(odd))
<1>1. UserOK(r.user)
  <2>1. ChoicesOK(t.db)
    BY TableIs
  <2>2. ReadSoFar(t.db, file, r, Len(file))
    BY <2>1, ReadIs
  <2> QED
    BY <2>2 DEF ReadSoFar, Reads
<1>2. conf_read(t.order, t.db, u, file, named) =
        IF file = Missing THEN [ok |-> FALSE, user |-> u, changed |-> ~named]
        ELSE [ok |-> TRUE, user |-> done.user,
              changed |-> r.warnings > 0 \/ r.unknown # {} \/ done.unsaved > 0]
  BY DEF conf_read
<1>3. UserOK(done.user)
  <2> DEFINE ru == r.user
             o == Cardinality(odd)
             ord == t.order
             tbl == t.db
  <2> HIDE DEF ru, c, o, ord, tbl
  <2>1. UserOK(ru)
    BY <1>1 DEF ru
  <2>2. UserOK(forget_generated(ord, tbl, ru, c, o).user)
    BY <2>1, ForgottenIsOK
  <2> QED
    BY <2>2 DEF ru, c, o, ord, tbl
<1> HIDE DEF done
<1> QED
  BY <1>2, <1>3

LEMMA ChoicesMadeIsOK ==
  ASSUME NEW u, UserOK(u), NEW new, NEW tbl, \A s \in new \cap DOMAIN Type : Logical(s)
  PROVE  UserOK(set_all_choice_values(u, new, tbl))
<1> DEFINE h == [s \in DOMAIN u.has |-> u.has[s] \/ s \in new]
           k == [s \in DOMAIN u.tri |-> IF ~u.has[s] /\ \E ch \in new : s \in Range(tbl[ch].values) THEN 0 ELSE u.tri[s]]
           v == [u EXCEPT !.has = h]
           w == [v EXCEPT !.tri = k]
<1>1. set_all_choice_values(u, new, tbl) = w
  BY DEF set_all_choice_values
<1>2. DOMAIN u.has = DOMAIN Type /\ DOMAIN u.tri = DOMAIN Type /\ \A s \in DOMAIN Type : u.has[s] \in BOOLEAN
  BY DEF UserOK
<1>3. h \in [DOMAIN Type -> BOOLEAN] /\ \A s \in DOMAIN Type : ~Logical(s) /\ h[s] => u.has[s]
  BY <1>2
<1>4. k = [s \in DOMAIN Type |-> k[s]]
  BY <1>2
<1> HIDE DEF h, k
<1>5. UserOK(v) /\ v = [has |-> h, tri |-> u.tri, val |-> u.val]
  BY <1>3, SaidOtherwise
<1> HIDE DEF v
<1>6. w = [has |-> h, tri |-> k, val |-> u.val]
  BY <1>5
<1> HIDE DEF w
<1>7. v.val = u.val /\ v.has = h
  BY <1>5
<1>8. UserOK(w)
  BY <1>3, <1>4, <1>5, <1>6, <1>7 DEF UserOK
<1> QED
  BY <1>1, <1>8

(* What counts as said was said.                                             *)
LEMMA SaidIsHad ==
  ASSUME NEW s, NEW tbl, NEW u, NEW c, u.has[s] \in BOOLEAN
  PROVE  sym_has_value(s, tbl, u, c) \in BOOLEAN /\ (sym_has_value(s, tbl, u, c) => u.has[s])
BY DEF sym_has_value

LEMMA DefaultsIsOK ==
  ASSUME NEW t, TableOK(t), NEW u, UserOK(u), NEW c
  PROVE  UserOK(conf_set_all_new_symbols(t.order, t.db, u, c))
<1> DEFINE h == [s \in DOMAIN u.has |-> sym_has_value(s, t.db, u, c)]
           v == [u EXCEPT !.has = h]
           new == {s \in Range(t.order) : sym_is_choice(s) /\ ~v.has[s]}
<1>1. conf_set_all_new_symbols(t.order, t.db, u, c) = set_all_choice_values(v, new, t.db)
  BY DEF conf_set_all_new_symbols
<1>2. \A s \in new \cap DOMAIN Type : Logical(s)
  BY Kinds DEF sym_is_choice
<1> HIDE DEF new
<1>3. DOMAIN u.has = DOMAIN Type /\ \A s \in DOMAIN Type : u.has[s] \in BOOLEAN
  BY DEF UserOK
<1>4. h \in [DOMAIN Type -> BOOLEAN] /\ \A s \in DOMAIN Type : ~Logical(s) /\ h[s] => u.has[s]
  BY <1>3, SaidIsHad
<1> HIDE DEF h
<1>5. UserOK(v)
  BY <1>4, SaidOtherwise
<1> HIDE DEF v
<1>6. UserOK(set_all_choice_values(v, new, t.db))
  BY <1>2, <1>5, ChoicesMadeIsOK
<1> QED
  BY <1>1, <1>6

LEMMA SetLogicalIsOK ==
  ASSUME NEW t, TableOK(t), NEW u, UserOK(u), NEW c, NEW s \in DOMAIN t.db, Logical(s), NEW n
  PROVE  UserOK(sym_set_tristate_value(s, n, t.db, u, c).user)
<1> DEFINE tbl == t.db
           ch == tbl[s].choice
           chose == ch # Empty /\ n = 2
           seen == IF chose THEN {ch} \cup {x \in Range(tbl[ch].values) : c[x].visible # 0} ELSE {}
           h == [x \in DOMAIN u.has |-> sym_has_value(x, tbl, u, c) \/ x = s \/ x \in seen]
           w == IF chose THEN [u.val EXCEPT ![ch] = s] ELSE u.val
           k == [u.tri EXCEPT ![s] = n]
           u1 == [u EXCEPT !.tri[s] = n]
           u2 == [u1 EXCEPT !.has = h]
           u3 == [u2 EXCEPT !.val = w]
<1>1. sym_set_tristate_value(s, n, tbl, u, c).user \in {u, u3}
  BY DEF sym_set_tristate_value
<1>2. /\ ch = Empty \/ ch \in ChoiceSymbols \cap DOMAIN tbl
      /\ \A x \in DOMAIN tbl : tbl[x].values \in Seq({y \in DOMAIN tbl : Logical(y)})
  BY DEF TableOK
<1>3. \A x \in seen : Logical(x)
  <2> HIDE DEF tbl
  <2>1. chose => /\ tbl[ch].values \in Seq({y \in DOMAIN tbl : Logical(y)})
                 /\ Logical(ch)
    BY <1>2, Kinds
  <2>2. chose => \A x \in Range(tbl[ch].values) : Logical(x)
    BY <2>1 DEF Range
  <2> QED
    BY <2>1, <2>2
<1> HIDE DEF seen, chose, ch
<1>4. /\ DOMAIN u.has = DOMAIN Type /\ DOMAIN u.tri = DOMAIN Type /\ DOMAIN u.val = DOMAIN Type
      /\ \A x \in DOMAIN Type : u.has[x] \in BOOLEAN
      /\ \A x \in DOMAIN Type : ~Logical(x) /\ u.has[x] => IsNumber(u.val[x])
  BY DEF UserOK
<1>5. h \in [DOMAIN Type -> BOOLEAN] /\ \A x \in DOMAIN Type : ~Logical(x) /\ h[x] => u.has[x]
  BY <1>3, <1>4, SaidIsHad
<1>6. /\ k = [x \in DOMAIN Type |-> k[x]] /\ w = [x \in DOMAIN Type |-> w[x]]
      /\ \A x \in DOMAIN Type : ~Logical(x) => w[x] = u.val[x]
  <2>1. chose => Logical(ch)
    BY <1>2, Kinds DEF chose
  <2>2. u.val = [x \in DOMAIN Type |-> u.val[x]]
    BY DEF UserOK
  <2>3. k = [x \in DOMAIN Type |-> k[x]]
    BY <1>4
  <2>4. w = [x \in DOMAIN Type |-> w[x]]
    BY <1>4, <2>2
  <2>5. \A x \in DOMAIN Type : ~Logical(x) => w[x] = u.val[x]
    BY <1>4, <2>1
  <2> QED
    BY <2>3, <2>4, <2>5
<1> HIDE DEF h, w
<1>7. PICK g, a, b : u = [has |-> g, tri |-> a, val |-> b]
  BY DEF UserOK
<1>8. u1 = [has |-> g, tri |-> k, val |-> b]
  BY <1>7
<1> HIDE DEF u1, k
<1>9. u2 = [has |-> h, tri |-> k, val |-> b]
  BY <1>8
<1> HIDE DEF u2
<1>10. u3 = [has |-> h, tri |-> k, val |-> w]
  BY <1>9
<1> HIDE DEF u3
<1>11. UserOK(u3)
  BY <1>4, <1>5, <1>6, <1>10 DEF UserOK
<1> QED
  BY <1>1, <1>11

LEMMA SetNumberIsOK ==
  ASSUME NEW tbl, NEW u, UserOK(u), NEW c, NEW s \in DOMAIN Type, NEW str, IsNumber(str)
  PROVE  UserOK(sym_set_string_value(s, str, tbl, u, c).user)
<1> DEFINE h == [x \in DOMAIN u.has |-> sym_has_value(x, tbl, u, c) \/ x = s]
           u1 == [u EXCEPT !.has = h]
           u2 == [u1 EXCEPT !.val[s] = str]
<1>1. sym_set_string_value(s, str, tbl, u, c).user \in {u, u2}
  BY DEF sym_set_string_value
<1>2. /\ DOMAIN u.has = DOMAIN Type /\ DOMAIN u.tri = DOMAIN Type /\ DOMAIN u.val = DOMAIN Type
      /\ \A x \in DOMAIN Type : u.has[x] \in BOOLEAN
      /\ \A x \in DOMAIN Type : ~Logical(x) /\ u.has[x] => IsNumber(u.val[x])
  BY DEF UserOK
<1>3. h \in [DOMAIN Type -> BOOLEAN] /\ \A x \in DOMAIN Type : x # s /\ h[x] => u.has[x]
  BY <1>2, SaidIsHad
<1> HIDE DEF h
<1>4. PICK g, a, b : u = [has |-> g, tri |-> a, val |-> b]
  BY DEF UserOK
<1>5. u1 = [has |-> h, tri |-> a, val |-> b]
  BY <1>4
<1> HIDE DEF u1
<1>6. u2 = [has |-> h, tri |-> a, val |-> [b EXCEPT ![s] = str]] /\ b = u.val /\ a = u.tri
  BY <1>4, <1>5
<1> HIDE DEF u2
<1>7. u.tri = [x \in DOMAIN Type |-> u.tri[x]]
  BY DEF UserOK
<1>8. UserOK(u2)
  BY <1>2, <1>3, <1>6, <1>7 DEF UserOK
<1> QED
  BY <1>1, <1>8

-----------------------------------------------------------------------------
(* The build.                                                              *)

Writing == {"touch", "header", "auto"}

(* The program that runs: it knows the values that follow from what was      *)
(* said; once it writes for make, .config has its values, and what of        *)
(* auto.conf is not as it will be is touched or is still to be touched.      *)
RunInv(r, d, tch, new, t) ==
  /\ r = [program |-> r.program, step |-> r.step, user |-> r.user, curr |-> r.curr, todo |-> r.todo]
  /\ r.step \notin {"none", "read"} => UserOK(r.user) /\ r.curr = Values(t.order, t.db, r.user, 0)
  /\ r.step \in Writing => d.config = config_text(t.names, r.curr)
  /\ r.step = "auto" => d.header = auto_text(t.names, r.curr)
  /\ r.step \in {"header", "auto"} => r.todo = {}
  /\ r.step = "replace" => ~new
  /\ r.step \in Writing /\ d.auto # Missing =>
       \A s : s \notin tch \cup r.todo => LinesOf(d.auto, s) = LinesOf(auto_text(t.names, r.curr), s)

(* The files: auto.conf that is up to date has the lines of .config that are *)
(* set, and the header the same; the reader found of every symbol not        *)
(* touched what auto.conf says of it.                                        *)
FilesInv(d, tch, new, obj) ==
  /\ d = [config |-> d.config, old |-> d.old, auto |-> d.auto, header |-> d.header, defconfig |-> d.defconfig]
  /\ Listing(d.config) /\ Listing(d.defconfig)
  /\ d.auto = Missing \/ AutoLines(d.auto)
  /\ new => AutoLines(d.auto) /\ d.header = d.auto /\ d.auto = SetLines(d.config)
  /\ obj # Missing => d.auto # Missing
  /\ obj # Missing => \A s : s \notin tch => LinesOf(obj, s) = LinesOf(d.auto, s)

BuildInv ==
  /\ kconfig \in Tables
  /\ RunInv(running, disk, touched, fresh, kconfig)
  /\ FilesInv(disk, touched, fresh, noted)

(* A program between its steps on the files.                                *)
LEMMA RunsOn ==
  ASSUME NEW p, NEW st \in {"save?", "leave", "answered", "ask", "backup"}, NEW u, UserOK(u), NEW todo,
         NEW d, NEW tch, NEW new, NEW t
  PROVE  RunInv([program |-> p, step |-> st, user |-> u, curr |-> Values(t.order, t.db, u, 0), todo |-> todo],
                d, tch, new, t)
<1> DEFINE c == Values(t.order, t.db, u, 0)
           r == [program |-> p, step |-> st, user |-> u, curr |-> c, todo |-> todo]
<1> HIDE DEF c
<1>1. r = [program |-> r.program, step |-> r.step, user |-> r.user, curr |-> r.curr, todo |-> r.todo]
  OBVIOUS
<1>2. r.step = st /\ r.user = u /\ r.curr = c
  OBVIOUS
<1> HIDE DEF r
<1>3. RunInv(r, d, tch, new, t)
  BY <1>1, <1>2 DEF RunInv, Writing, c
<1> QED
  BY <1>3 DEF r, c

LEMMA RunsNothing ==
  ASSUME NEW p, NEW st \in {"none", "read"}, NEW d, NEW tch, NEW new, NEW t
  PROVE  RunInv(Unread(p, st), d, tch, new, t)
<1> DEFINE r == Unread(p, st)
           c == NoValues(0)
           u == NothingSaid
<1> HIDE DEF c, u
<1>1. r = [program |-> p, step |-> st, user |-> u, curr |-> c, todo |-> {}]
  BY DEF Unread, c, u
<1> HIDE DEF r
<1>2. r = [program |-> r.program, step |-> r.step, user |-> r.user, curr |-> r.curr, todo |-> r.todo]
  BY <1>1
<1>3. r.step = st
  BY <1>1
<1>4. RunInv(r, d, tch, new, t)
  BY <1>2, <1>3 DEF RunInv, Writing
<1> QED
  BY <1>4 DEF r

(* The files for make are written next: every difference is to be touched.  *)
LEMMA WritesNext ==
  ASSUME NEW t, TableOK(t), NEW r, NEW u, UserOK(u), NEW p, NEW d, NEW tch, NEW new,
         d.auto = Missing \/ AutoLines(d.auto),
         NEW c, c = Values(t.order, t.db, u, 0), d.config = config_text(t.names, c),
         r = [program |-> p, step |-> "touch", user |-> u, curr |-> c,
              todo |-> conf_touch_deps(t.names, t.db, c, d.auto)]
  PROVE  RunInv(r, d, tch, new, t)
<1> DEFINE todo == conf_touch_deps(t.names, t.db, c, d.auto)
<1>1. GoodValues(t.db, c)
  BY ValuesAreGood
<1>2. ASSUME d.auto # Missing, NEW s, s \notin todo
      PROVE  LinesOf(d.auto, s) = LinesOf(auto_text(t.names, c), s)
  <2> DEFINE a == d.auto
  <2>1. AutoLines(a) /\ s \notin conf_touch_deps(t.names, t.db, c, a)
    BY <1>2
  <2> HIDE DEF a
  <2>2. LinesOf(a, s) = LinesOf(auto_text(t.names, c), s)
    BY <1>1, <2>1, UntouchedIsSame
  <2> QED
    BY <2>2 DEF a
<1> HIDE DEF todo
<1>3. r = [program |-> p, step |-> "touch", user |-> u, curr |-> c, todo |-> todo]
  BY DEF todo
<1>4. r = [program |-> r.program, step |-> r.step, user |-> r.user, curr |-> r.curr, todo |-> r.todo]
  BY <1>3
<1>5. r.step = "touch" /\ r.user = u /\ r.curr = c /\ r.todo = todo
  BY <1>3
<1> QED
  BY <1>2, <1>4, <1>5 DEF RunInv, Writing

(* conf_write_autoconf: the program is done, or has the files to touch.     *)
LEMMA AutoconfIs ==
  ASSUME NEW r, NEW auto,
         r = [program |-> r.program, step |-> r.step, user |-> r.user, curr |-> r.curr, todo |-> r.todo]
  PROVE  \/ conf_write_autoconf(r, auto) \in {Unread("none", "none"), Unread("conf", "read")}
         \/ conf_write_autoconf(r, auto) =
              [program |-> r.program, step |-> "touch", user |-> r.user, curr |-> r.curr,
               todo |-> conf_touch_deps(names, db, r.curr, auto)]
<1>1. Finished(r) \in {Unread("none", "none"), Unread("conf", "read")}
  BY DEF Finished, Idle
<1>2. Len(autoconf_steps) = 3 /\ autoconf_steps[1] = "touch"
  BY DEF autoconf_steps
<1> DEFINE todo == conf_touch_deps(names, db, r.curr, auto)
           q == AutoconfAt(r, auto, 1)
<1> HIDE DEF todo
<1>3. q = [r EXCEPT !.step = "touch", !.todo = todo]
  BY <1>2 DEF AutoconfAt, todo
<1> HIDE DEF q
<1>4. PICK p, st, u, c, k : r = [program |-> p, step |-> st, user |-> u, curr |-> c, todo |-> k]
  OBVIOUS
<1>5. q = [program |-> r.program, step |-> "touch", user |-> r.user, curr |-> r.curr, todo |-> todo]
  BY <1>3, <1>4
<1>6. conf_write_autoconf(r, auto) \in {Finished(r), q}
  BY DEF conf_write_autoconf, q
<1> QED
  BY <1>1, <1>5, <1>6 DEF todo

LEMMA NextIs ==
  ASSUME NEW r, NEW auto,
         r = [program |-> r.program, step |-> r.step, user |-> r.user, curr |-> r.curr, todo |-> r.todo]
  PROVE  /\ r.step = "touch" => NextAutoconf(r, auto) =
              [program |-> r.program, step |-> "header", user |-> r.user, curr |-> r.curr, todo |-> {}]
         /\ r.step = "header" => NextAutoconf(r, auto) =
              [program |-> r.program, step |-> "auto", user |-> r.user, curr |-> r.curr, todo |-> {}]
         /\ r.step = "auto" => NextAutoconf(r, auto) \in {Unread("none", "none"), Unread("conf", "read")}
<1>1. /\ Len(autoconf_steps) = 3 /\ DOMAIN autoconf_steps = 1..3
      /\ autoconf_steps[1] = "touch" /\ autoconf_steps[2] = "header" /\ autoconf_steps[3] = "auto"
  BY DEF autoconf_steps
<1>2. PICK p, st, u, c, k : r = [program |-> p, step |-> st, user |-> u, curr |-> c, todo |-> k]
  OBVIOUS
<1> DEFINE at == CHOOSE i \in DOMAIN autoconf_steps : autoconf_steps[i] = r.step
<1>3. NextAutoconf(r, auto) = AutoconfAt(r, auto, 1 + at)
  BY DEF NextAutoconf
<1>4. r.step \in Writing => at \in 1..3 /\ autoconf_steps[at] = r.step
  BY <1>1 DEF Writing
<1> HIDE DEF at
<1>5. CASE r.step = "touch"
  <2>1. at = 1
    BY <1>1, <1>4, <1>5 DEF Writing
  <2>2. NextAutoconf(r, auto) = [r EXCEPT !.step = "header", !.todo = {}]
    <3>1. NextAutoconf(r, auto) = AutoconfAt(r, auto, 2)
      BY <1>3, <2>1
    <3>2. autoconf_steps[2] = "header" /\ ~(2 > Len(autoconf_steps)) /\ "header" # "touch"
      BY <1>1
    <3>3. AutoconfAt(r, auto, 2) =
            [r EXCEPT !.step = "header", !.todo = IF "header" = "touch" THEN conf_touch_deps(names, db, r.curr, auto) ELSE {}]
      BY <3>2, Zenon DEF AutoconfAt
    <3> QED
      BY <3>1, <3>2, <3>3, Zenon
  <2> QED
    BY <1>2, <1>5, <2>2
<1>6. CASE r.step = "header"
  <2>1. at = 2
    BY <1>1, <1>4, <1>6 DEF Writing
  <2>2. NextAutoconf(r, auto) = [r EXCEPT !.step = "auto", !.todo = {}]
    <3>1. NextAutoconf(r, auto) = AutoconfAt(r, auto, 3)
      BY <1>3, <2>1
    <3>2. autoconf_steps[3] = "auto" /\ ~(3 > Len(autoconf_steps)) /\ "auto" # "touch"
      BY <1>1
    <3>3. AutoconfAt(r, auto, 3) =
            [r EXCEPT !.step = "auto", !.todo = IF "auto" = "touch" THEN conf_touch_deps(names, db, r.curr, auto) ELSE {}]
      BY <3>2, Zenon DEF AutoconfAt
    <3> QED
      BY <3>1, <3>2, <3>3, Zenon
  <2> QED
    BY <1>2, <1>6, <2>2
<1>7. CASE r.step = "auto"
  <2>1. at = 3
    BY <1>1, <1>4, <1>7 DEF Writing
  <2>2. NextAutoconf(r, auto) = Finished(r)
    BY <1>1, <1>3, <2>1 DEF AutoconfAt
  <2> QED
    BY <1>7, <2>2 DEF Finished, Idle
<1> QED
  BY <1>5, <1>6, <1>7

LEMMA BuildHolds ==
  ASSUME RunInv(running', disk', touched', fresh', kconfig'), kconfig' \in Tables,
         FilesInv(disk', touched', fresh', noted')
  PROVE  BuildInv'
BY DEF BuildInv

(* Only the program that runs goes on.                                      *)
LEMMA OnlyRuns ==
  ASSUME BuildInv, UNCHANGED <<disk, kconfig, touched, noted, fresh>>,
         RunInv(running', disk, touched, fresh, kconfig)
  PROVE  BuildInv'
<1>1. /\ kconfig \in Tables
      /\ FilesInv(disk, touched, fresh, noted)
  BY DEF BuildInv
<1> QED
  BY <1>1, BuildHolds

LEMMA StepRuns ==
  ASSUME BuildInv, UNCHANGED <<disk, kconfig, touched, noted, fresh>>,
         NEW p, NEW st \in {"save?", "leave", "answered", "ask"}, NEW u, UserOK(u),
         running' = Step(p, st, u)
  PROVE  BuildInv'
<1> DEFINE t == kconfig
           r == [program |-> p, step |-> st, user |-> u, curr |-> Values(t.order, t.db, u, 0), todo |-> {}]
<1>1. running' = r
  BY DEF Step, CurrentValues, order, db
<1> HIDE DEF t
<1>2. RunInv(r, disk, touched, fresh, t)
  BY RunsOn
<1> HIDE DEF r
<1>3. RunInv(running', disk, touched, fresh, t)
  BY <1>1, <1>2
<1> QED
  BY <1>3, OnlyRuns DEF t

LEMMA TableNow ==
  ASSUME BuildInv
  PROVE  /\ TableOK(kconfig)
         /\ names = kconfig.names /\ db = kconfig.db /\ order = kconfig.order
BY BuildAssumption DEF BuildInv, names, db, order

(* What is read of a file that is there.                                    *)
LEMMA ReadRuns ==
  ASSUME BuildInv, NEW file, Len(file) \in Nat, NEW named
  PROVE  UserOK(conf_read(order, db, NothingSaid, file, named).user)
<1> DEFINE t == kconfig
           nobody == NothingSaid
<1>1. TableOK(t) /\ order = t.order /\ db = t.db /\ UserOK(nobody)
  BY TableNow, NothingIsSaid
<1> HIDE DEF t, nobody
<1>2. UserOK(conf_read(t.order, t.db, nobody, file, named).user)
  BY <1>1, ReadIsOK
<1> QED
  BY <1>1, <1>2 DEF nobody

LEMMA FilesAreLists ==
  ASSUME BuildInv
  PROVE  Len(disk.config) \in Nat /\ Len(disk.defconfig) \in Nat
BY ListingIs DEF BuildInv, FilesInv

LEMMA MenuconfigKeeps ==
  ASSUME BuildInv, Menuconfig
  PROVE  BuildInv'
<1> DEFINE r == Read(disk.config)
           u == r.user
           c == CurrentValues(u)
<1>1. PICK set \in Changes(u, c) :
        running' = Step("mconf", IF r.changed \/ set.cleared THEN "save?" ELSE "leave", set.user)
  BY DEF Menuconfig
<1>2. UNCHANGED <<disk, kconfig, touched, noted, fresh>>
  BY DEF Menuconfig
<1>3. UserOK(u)
  BY ReadRuns, FilesAreLists DEF Read
<1>4. TableOK(kconfig) /\ db = kconfig.db /\ order = kconfig.order
  BY TableNow
<1>5. UserOK(set.user)
  <2> HIDE DEF u, c
  <2> DEFINE shown == {s \in Settable \cap Range(order) : c[s].visible # 0}
  <2>1. \A s \in shown : s \in DOMAIN db /\ s \in DOMAIN Type
    BY <1>4, TableIs DEF ChoicesOK
  <2>2. CASE set \in {sym_set_tristate_value(s, n, db, u, c) : s \in {x \in shown : Logical(x)}, n \in {0, 2}}
    <3> HIDE DEF shown
    <3>1. PICK s \in {x \in shown : Logical(x)}, n \in {0, 2} : set = sym_set_tristate_value(s, n, db, u, c)
      BY <2>2
    <3> DEFINE t == kconfig
    <3>2. TableOK(t) /\ db = t.db /\ s \in DOMAIN t.db /\ Logical(s)
      BY <1>4, <2>1, <3>1
    <3> HIDE DEF t
    <3>3. UserOK(sym_set_tristate_value(s, n, t.db, u, c).user)
      BY <1>3, <3>2, SetLogicalIsOK
    <3> QED
      BY <3>1, <3>2, <3>3
  <2>3. CASE set \in {sym_set_string_value(s, str, db, u, c) : s \in {x \in shown : ~Logical(x)}, str \in Texts}
    <3> HIDE DEF shown
    <3>1. PICK s \in {x \in shown : ~Logical(x)}, str \in Texts : set = sym_set_string_value(s, str, db, u, c)
      BY <2>3
    <3>2. s \in DOMAIN Type /\ IsNumber(str)
      BY <2>1, <3>1, BuildAssumption
    <3> DEFINE tbl == db
    <3> HIDE DEF tbl
    <3>3. UserOK(sym_set_string_value(s, str, tbl, u, c).user)
      BY <1>3, <3>2, SetNumberIsOK
    <3> QED
      BY <3>1, <3>3 DEF tbl
  <2>4. CASE set = [ok |-> TRUE, user |-> u, cleared |-> FALSE]
    BY <1>3, <2>4
  <2> QED
    BY <1>1, <2>2, <2>3, <2>4 DEF Changes
<1> DEFINE st == IF r.changed \/ set.cleared THEN "save?" ELSE "leave"
           v == set.user
<1>6. st \in {"save?", "leave", "answered", "ask"} /\ running' = Step("mconf", st, v) /\ UserOK(v)
  BY <1>1, <1>5
<1> HIDE DEF st, v
<1> QED
  BY <1>2, <1>6, StepRuns

(* The file has the values that are known: the files for make are next.     *)
LEMMA AutoconfRuns ==
  ASSUME BuildInv, running.step \notin {"none", "read"}, NEW d, d.config = config_text(names, running.curr),
         d.auto = disk.auto, NEW tch, NEW new
  PROVE  RunInv(conf_write_autoconf(running, d.auto), d, tch, new, kconfig)
<1> DEFINE t == kconfig
           r == running
           u == r.user
           c == r.curr
           p == r.program
           q == conf_write_autoconf(r, d.auto)
           todo == conf_touch_deps(names, db, c, d.auto)
<1>1. /\ r = [program |-> r.program, step |-> r.step, user |-> r.user, curr |-> r.curr, todo |-> r.todo]
      /\ UserOK(u) /\ c = Values(t.order, t.db, u, 0)
      /\ d.auto = Missing \/ AutoLines(d.auto)
  BY DEF BuildInv, RunInv, FilesInv
<1>2. TableOK(t) /\ names = t.names /\ db = t.db
  BY TableNow
<1> HIDE DEF t, r
<1>3. q \in {Unread("none", "none"), Unread("conf", "read")}
      \/ q = [program |-> r.program, step |-> "touch", user |-> r.user, curr |-> r.curr, todo |-> todo]
  <2> DEFINE a == d.auto
  <2> HIDE DEF a
  <2>1. conf_write_autoconf(r, a) \in {Unread("none", "none"), Unread("conf", "read")}
        \/ conf_write_autoconf(r, a) =
             [program |-> r.program, step |-> "touch", user |-> r.user, curr |-> r.curr,
              todo |-> conf_touch_deps(names, db, r.curr, a)]
    BY <1>1, AutoconfIs
  <2> QED
    BY <2>1 DEF a
<1> HIDE DEF q
<1>4. CASE q \in {Unread("none", "none"), Unread("conf", "read")}
  <2>1. RunInv(Unread("none", "none"), d, tch, new, t) /\ RunInv(Unread("conf", "read"), d, tch, new, t)
    BY RunsNothing
  <2>2. RunInv(q, d, tch, new, t)
    BY <1>4, <2>1
  <2> QED
    BY <2>2 DEF q, r, t
<1>5. CASE q = [program |-> r.program, step |-> "touch", user |-> r.user, curr |-> r.curr, todo |-> todo]
  <2>1. q = [program |-> p, step |-> "touch", user |-> u, curr |-> c,
             todo |-> conf_touch_deps(t.names, t.db, c, d.auto)]
    BY <1>2, <1>5
  <2>2. d.config = config_text(t.names, c)
    BY <1>2 DEF r
  <2> HIDE DEF u, c, p
  <2>3. RunInv(q, d, tch, new, t)
    BY <1>1, <1>2, <2>1, <2>2, WritesNext
  <2> QED
    BY <2>3 DEF q, r, t
<1> QED
  BY <1>3, <1>4, <1>5

LEMMA WriteRuns ==
  ASSUME BuildInv, running.step \notin {"none", "read"}, UNCHANGED <<disk, kconfig, touched, noted, fresh>>,
         running' = conf_write(running)
  PROVE  BuildInv'
<1> DEFINE t == kconfig
           r == running
           u == r.user
           c == r.curr
           p == r.program
           k == r.todo
<1>1. CASE disk.config = config_text(names, running.curr)
  <2>1. running' = conf_write_autoconf(running, disk.auto)
    BY <1>1 DEF conf_write
  <2>2. RunInv(conf_write_autoconf(running, disk.auto), disk, touched, fresh, kconfig)
    BY <1>1, AutoconfRuns
  <2> QED
    BY <2>1, <2>2, OnlyRuns
<1>2. CASE disk.config # config_text(names, running.curr)
  <2>1. running' = [running EXCEPT !.step = "backup"]
    BY <1>2 DEF conf_write
  <2>2. /\ r = [program |-> r.program, step |-> r.step, user |-> r.user, curr |-> r.curr, todo |-> r.todo]
        /\ UserOK(u) /\ c = Values(t.order, t.db, u, 0)
    BY DEF BuildInv, RunInv
  <2>3. running' = [program |-> p, step |-> "backup", user |-> u, curr |-> c, todo |-> k]
    BY <2>1, <2>2
  <2> HIDE DEF t, u, c, p, k
  <2>4. running' = [program |-> p, step |-> "backup", user |-> u, curr |-> Values(t.order, t.db, u, 0), todo |-> k]
    BY <2>2, <2>3
  <2>5. RunInv(running', disk, touched, fresh, t)
    <3>1. RunInv([program |-> p, step |-> "backup", user |-> u, curr |-> Values(t.order, t.db, u, 0), todo |-> k],
                 disk, touched, fresh, t)
      BY <2>2, RunsOn
    <3> QED
      BY <2>4, <3>1
  <2> QED
    BY <2>5, OnlyRuns DEF t
<1> QED
  BY <1>1, <1>2

LEMMA NothingRuns ==
  ASSUME BuildInv, UNCHANGED <<disk, kconfig, touched, noted, fresh>>,
         running' \in {Unread("none", "none"), Unread("conf", "read")}
  PROVE  BuildInv'
<1> DEFINE t == kconfig
<1> HIDE DEF t
<1>1. /\ RunInv(Unread("none", "none"), disk, touched, fresh, t)
      /\ RunInv(Unread("conf", "read"), disk, touched, fresh, t)
  BY RunsNothing
<1>2. RunInv(running', disk, touched, fresh, t)
  BY <1>1
<1> QED
  BY <1>2, OnlyRuns DEF t

LEMMA ProgramsKeep ==
  ASSUME BuildInv, LeaveMenus \/ Defconfig \/ ReadConfig \/ Answered \/ Crash
  PROVE  BuildInv'
<1>1. CASE LeaveMenus
  <2>1. running.step \notin {"none", "read"} /\ UNCHANGED <<disk, kconfig, touched, noted, fresh>>
    BY <1>1 DEF LeaveMenus
  <2>2. running' = conf_write(running) \/ running' = Finished(running)
    BY <1>1 DEF LeaveMenus
  <2>3. Finished(running) \in {Unread("none", "none"), Unread("conf", "read")}
    BY DEF Finished, Idle
  <2> QED
    BY <2>1, <2>2, <2>3, WriteRuns, NothingRuns
<1>2. CASE Defconfig
  <2> DEFINE file == disk.defconfig
             r == conf_read(order, db, NothingSaid, file, TRUE)
             u == r.user
             c == CurrentValues(u)
             u0 == NothingSaid
             c0 == NoValues(0)
             v == from_defconfig(file)
  <2>1. running' = Step("defconfig", "answered", v) /\ UNCHANGED <<disk, kconfig, touched, noted, fresh>>
    BY <1>2 DEF Defconfig
  <2>2. UserOK(u) /\ UserOK(u0)
    BY ReadRuns, FilesAreLists, NothingIsSaid
  <2>3. v \in {conf_set_all_new_symbols(order, db, u0, c0), conf_set_all_new_symbols(order, db, u, c)}
    BY DEF from_defconfig
  <2> HIDE DEF r, u, c, u0, c0, v
  <2>4. UserOK(v)
    <3> DEFINE t == kconfig
    <3>1. TableOK(t) /\ order = t.order /\ db = t.db
      BY TableNow
    <3> HIDE DEF t
    <3>2. UserOK(conf_set_all_new_symbols(t.order, t.db, u0, c0))
      BY <2>2, <3>1, DefaultsIsOK
    <3>3. UserOK(conf_set_all_new_symbols(t.order, t.db, u, c))
      BY <2>2, <3>1, DefaultsIsOK
    <3> QED
      BY <2>3, <3>1, <3>2, <3>3
  <2> HIDE DEF v
  <2> QED
    BY <2>1, <2>4, StepRuns
<1>3. CASE ReadConfig
  <2> DEFINE v == Read(disk.config).user
  <2>1. running' = Step("conf", "ask", v) /\ UNCHANGED <<disk, kconfig, touched, noted, fresh>>
    BY <1>3 DEF ReadConfig
  <2>2. UserOK(v)
    BY ReadRuns, FilesAreLists DEF Read
  <2> HIDE DEF v
  <2> QED
    BY <2>1, <2>2, StepRuns
<1>4. CASE Answered
  <2>1. /\ running.step \notin {"none", "read"} /\ UNCHANGED <<disk, kconfig, touched, noted, fresh>>
        /\ running' = conf_write(running)
    BY <1>4 DEF Answered
  <2> QED
    BY <2>1, WriteRuns
<1>5. CASE Crash
  <2>1. running' \in {Unread("none", "none")} /\ UNCHANGED <<disk, kconfig, touched, noted, fresh>>
    BY <1>5 DEF Crash, Idle
  <2> QED
    BY <2>1, NothingRuns
<1> QED
  BY <1>1, <1>2, <1>3, <1>4, <1>5

(* An answer: one of a value of the symbol asked for, of a value of the      *)
(* choice, or a number the user types or leaves as it is.                    *)
LEMMA AskKeeps ==
  ASSUME BuildInv, Ask
  PROVE  BuildInv'
<1> DEFINE u == running.user
           c == running.curr
           t == kconfig
<1>1. PICK s \in Questions(u, c) : \E r \in AnswersTo(s, u, c) : running' = Step("conf", "ask", r.user)
  BY DEF Ask
<1>2. PICK r \in AnswersTo(s, u, c) : running' = Step("conf", "ask", r.user)
  BY <1>1
<1>3. running.step = "ask" /\ UNCHANGED <<disk, kconfig, touched, noted, fresh>>
  BY DEF Ask
<1>4. UserOK(u) /\ c = Values(t.order, t.db, u, 0)
  BY <1>3 DEF BuildInv, RunInv
<1>5. TableOK(t) /\ db = t.db /\ order = t.order
  BY TableNow
<1> HIDE DEF u, c, t
<1>6. s \in Range(order) /\ c[s].visible # 0
  BY <1>1 DEF Questions
<1>7. /\ s \in DOMAIN t.db /\ s \in DOMAIN Type
      /\ \A x \in DOMAIN t.db : t.db[x].values \in Seq({y \in DOMAIN t.db : Logical(y)})
  BY <1>5, <1>6, TableIs DEF ChoicesOK, TableOK
<1>8. GoodValues(t.db, c)
  BY <1>4, <1>5, ValuesAreGood
<1>9. UserOK(r.user)
  <2>1. CASE sym_is_choice(s)
    <3>1. r \in {sym_set_tristate_value(x, 2, db, u, c) : x \in {y \in Range(db[s].values) : c[y].visible # 0}}
      BY <1>2, <2>1 DEF AnswersTo
    <3>2. PICK x \in Range(db[s].values) : r = sym_set_tristate_value(x, 2, db, u, c)
      BY <3>1
    <3>3. x \in DOMAIN t.db /\ Logical(x)
      <4> DEFINE vs == t.db[s].values
                 D == {y \in DOMAIN t.db : Logical(y)}
      <4>1. vs \in Seq(D) /\ x \in Range(vs)
        BY <1>5, <1>7, <3>2
      <4>2. \A y \in D : y \in DOMAIN t.db /\ Logical(y)
        OBVIOUS
      <4> HIDE DEF vs, D
      <4>3. x \in D
        BY <4>1 DEF Range
      <4> QED
        BY <4>2, <4>3
    <3>4. UserOK(sym_set_tristate_value(x, 2, t.db, u, c).user)
      BY <1>4, <1>5, <3>3, SetLogicalIsOK
    <3> QED
      BY <1>5, <3>2, <3>4
  <2>2. CASE ~sym_is_choice(s) /\ Logical(s)
    <3>1. r \in {sym_set_tristate_value(s, n, db, u, c) : n \in {0, 2}}
      BY <1>2, <2>2 DEF AnswersTo
    <3>2. PICK n \in {0, 2} : r = sym_set_tristate_value(s, n, db, u, c)
      BY <3>1
    <3>3. UserOK(sym_set_tristate_value(s, n, t.db, u, c).user)
      BY <1>4, <1>5, <1>7, <2>2, SetLogicalIsOK
    <3> QED
      BY <1>5, <3>2, <3>3
  <2>3. CASE ~sym_is_choice(s) /\ ~Logical(s)
    <3>1. r \in {sym_set_string_value(s, str, db, u, c) : str \in Texts \cup {c[s].val}}
      BY <1>2, <2>3 DEF AnswersTo
    <3>2. PICK str \in Texts \cup {c[s].val} : r = sym_set_string_value(s, str, db, u, c)
      BY <3>1
    <3>3. IsNumber(c[s].val)
      BY <1>6, <1>7, <1>8, <2>3 DEF GoodValues, NumberKept
    <3>4. IsNumber(str)
      BY <3>2, <3>3, BuildAssumption
    <3> DEFINE tbl == db
    <3> HIDE DEF tbl
    <3>5. UserOK(sym_set_string_value(s, str, tbl, u, c).user)
      BY <1>4, <1>7, <3>4, SetNumberIsOK
    <3> QED
      BY <3>2, <3>5 DEF tbl
  <2> QED
    BY <2>1, <2>2, <2>3
<1> DEFINE v == r.user
<1>10. running' = Step("conf", "ask", v) /\ UserOK(v)
  BY <1>2, <1>9
<1> HIDE DEF v
<1> QED
  BY <1>3, <1>10, StepRuns

LEMMA BackupKeeps ==
  ASSUME BuildInv, Backup
  PROVE  BuildInv'
<1> DEFINE t == kconfig
           u == running.user
           c == running.curr
           p == running.program
           k == running.todo
           d == disk'
<1>1. /\ running.step = "backup" /\ d = backup(disk) /\ running' = [running EXCEPT !.step = "replace"]
      /\ fresh' = FALSE /\ UNCHANGED <<kconfig, touched, noted>>
  BY DEF Backup
<1>2. /\ kconfig \in Tables
      /\ running = [program |-> running.program, step |-> running.step, user |-> running.user,
                    curr |-> running.curr, todo |-> running.todo]
      /\ UserOK(u) /\ c = Values(t.order, t.db, u, 0)
  BY <1>1 DEF BuildInv, RunInv
<1>3. running' = [program |-> p, step |-> "replace", user |-> u, curr |-> c, todo |-> k]
  BY <1>1, <1>2
<1>4. FilesInv(disk, touched, fresh, noted)
  BY DEF BuildInv
<1>5. FilesInv(d, touched, FALSE, noted)
  <2>1. CASE disk.config = Missing
    <3>1. d = disk
      BY <1>1, <2>1 DEF backup
    <3> HIDE DEF d
    <3> QED
      BY <1>4, <3>1 DEF FilesInv
  <2>2. CASE disk.config # Missing
    <3>1. d = [disk EXCEPT !.old = disk.config, !.config = Missing]
      BY <1>1, <2>2 DEF backup
    <3> HIDE DEF d
    <3>2. disk = [config |-> disk.config, old |-> disk.old, auto |-> disk.auto,
                  header |-> disk.header, defconfig |-> disk.defconfig]
      BY <1>4 DEF FilesInv
    <3>3. d = [config |-> Missing, old |-> disk.config, auto |-> disk.auto,
               header |-> disk.header, defconfig |-> disk.defconfig]
      BY <3>1, <3>2
    <3>4. Listing(Missing)
      BY MissingIsListing
    <3> QED
      BY <1>4, <3>3, <3>4 DEF FilesInv
  <2> QED
    BY <2>1, <2>2
<1>6. RunInv(running', d, touched, FALSE, t)
  <2> DEFINE r == running'
  <2> HIDE DEF d, r, t, u, c, k, p
  <2>1. r = [program |-> p, step |-> "replace", user |-> u, curr |-> c, todo |-> k]
    BY <1>3 DEF r
  <2>2. r = [program |-> r.program, step |-> r.step, user |-> r.user, curr |-> r.curr, todo |-> r.todo]
    BY <2>1
  <2>3. r.step = "replace" /\ r.user = u /\ r.curr = c
    BY <2>1
  <2>4. RunInv(r, d, touched, FALSE, t)
    BY <1>2, <2>2, <2>3 DEF RunInv, Writing
  <2> QED
    BY <2>4 DEF r
<1> QED
  BY <1>1, <1>2, <1>5, <1>6, BuildHolds

LEMMA ReplaceKeeps ==
  ASSUME BuildInv, Replace
  PROVE  BuildInv'
<1> DEFINE new == config_text(names, running.curr)
           d == disk'
<1>1. /\ running.step = "replace" /\ d = [disk EXCEPT !.config = new]
      /\ running' = conf_write_autoconf(running, disk.auto)
      /\ UNCHANGED <<kconfig, touched, noted, fresh>>
  BY DEF Replace
<1>2. /\ kconfig \in Tables /\ ~fresh
      /\ FilesInv(disk, touched, fresh, noted)
  BY <1>1 DEF BuildInv, RunInv
<1>3. Listing(new)
  BY TableNow, TableIs, ConfigText
<1> HIDE DEF new
<1>4. disk = [config |-> disk.config, old |-> disk.old, auto |-> disk.auto,
              header |-> disk.header, defconfig |-> disk.defconfig]
  BY <1>2 DEF FilesInv
<1>5. d = [config |-> new, old |-> disk.old, auto |-> disk.auto, header |-> disk.header, defconfig |-> disk.defconfig]
  BY <1>1, <1>4
<1> HIDE DEF d
<1>6. FilesInv(d, touched, fresh, noted)
  BY <1>2, <1>3, <1>5 DEF FilesInv
<1>7. d.config = config_text(names, running.curr) /\ d.auto = disk.auto
  BY <1>5 DEF new
<1>8. RunInv(conf_write_autoconf(running, d.auto), d, touched, fresh, kconfig)
  <2>1. running.step \notin {"none", "read"}
    BY <1>1
  <2> QED
    BY <1>7, <2>1, AutoconfRuns
<1>9. RunInv(running', d, touched, fresh, kconfig)
  BY <1>1, <1>7, <1>8
<1> QED
  BY <1>1, <1>2, <1>6, <1>9, BuildHolds DEF d

(* A dependency file is written, and that is one less to write.             *)
LEMMA TouchKeeps ==
  ASSUME BuildInv, Touch
  PROVE  BuildInv'
<1> DEFINE t == kconfig
           todo == running.todo
           r == running'
           tch == touched'
<1>1. PICK s \in todo : tch = touched \cup {s} /\ r = [running EXCEPT !.todo = @ \ {s}]
  BY DEF Touch
<1>2. running.step = "touch" /\ UNCHANGED <<disk, kconfig, noted, fresh>>
  BY DEF Touch
<1>3. /\ kconfig \in Tables /\ RunInv(running, disk, touched, fresh, t)
      /\ FilesInv(disk, touched, fresh, noted)
  BY DEF BuildInv
<1>4. running = [program |-> running.program, step |-> running.step, user |-> running.user,
                 curr |-> running.curr, todo |-> running.todo]
  BY <1>3 DEF RunInv
<1>5. r = [program |-> running.program, step |-> "touch", user |-> running.user,
           curr |-> running.curr, todo |-> todo \ {s}]
  BY <1>1, <1>2, <1>4
<1> HIDE DEF t, r, tch
<1>6. RunInv(r, disk, tch, fresh, t)
  <2>1. r = [program |-> r.program, step |-> r.step, user |-> r.user, curr |-> r.curr, todo |-> r.todo]
    BY <1>5
  <2>2. r.step = "touch" /\ r.user = running.user /\ r.curr = running.curr /\ r.todo = todo \ {s}
    BY <1>5
  <2>3. tch \cup r.todo = touched \cup todo
    BY <1>1, <2>2
  <2>4. /\ UserOK(r.user) /\ r.curr = Values(t.order, t.db, r.user, 0)
        /\ disk.config = config_text(t.names, r.curr)
    BY <1>2, <1>3, <2>2 DEF RunInv, Writing
  <2>5. disk.auto # Missing => \A x : x \notin touched \cup todo =>
          LinesOf(disk.auto, x) = LinesOf(auto_text(t.names, r.curr), x)
    BY <1>2, <1>3, <2>2 DEF RunInv, Writing
  <2>6. r.step \notin {"auto", "header", "replace"}
    BY <2>2
  <2> QED
    BY <2>1, <2>3, <2>4, <2>5, <2>6 DEF RunInv
<1>7. FilesInv(disk, tch, fresh, noted)
  BY <1>1, <1>3 DEF FilesInv
<1> QED
  BY <1>2, <1>3, <1>6, <1>7, BuildHolds DEF t, r, tch

(* All is touched, and the header is next.                                  *)
LEMMA TouchedKeeps ==
  ASSUME BuildInv, Touched
  PROVE  BuildInv'
<1> DEFINE t == kconfig
           r == running'
           q == running
<1>1. /\ q.step = "touch" /\ q.todo = {} /\ r = NextAutoconf(q, disk.auto)
      /\ UNCHANGED <<disk, kconfig, touched, noted, fresh>>
  BY DEF Touched
<1>2. RunInv(q, disk, touched, fresh, t)
  BY DEF BuildInv
<1> HIDE DEF t, r, q
<1>3. q = [program |-> q.program, step |-> q.step, user |-> q.user, curr |-> q.curr, todo |-> q.todo]
  BY <1>2 DEF RunInv
<1>4. r = [program |-> q.program, step |-> "header", user |-> q.user, curr |-> q.curr, todo |-> {}]
  <2> DEFINE a == disk.auto
  <2> HIDE DEF a
  <2>1. NextAutoconf(q, a) = [program |-> q.program, step |-> "header", user |-> q.user, curr |-> q.curr, todo |-> {}]
    BY <1>1, <1>3, NextIs
  <2> QED
    BY <1>1, <2>1 DEF a
<1>5. RunInv(r, disk, touched, fresh, t)
  <2>1. r = [program |-> r.program, step |-> r.step, user |-> r.user, curr |-> r.curr, todo |-> r.todo]
    BY <1>4
  <2>2. r.step = "header" /\ r.user = q.user /\ r.curr = q.curr /\ r.todo = {}
    BY <1>4
  <2>3. /\ UserOK(r.user) /\ r.curr = Values(t.order, t.db, r.user, 0)
        /\ disk.config = config_text(t.names, r.curr)
    BY <1>1, <1>2, <2>2 DEF RunInv, Writing
  <2>4. disk.auto # Missing => \A x : x \notin touched \cup {} =>
          LinesOf(disk.auto, x) = LinesOf(auto_text(t.names, r.curr), x)
    BY <1>1, <1>2, <2>2 DEF RunInv, Writing
  <2> QED
    BY <2>1, <2>2, <2>3, <2>4 DEF RunInv
<1> QED
  BY <1>1, <1>5, OnlyRuns DEF t, r

(* The header is what .config says, as auto.conf will be.                   *)
LEMMA HeaderKeeps ==
  ASSUME BuildInv, WriteHeader
  PROVE  BuildInv'
<1> DEFINE t == kconfig
           r == running'
           q == running
           c == running.curr
           text1 == auto_text(names, c)
           d == disk'
<1>1. /\ q.step = "header" /\ d = [disk EXCEPT !.header = text1] /\ r = NextAutoconf(q, d.auto)
      /\ UNCHANGED <<kconfig, touched, noted, fresh>>
  BY DEF WriteHeader
<1>2. /\ kconfig \in Tables /\ RunInv(q, disk, touched, fresh, t)
      /\ FilesInv(disk, touched, fresh, noted)
  BY DEF BuildInv
<1>3. TableOK(t) /\ names = t.names
  BY TableNow
<1>4. text1 = SetLines(config_text(names, c))
  BY <1>3, TableIs, AutoText
<1> HIDE DEF t, r, q, text1, d
<1>5. disk = [config |-> disk.config, old |-> disk.old, auto |-> disk.auto,
              header |-> disk.header, defconfig |-> disk.defconfig]
  BY <1>2 DEF FilesInv
<1>6. d = [config |-> disk.config, old |-> disk.old, auto |-> disk.auto,
           header |-> text1, defconfig |-> disk.defconfig]
  BY <1>1, <1>5
<1>7. disk.config = config_text(names, c)
  BY <1>1, <1>2, <1>3 DEF RunInv, Writing, q
<1>8. FilesInv(d, touched, fresh, noted)
  BY <1>2, <1>4, <1>6, <1>7 DEF FilesInv
<1>9. q = [program |-> q.program, step |-> q.step, user |-> q.user, curr |-> q.curr, todo |-> q.todo]
  BY <1>2 DEF RunInv
<1>10. r = [program |-> q.program, step |-> "auto", user |-> q.user, curr |-> q.curr, todo |-> {}]
  <2> DEFINE a == d.auto
  <2> HIDE DEF a
  <2>1. NextAutoconf(q, a) = [program |-> q.program, step |-> "auto", user |-> q.user, curr |-> q.curr, todo |-> {}]
    BY <1>1, <1>9, NextIs
  <2> QED
    BY <1>1, <2>1 DEF a
<1>11. RunInv(r, d, touched, fresh, t)
  <2>1. r = [program |-> r.program, step |-> r.step, user |-> r.user, curr |-> r.curr, todo |-> r.todo]
    BY <1>10
  <2>2. r.step = "auto" /\ r.user = q.user /\ r.curr = q.curr /\ r.todo = {} /\ q.todo = {}
    BY <1>1, <1>2, <1>10 DEF RunInv
  <2>3. UserOK(r.user) /\ r.curr = Values(t.order, t.db, r.user, 0)
    BY <1>1, <1>2, <2>2 DEF RunInv
  <2>4. d.config = config_text(t.names, r.curr)
    BY <1>1, <1>2, <1>6, <2>2 DEF RunInv, Writing
  <2>5. d.header = auto_text(t.names, r.curr)
    BY <1>3, <1>6, <2>2 DEF text1, q
  <2>6. d.auto # Missing => \A x : x \notin touched \cup {} =>
          LinesOf(d.auto, x) = LinesOf(auto_text(t.names, r.curr), x)
    BY <1>1, <1>2, <1>6, <2>2 DEF RunInv, Writing
  <2> QED
    BY <2>1, <2>2, <2>3, <2>4, <2>5, <2>6 DEF RunInv
<1> QED
  BY <1>1, <1>2, <1>8, <1>11, BuildHolds DEF t, r, d

(* auto.conf comes last: all that is not touched it says as it did.         *)
LEMMA AutoKeeps ==
  ASSUME BuildInv, WriteAuto
  PROVE  BuildInv'
<1> DEFINE t == kconfig
           r == running'
           q == running
           c == running.curr
           text1 == auto_text(names, c)
           d == disk'
<1>1. /\ q.step = "auto" /\ d = [disk EXCEPT !.auto = text1] /\ r = NextAutoconf(q, d.auto)
      /\ fresh' = TRUE /\ UNCHANGED <<kconfig, touched, noted>>
  BY DEF WriteAuto
<1>2. /\ kconfig \in Tables /\ RunInv(q, disk, touched, fresh, t)
      /\ FilesInv(disk, touched, fresh, noted)
  BY DEF BuildInv
<1>3. TableOK(t) /\ names = t.names
  BY TableNow
<1>4. text1 = SetLines(config_text(names, c))
  BY <1>3, TableIs, AutoText
<1>5. AutoLines(text1) /\ text1 # Missing
  <2>1. UserOK(q.user) /\ c = Values(t.order, t.db, q.user, 0)
    BY <1>1, <1>2 DEF RunInv
  <2> HIDE DEF t, c
  <2>2. GoodValues(t.db, c)
    BY <1>3, <2>1, ValuesAreGood
  <2> QED
    BY <1>3, <2>2, AutoIsAuto, AutoIsThere
<1> HIDE DEF t, r, q, text1, d
<1>6. disk = [config |-> disk.config, old |-> disk.old, auto |-> disk.auto,
              header |-> disk.header, defconfig |-> disk.defconfig]
  BY <1>2 DEF FilesInv
<1>7. d = [config |-> disk.config, old |-> disk.old, auto |-> text1,
           header |-> disk.header, defconfig |-> disk.defconfig]
  BY <1>1, <1>6
<1>8. disk.config = config_text(names, c) /\ disk.header = text1
  BY <1>1, <1>2, <1>3 DEF RunInv, Writing, q, text1
<1>9. noted # Missing => \A x : x \notin touched => LinesOf(noted, x) = LinesOf(text1, x)
  <2>1. noted # Missing => disk.auto # Missing /\ \A x : x \notin touched => LinesOf(noted, x) = LinesOf(disk.auto, x)
    BY <1>2 DEF FilesInv
  <2>2. disk.auto # Missing => \A x : x \notin touched => LinesOf(disk.auto, x) = LinesOf(text1, x)
    BY <1>1, <1>2, <1>3 DEF RunInv, Writing, text1, q
  <2> QED
    BY <2>1, <2>2
<1>10. FilesInv(d, touched, TRUE, noted)
  BY <1>2, <1>4, <1>5, <1>7, <1>8, <1>9 DEF FilesInv
<1>11. r \in {Unread("none", "none"), Unread("conf", "read")}
  <2>1. q = [program |-> q.program, step |-> q.step, user |-> q.user, curr |-> q.curr, todo |-> q.todo]
    BY <1>2 DEF RunInv
  <2> DEFINE a == d.auto
  <2> HIDE DEF a
  <2>2. NextAutoconf(q, a) \in {Unread("none", "none"), Unread("conf", "read")}
    BY <1>1, <2>1, NextIs
  <2> QED
    BY <1>1, <2>2 DEF a
<1>12. RunInv(r, d, touched, TRUE, t)
  <2>1. RunInv(Unread("none", "none"), d, touched, TRUE, t) /\ RunInv(Unread("conf", "read"), d, touched, TRUE, t)
    BY RunsNothing
  <2> QED
    BY <1>11, <2>1
<1> QED
  BY <1>1, <1>2, <1>10, <1>12, BuildHolds DEF t, r, d

LEMMA SavedefconfigKeeps ==
  ASSUME BuildInv, Savedefconfig
  PROVE  BuildInv'
<1> DEFINE new == conf_write_defconfig(names, db, CurrentValues(Read(disk.config).user))
           d == disk'
           t == kconfig
<1>1. d = [disk EXCEPT !.defconfig = new] /\ UNCHANGED <<kconfig, running, touched, noted, fresh>>
  BY DEF Savedefconfig
<1>2. /\ kconfig \in Tables /\ RunInv(running, disk, touched, fresh, t)
      /\ FilesInv(disk, touched, fresh, noted)
  BY DEF BuildInv
<1>3. Listing(new)
  BY TableNow, TableIs, DefconfigText
<1> HIDE DEF new, d, t
<1>4. disk = [config |-> disk.config, old |-> disk.old, auto |-> disk.auto,
              header |-> disk.header, defconfig |-> disk.defconfig]
  BY <1>2 DEF FilesInv
<1>5. d = [config |-> disk.config, old |-> disk.old, auto |-> disk.auto,
           header |-> disk.header, defconfig |-> new]
  BY <1>1, <1>4
<1>6. FilesInv(d, touched, fresh, noted)
  BY <1>2, <1>3, <1>5 DEF FilesInv
<1>7. d.config = disk.config /\ d.auto = disk.auto /\ d.header = disk.header
  BY <1>5
<1>8. RunInv(running, d, touched, fresh, t)
  BY <1>2, <1>7 DEF RunInv
<1> QED
  BY <1>1, <1>2, <1>6, <1>8, BuildHolds DEF d, t

LEMMA CheckoutKeeps ==
  ASSUME BuildInv, Checkout
  PROVE  BuildInv'
<1>1. /\ kconfig' \in Tables /\ fresh' = FALSE /\ running' = Unread("none", "none")
      /\ UNCHANGED <<disk, touched, noted>>
  BY DEF Checkout, Idle
<1>2. FilesInv(disk, touched, FALSE, noted)
  BY DEF BuildInv, FilesInv
<1> DEFINE t == kconfig'
<1> HIDE DEF t
<1>3. RunInv(Unread("none", "none"), disk, touched, FALSE, t)
  BY RunsNothing
<1> QED
  BY <1>1, <1>2, <1>3, BuildHolds DEF t

(* The reader finds auto.conf, and nothing is touched since.                *)
LEMMA LookKeeps ==
  ASSUME BuildInv, Look
  PROVE  BuildInv'
<1> DEFINE t == kconfig
           auto == disk.auto
<1>1. /\ auto # Missing /\ noted' = auto /\ touched' = {} /\ running = Unread("none", "none")
      /\ UNCHANGED <<disk, kconfig, running, fresh>>
  BY DEF Look, Idle
<1>2. kconfig \in Tables /\ FilesInv(disk, touched, fresh, noted)
  BY DEF BuildInv
<1> HIDE DEF t
<1>3. FilesInv(disk, {}, fresh, auto)
  BY <1>1, <1>2 DEF FilesInv
<1> HIDE DEF auto
<1>4. RunInv(Unread("none", "none"), disk, {}, fresh, t)
  BY RunsNothing
<1> QED
  BY <1>1, <1>2, <1>3, <1>4, BuildHolds DEF t

LEMMA BuildKeeps ==
  ASSUME BuildInv, [BuildNext]_build_vars
  PROVE  BuildInv'
<1>1. CASE UNCHANGED build_vars
  BY <1>1, BuildHolds DEF build_vars, BuildInv
<1> QED
  BY <1>1, MenuconfigKeeps, ProgramsKeep, SavedefconfigKeeps, AskKeeps, BackupKeeps, ReplaceKeeps, TouchKeeps,
     TouchedKeeps, HeaderKeeps, AutoKeeps, CheckoutKeeps, LookKeeps DEF BuildNext

(* The invariant, and what follows from it of the marks.                     *)
LEMMA BuildStarts ==
  ASSUME BuildInit
  PROVE  BuildInv
<1> DEFINE d == disk
           t == kconfig
<1>1. /\ d = [config |-> Missing, old |-> Missing, auto |-> Missing, header |-> Missing, defconfig |-> Missing]
      /\ kconfig \in Tables /\ running = Unread("none", "none") /\ noted = Missing /\ fresh = FALSE
  BY DEF BuildInit, Idle
<1> HIDE DEF d, t
<1>2. FilesInv(d, touched, FALSE, noted)
  <2>1. d = [config |-> d.config, old |-> d.old, auto |-> d.auto, header |-> d.header, defconfig |-> d.defconfig]
    BY <1>1
  <2>2. d.config = Missing /\ d.auto = Missing /\ d.defconfig = Missing
    BY <1>1
  <2> QED
    BY <1>1, <2>1, <2>2, MissingIsListing DEF FilesInv
<1>3. RunInv(Unread("none", "none"), d, touched, FALSE, t)
  BY RunsNothing
<1> QED
  BY <1>1, <1>2, <1>3 DEF BuildInv, d, t

LEMMA MarkedWhatChanged ==
  ASSUME BuildInv
  PROVE  ChangesAreMarked
<1>1. noted # Missing => \A s \in DOMAIN Type \ touched : Says(noted, s) = Says(disk.auto, s)
  BY DEF BuildInv, FilesInv, LinesOf, Says
<1>2. ASSUME fresh
      PROVE  disk.header = disk.auto /\ Range(disk.auto) = {line \in Range(disk.config) : line.val # "unset"}
  <2> DEFINE file == disk.config
             set == {line \in Range(file) : line.val # "unset"}
  <2>1. Listing(file) /\ disk.header = disk.auto /\ disk.auto = Those(file, set)
    BY <1>2 DEF BuildInv, FilesInv, SetLines
  <2> HIDE DEF file
  <2>2. Range(Those(file, set)) = Range(file) \cap set
    BY <2>1, ThoseIs
  <2> QED
    BY <2>1, <2>2 DEF file
<1> QED
  BY <1>1, <1>2 DEF ChangesAreMarked

(* For every Kconfig file and every version of it, whatever is answered and  *)
(* whatever is killed where: of what auto.conf says otherwise than at the    *)
(* last look the dependency file was written since, and while auto.conf is   *)
(* newer than .config and the Kconfig file, it and the header are what       *)
(* .config sets (confdata.c:969-1100).                                       *)
THEOREM EveryChangeIsMarked == BuildSpec => []ChangesAreMarked
<1>1. BuildInit => BuildInv
  BY BuildStarts
<1>2. BuildInv /\ [BuildNext]_build_vars => BuildInv'
  BY BuildKeeps
<1>3. BuildInv => ChangesAreMarked
  BY MarkedWhatChanged
<1> QED
  BY <1>1, <1>2, <1>3, PTL DEF BuildSpec

-----------------------------------------------------------------------------
(* The dialogs.                                                            *)

LEMMA MinIs ==
  ASSUME NEW S \in SUBSET Nat, S # {}
  PROVE  Min(S) \in S
<1>1. \E x \in S : \A y \in S : <<y, x>> \notin OpToRel(<, Nat)
  BY NatLessThanWellFounded, WFMin
<1>2. PICK x \in S : \A y \in S : ~(y < x)
  BY <1>1 DEF OpToRel
<1>3. \A y \in S : x <= y
  BY <1>2
<1> QED
  BY <1>3 DEF Min

LEMMA MaxIs ==
  ASSUME NEW n \in Nat, NEW S \in SUBSET (1..n), S # {}
  PROVE  Max(S) \in S
<1> DEFINE T == {n - x : x \in S}
<1>1. T \in SUBSET Nat /\ T # {}
  <2>1. \A x \in S : n - x \in Nat
    OBVIOUS
  <2>2. PICK x \in S : TRUE
    OBVIOUS
  <2>3. n - x \in T
    OBVIOUS
  <2> QED
    BY <2>1, <2>3
<1>2. \E x \in T : \A y \in T : <<y, x>> \notin OpToRel(<, Nat)
  BY <1>1, NatLessThanWellFounded, WFMin
<1>3. PICK x \in T : \A y \in T : ~(y < x)
  BY <1>1, <1>2 DEF OpToRel
<1>4. PICK m \in S : x = n - m
  BY <1>3
<1>5. \A y \in S : m >= y
  <2> TAKE y \in S
  <2>1. n - y \in T /\ ~(n - y < n - m)
    BY <1>3, <1>4
  <2> QED
    BY <2>1
<1> QED
  BY <1>5 DEF Max

(* A menu: its lines are lines of the list, and those drawn are those the    *)
(* keys count from, unless it was resized.                                   *)
MenuOK(b, r) ==
  /\ b = [kind |-> "menu", items |-> b.items, button |-> b.button, scroll |-> b.scroll,
          first_item |-> b.first_item, drawn |-> b.drawn, choice |-> b.choice, resized |-> b.resized]
  /\ Listing(b.items)
  /\ b.items # <<>> => Shown(b, max_choice(b.items, r)) /\ b.scroll \in Int
  /\ b.items = <<>> => b.choice = 0
  /\ b.resized \/ b.drawn = b.scroll

LEMMA MaxChoiceIs ==
  ASSUME NEW items, Listing(items), NEW r \in Nat, r >= 15
  PROVE  /\ Len(items) \in Nat /\ DOMAIN items = 1..Len(items)
         /\ max_choice(items, r) \in Nat /\ max_choice(items, r) <= Len(items)
         /\ items # <<>> => Len(items) >= 1 /\ max_choice(items, r) >= 1
<1>1. Len(items) \in Nat /\ DOMAIN items = 1..Len(items) /\ items \in Seq(Range(items))
  BY ListingIs DEF Listing
<1>2. items # <<>> => Len(items) >= 1
  BY <1>1
<1>3. r - MenuFrame \in Nat /\ r - MenuFrame >= 1
  BY MenuAssumption
<1> QED
  BY <1>1, <1>2, <1>3 DEF max_choice, Lesser

(* Where a menu is drawn, with the item it opens at on one of its lines.     *)
LEMMA MenuDrawn ==
  ASSUME NEW items, Listing(items), NEW selected, NEW kept \in Int, NEW r \in Nat, r >= 15,
         NEW line, NEW first, NEW button,
         items = <<>> => line = 0,
         items # <<>> => line \in 0..(Len(items) - 1)
  PROVE  LET b == menu_drawn(items, selected, kept, r, line, first, button)
         IN /\ b = [kind |-> "menu", items |-> items, button |-> button, scroll |-> b.scroll,
                    first_item |-> b.first_item, drawn |-> b.drawn, choice |-> b.choice, resized |-> FALSE]
            /\ items # <<>> => Shown(b, max_choice(items, r)) /\ b.scroll \in Int
            /\ items = <<>> => b.choice = 0
            /\ first = 0 => b.drawn = b.scroll
<1> DEFINE n == Len(items)
           most == max_choice(items, r)
           wanted == {i \in DOMAIN items : items[i].data = selected}
           choice == IF wanted = {} THEN line ELSE Max(wanted) - 1
           scroll == restore_scroll(items, choice, kept, most)
           below == window_line(choice, scroll)
           centred == IF below >= n - most \div 2 THEN n - most ELSE below - most \div 2
           box(s, f, c) == [kind |-> "menu", items |-> items, button |-> button,
                       scroll |-> s, first_item |-> f, drawn |-> f, choice |-> c, resized |-> FALSE]
           b == menu_drawn(items, selected, kept, r, line, first, button)
<1>1. /\ n \in Nat /\ DOMAIN items = 1..n /\ most \in Nat /\ most <= n
      /\ items # <<>> => n >= 1 /\ most >= 1
  BY MaxChoiceIs
<1>2. items = <<>> => n = 0 /\ most = 0
  BY <1>1
<1>3. b = CASE below >= most -> box(centred, centred, below - centred)
            [] below < most /\ scroll # -1 -> box(scroll, scroll, below)
            [] OTHER -> box(0, first, below)
  BY DEF menu_drawn
<1>4. wanted \in SUBSET (1..n)
  BY <1>1
<1> HIDE DEF n, most, wanted
<1>5. items # <<>> => choice \in 0..(n - 1)
  <2>1. CASE wanted = {}
    BY <2>1 DEF n
  <2>2. CASE wanted # {}
    <3>1. Max(wanted) \in 1..n
      BY <1>1, <1>4, <2>2, MaxIs
    <3> HIDE DEF wanted
    <3> QED
      BY <1>1, <2>2, <3>1
  <2> QED
    BY <2>1, <2>2
<1>6. items = <<>> => choice = 0
  <2>1. items = <<>> => wanted = {}
    BY <1>1, <1>2, <1>4
  <2> QED
    BY <2>1
<1> HIDE DEF choice
<1>7. choice \in Int
  BY <1>1, <1>5, <1>6
<1>8. scroll = -1 \/ (scroll = kept /\ kept <= choice /\ choice < kept + most /\ kept >= 0 /\ kept + most <= n)
  BY DEF restore_scroll, n
<1>9. below = IF scroll = -1 THEN choice ELSE choice - scroll
  BY DEF window_line
<1> HIDE DEF scroll, below
<1>10. scroll \in Int /\ below \in Int
  BY <1>7, <1>8, <1>9
<1>11. centred \in Int
  BY <1>1, <1>10
<1>12. most \div 2 \in Nat /\ 2 * (most \div 2) <= most /\ most <= 2 * (most \div 2) + 1
  BY <1>1
<1> DEFINE half == most \div 2
<1> HIDE DEF half, b
<1>13. CASE below >= most
  <2>1. scroll = -1 /\ below = choice
    BY <1>1, <1>7, <1>8, <1>9, <1>13
  <2>2. b = box(centred, centred, below - centred)
    BY <1>1, <1>3, <1>10, <1>13
  <2>3. centred = IF below >= n - half THEN n - half - (most - half) ELSE below - half
    BY <1>1, <1>10, <1>12 DEF half
  <2> HIDE DEF centred
  <2>4. items # <<>> => below - centred \in 0..(most - 1) /\ centred >= 0 /\ centred + most <= n
    BY <1>1, <1>5, <1>10, <1>11, <1>12, <1>13, <2>1, <2>3 DEF half
  <2>5. items = <<>> => below - centred = 0
    BY <1>2, <1>6, <1>12, <2>1, <2>3 DEF half
  <2> QED
    BY <1>11, <2>2, <2>4, <2>5 DEF Shown, b, n, most
<1>14. CASE below < most /\ scroll # -1
  <2>1. b = box(scroll, scroll, below)
    BY <1>1, <1>3, <1>10, <1>14
  <2>2. below \in 0..(most - 1) /\ scroll >= 0 /\ scroll + most <= n
    BY <1>1, <1>7, <1>8, <1>9, <1>10, <1>14
  <2>3. items # <<>>
    BY <1>1, <1>2, <2>2
  <2> QED
    BY <1>10, <2>1, <2>2, <2>3 DEF Shown, b, n, most
<1>15. CASE below < most /\ scroll = -1
  <2>1. b = box(0, first, below)
    BY <1>1, <1>3, <1>10, <1>15
  <2>2. items # <<>> => below \in 0..(most - 1)
    BY <1>1, <1>5, <1>9, <1>10, <1>15
  <2>3. items # <<>>
    BY <1>2, <1>6, <1>9, <1>10, <1>15
  <2> QED
    BY <1>1, <2>1, <2>2, <2>3 DEF Shown, b, n, most
<1> QED
  BY <1>1, <1>10, <1>13, <1>14, <1>15

LEMMA MenuOpens ==
  ASSUME NEW items, Listing(items), NEW selected, NEW kept \in Int, NEW r \in Nat, r >= 15
  PROVE  MenuOK(menu_open(items, selected, kept, r), r)
<1> DEFINE b == menu_open(items, selected, kept, r)
<1>1. /\ items = <<>> => 0 = 0
      /\ items # <<>> => 0 \in 0..(Len(items) - 1)
  BY MaxChoiceIs
<1>2. /\ b = [kind |-> "menu", items |-> items, button |-> 0, scroll |-> b.scroll,
              first_item |-> b.first_item, drawn |-> b.drawn, choice |-> b.choice, resized |-> FALSE]
      /\ items # <<>> => Shown(b, max_choice(items, r)) /\ b.scroll \in Int
      /\ items = <<>> => b.choice = 0
      /\ b.drawn = b.scroll
  BY <1>1, MenuDrawn DEF menu_open
<1> HIDE DEF b
<1>3. b.items = items /\ b.button = 0 /\ b.resized = FALSE
  BY <1>2
<1>4. b = [kind |-> "menu", items |-> b.items, button |-> b.button, scroll |-> b.scroll,
           first_item |-> b.first_item, drawn |-> b.drawn, choice |-> b.choice, resized |-> b.resized]
  BY <1>2, <1>3
<1> QED
  BY <1>2, <1>3, <1>4 DEF MenuOK, b

LEMMA MenuResizes ==
  ASSUME NEW b, NEW before \in Nat, before >= 15, MenuOK(b, before),
         NEW selected, NEW kept \in Int, NEW r \in Nat, r >= 15
  PROVE  MenuOK(menu_resized(b, selected, kept, r), r)
<1> DEFINE items == b.items
           line == b.choice
           first == b.first_item
           button == b.button
           d == menu_drawn(items, selected, kept, r, line, first, button)
           e == menu_resized(b, selected, kept, r)
<1>1. /\ Listing(items)
      /\ items = <<>> => line = 0
      /\ items # <<>> => line \in 0..(max_choice(items, before) - 1)
  BY DEF MenuOK, Shown
<1>2. e = [d EXCEPT !.resized = TRUE]
  BY DEF menu_resized
<1> HIDE DEF items, line, first, button, e
<1>3. items # <<>> => line \in 0..(Len(items) - 1)
  <2>1. Len(items) \in Nat /\ max_choice(items, before) \in Nat /\ max_choice(items, before) <= Len(items)
    BY <1>1, MaxChoiceIs
  <2> QED
    BY <1>1, <2>1
<1>4. /\ d = [kind |-> "menu", items |-> items, button |-> button, scroll |-> d.scroll,
              first_item |-> d.first_item, drawn |-> d.drawn, choice |-> d.choice, resized |-> FALSE]
      /\ items # <<>> => Shown(d, max_choice(items, r)) /\ d.scroll \in Int
      /\ items = <<>> => d.choice = 0
  BY <1>1, <1>3, MenuDrawn
<1> HIDE DEF d
<1>5. e = [kind |-> "menu", items |-> items, button |-> button, scroll |-> d.scroll,
           first_item |-> d.first_item, drawn |-> d.drawn, choice |-> d.choice, resized |-> TRUE]
  <2>1. PICK sc, fi, dr, ch, re :
          /\ d = [kind |-> "menu", items |-> items, button |-> button, scroll |-> sc,
                  first_item |-> fi, drawn |-> dr, choice |-> ch, resized |-> re]
          /\ sc = d.scroll /\ fi = d.first_item /\ dr = d.drawn /\ ch = d.choice
    BY <1>4
  <2> DEFINE yes == TRUE
  <2>2. e = [d EXCEPT !.resized = yes]
    BY <1>2
  <2> HIDE DEF yes
  <2>3. e = [kind |-> "menu", items |-> items, button |-> button, scroll |-> sc,
             first_item |-> fi, drawn |-> dr, choice |-> ch, resized |-> yes]
    BY <2>1, <2>2
  <2> QED
    BY <2>1, <2>3 DEF yes
<1>6. /\ e.items = items /\ e.scroll = d.scroll /\ e.choice = d.choice /\ e.resized = TRUE
      /\ d.items = items
      /\ e = [kind |-> "menu", items |-> e.items, button |-> e.button, scroll |-> e.scroll,
              first_item |-> e.first_item, drawn |-> e.drawn, choice |-> e.choice, resized |-> e.resized]
  BY <1>4, <1>5
<1> QED
  BY <1>1, <1>4, <1>6 DEF MenuOK, Shown, e

LEMMA HotkeyIs ==
  ASSUME NEW b, NEW key, NEW most \in Nat
  PROVE  LET hits == hotkey(b, key, most) IN hits # {} => Min(hits) \in 0..(most - 1)
<1> DEFINE hit(i) == first_alpha(item_set(b.items, b.scroll + i), OwnKeys) = key
           window == {i \in 0 .. (most - 1) : hit(i)}
           below  == {i \in window : i > b.choice}
           hits == hotkey(b, key, most)
<1> HIDE DEF hit
<1>1. window \in SUBSET Nat /\ window \subseteq 0..(most - 1) /\ below \subseteq window
  OBVIOUS
<1>2. hits = CASE key \in OwnKeys -> {}
               [] key \notin OwnKeys /\ below # {} -> {Min(below)}
               [] OTHER -> IF window = {} THEN {} ELSE {Min(window)}
  BY DEF hotkey, hit
<1> HIDE DEF window, below, hits
<1>3. below # {} => Min(below) \in 0..(most - 1)
  BY <1>1, MinIs
<1>4. window # {} => Min(window) \in 0..(most - 1)
  BY <1>1, MinIs
<1>5. hits # {} => \E m \in 0..(most - 1) : hits = {m}
  BY <1>2, <1>3, <1>4
<1>6. hits # {} => Min(hits) \in 0..(most - 1)
  <2> SUFFICES ASSUME hits # {} PROVE Min(hits) \in 0..(most - 1)
    OBVIOUS
  <2>1. PICK m \in 0..(most - 1) : hits = {m}
    BY <1>5
  <2>2. hits \in SUBSET Nat
    BY <2>1
  <2>3. Min(hits) \in hits
    BY <2>2, MinIs
  <2> QED
    BY <2>1, <2>3
<1> QED
  BY <1>6 DEF hits

LEMMA MenuKeyed ==
  ASSUME NEW r \in Nat, r >= 15, NEW b, MenuOK(b, r), NEW key
  PROVE  MenuOK(menu_key(b, key, r), r)
<1> DEFINE most == max_choice(b.items, r)
           n == Len(b.items)
           hits == hotkey(b, key, most)
           e == menu_key(b, key, r)
<1>1. /\ Listing(b.items)
      /\ b.items # <<>> => Shown(b, most) /\ b.scroll \in Int
      /\ b.items = <<>> => b.choice = 0
      /\ b.resized \/ b.drawn = b.scroll
  BY DEF MenuOK
<1>2. n \in Nat /\ most \in Nat /\ most <= n /\ (b.items # <<>> => most >= 1)
  <2> DEFINE items == b.items
  <2> HIDE DEF items
  <2>1. Listing(items)
    BY <1>1 DEF items
  <2>2. Len(items) \in Nat /\ max_choice(items, r) \in Nat /\ max_choice(items, r) <= Len(items)
        /\ (items # <<>> => max_choice(items, r) >= 1)
    BY <2>1, MaxChoiceIs
  <2> QED
    BY <2>2 DEF items
<1>3. b.items = <<>> => n = 0
  OBVIOUS
<1>4. hits # {} => Min(hits) \in 0..(most - 1)
  BY <1>2, HotkeyIs
<1>5. b.items # <<>> =>
        /\ b.choice \in 0..(most - 1) /\ b.scroll \in Int /\ b.scroll >= 0 /\ b.scroll + most <= n
  BY <1>1 DEF Shown
<1>6. PICK it, bu, sc, fi, dr, ch, re :
        b = [kind |-> "menu", items |-> it, button |-> bu, scroll |-> sc,
             first_item |-> fi, drawn |-> dr, choice |-> ch, resized |-> re]
  BY DEF MenuOK
<1>7. /\ b.items = it /\ b.scroll = sc /\ b.choice = ch /\ b.drawn = dr /\ b.resized = re
      /\ b.button = bu /\ b.first_item = fi
  BY <1>6
<1>8. ASSUME NEW q, NEW bu2, NEW sc2, NEW dr2, NEW ch2,
             q = [kind |-> "menu", items |-> it, button |-> bu2, scroll |-> sc2,
                  first_item |-> fi, drawn |-> dr2, choice |-> ch2, resized |-> re],
             it # <<>> => ch2 \in 0..(most - 1) /\ sc2 \in Int /\ sc2 >= 0 /\ sc2 + most <= n,
             it = <<>> => ch2 = 0,
             dr = sc => dr2 = sc2
      PROVE  MenuOK(q, r)
  <2>1. /\ q.items = it /\ q.scroll = sc2 /\ q.choice = ch2 /\ q.drawn = dr2 /\ q.resized = re
        /\ q = [kind |-> "menu", items |-> q.items, button |-> q.button, scroll |-> q.scroll,
                first_item |-> q.first_item, drawn |-> q.drawn, choice |-> q.choice, resized |-> q.resized]
    BY <1>8
  <2>2. it # <<>> => Shown(q, max_choice(q.items, r)) /\ q.scroll \in Int
    BY <1>7, <1>8, <2>1 DEF Shown
  <2>3. q.resized \/ q.drawn = q.scroll
    BY <1>1, <1>7, <1>8, <2>1
  <2> QED
    BY <1>1, <1>7, <1>8, <2>1, <2>2, <2>3 DEF MenuOK
<1>9. e = CASE hits # {} -> [b EXCEPT !.choice = Min(hits)]
            [] hits = {} /\ key \in {"left", "right"} -> [b EXCEPT !.button = NextButton(@, key, 4)]
            [] hits = {} /\ b.items # <<>> /\ key \in {"up", "down"} -> menu_step(b, key, most)
            [] hits = {} /\ b.items # <<>> /\ key \in {"ppage", "npage"} -> menu_page(b, key, most)
            [] OTHER -> b
  BY DEF menu_key
<1> HIDE DEF most, n, hits, e
<1>10. CASE hits # {}
  <2> DEFINE m == Min(hits)
  <2>1. e = [b EXCEPT !.choice = m]
    BY <1>9, <1>10
  <2>2. m \in 0..(most - 1) /\ it # <<>>
    BY <1>2, <1>3, <1>4, <1>7, <1>10
  <2> HIDE DEF m
  <2>3. e = [kind |-> "menu", items |-> it, button |-> bu, scroll |-> sc,
             first_item |-> fi, drawn |-> dr, choice |-> m, resized |-> re]
    BY <1>6, <2>1
  <2>4. MenuOK(e, r)
    BY <1>5, <1>7, <1>8, <2>2, <2>3
  <2> QED
    BY <2>4 DEF e
<1>11. CASE hits = {} /\ key \in {"left", "right"}
  <2> DEFINE m == NextButton(bu, key, 4)
  <2> HIDE DEF m
  <2>1. e = [b EXCEPT !.button = m]
    BY <1>7, <1>9, <1>11 DEF m
  <2>2. e = [kind |-> "menu", items |-> it, button |-> m, scroll |-> sc,
             first_item |-> fi, drawn |-> dr, choice |-> ch, resized |-> re]
    BY <1>6, <2>1
  <2>3. MenuOK(e, r)
    BY <1>1, <1>5, <1>7, <1>8, <2>2
  <2> QED
    BY <2>3 DEF e
<1>12. CASE hits = {} /\ it # <<>> /\ key \in {"up", "down"}
  <2>1. e = menu_step(b, key, most)
    BY <1>7, <1>9, <1>12
  <2>2. \E sc2, dr2, ch2 :
          /\ e = [kind |-> "menu", items |-> it, button |-> bu, scroll |-> sc2,
                  first_item |-> fi, drawn |-> dr2, choice |-> ch2, resized |-> re]
          /\ ch2 \in 0..(most - 1) /\ sc2 \in Int /\ sc2 >= 0 /\ sc2 + most <= n
          /\ dr = sc => dr2 = sc2
    <3>1. CASE key = "up" /\ ch < 2 /\ sc > 0
      <4>1. e = [b EXCEPT !.scroll = sc + (-1), !.drawn = dr + (-1)]
        BY <1>7, <2>1, <3>1 DEF menu_step, do_scroll
      <4>2. e = [kind |-> "menu", items |-> it, button |-> bu, scroll |-> sc + (-1),
                 first_item |-> fi, drawn |-> dr + (-1), choice |-> ch, resized |-> re]
        BY <1>6, <4>1
      <4>3. ch \in 0..(most - 1) /\ sc + (-1) \in Int /\ sc + (-1) >= 0 /\ (sc + (-1)) + most <= n
        BY <1>2, <1>5, <1>7, <1>12, <3>1
      <4> QED
        BY <4>2, <4>3
    <3>2. CASE key = "down" /\ ch > most - 3 /\ sc + most < n
      <4>1. e = [b EXCEPT !.scroll = sc + 1, !.drawn = dr + 1]
        BY <1>7, <2>1, <3>2 DEF menu_step, do_scroll, n
      <4>2. e = [kind |-> "menu", items |-> it, button |-> bu, scroll |-> sc + 1,
                 first_item |-> fi, drawn |-> dr + 1, choice |-> ch, resized |-> re]
        BY <1>6, <4>1
      <4>3. ch \in 0..(most - 1) /\ sc + 1 \in Int /\ sc + 1 >= 0 /\ (sc + 1) + most <= n
        BY <1>2, <1>5, <1>7, <1>12, <3>2
      <4> QED
        BY <4>2, <4>3
    <3>3. CASE ~(key = "up" /\ ch < 2 /\ sc > 0) /\ ~(key = "down" /\ ch > most - 3 /\ sc + most < n)
      <4> DEFINE m == IF key = "up" THEN Greater(ch - 1, 0) ELSE Lesser(ch + 1, most - 1)
      <4>1. e = [b EXCEPT !.choice = m]
        BY <1>7, <2>1, <3>3 DEF menu_step, n
      <4>2. m \in 0..(most - 1)
        BY <1>2, <1>5, <1>7, <1>12 DEF Greater, Lesser
      <4> HIDE DEF m
      <4>3. e = [kind |-> "menu", items |-> it, button |-> bu, scroll |-> sc,
                 first_item |-> fi, drawn |-> dr, choice |-> m, resized |-> re]
        BY <1>6, <4>1
      <4> QED
        BY <1>5, <1>7, <1>12, <4>2, <4>3
    <3> QED
      BY <3>1, <3>2, <3>3
  <2>3. PICK sc2, dr2, ch2 :
          /\ e = [kind |-> "menu", items |-> it, button |-> bu, scroll |-> sc2,
                  first_item |-> fi, drawn |-> dr2, choice |-> ch2, resized |-> re]
          /\ ch2 \in 0..(most - 1) /\ sc2 \in Int /\ sc2 >= 0 /\ sc2 + most <= n
          /\ dr = sc => dr2 = sc2
    BY <2>2
  <2>4. MenuOK(e, r)
    BY <1>8, <1>12, <2>3
  <2> QED
    BY <2>4 DEF e
<1>13. CASE hits = {} /\ it # <<>> /\ key \in {"ppage", "npage"}
  <2>1. e = menu_page(b, key, most)
    BY <1>7, <1>9, <1>13
  <2> DEFINE up == Lesser(most, sc)
             down == Lesser(most, n - (sc + most))
             by == IF key = "ppage" THEN -up ELSE down
             m == IF key = "ppage" THEN Greater(0, ch - (most - up)) ELSE Lesser(most - 1, ch + (most - down))
  <2>2. /\ up \in Nat /\ up <= most /\ up <= sc
        /\ down \in Nat /\ down <= most /\ down <= n - (sc + most)
    BY <1>2, <1>5, <1>7, <1>13 DEF Lesser
  <2>3. e = [do_scroll(b, by) EXCEPT !.choice = m]
    BY <1>7, <2>1 DEF menu_page, do_scroll, n
  <2> HIDE DEF up, down
  <2>4. /\ m \in 0..(most - 1) /\ by \in Int /\ sc + by \in Int /\ sc + by >= 0 /\ (sc + by) + most <= n
    <3>1. CASE key = "ppage"
      <4>1. by = -up /\ m = Greater(0, ch - (most - up))
        BY <3>1
      <4>2. ch \in 0..(most - 1) /\ sc \in Int /\ sc >= 0 /\ sc + most <= n /\ most \in Nat /\ most >= 1 /\ n \in Nat
        BY <1>2, <1>5, <1>7, <1>13
      <4> HIDE DEF m, by
      <4> QED
        BY <2>2, <4>1, <4>2 DEF Greater
    <3>2. CASE key # "ppage"
      <4>1. by = down /\ m = Lesser(most - 1, ch + (most - down))
        BY <3>2
      <4>2. ch \in 0..(most - 1) /\ sc \in Int /\ sc >= 0 /\ sc + most <= n /\ most \in Nat /\ most >= 1 /\ n \in Nat
        BY <1>2, <1>5, <1>7, <1>13
      <4> HIDE DEF m, by
      <4> QED
        BY <2>2, <4>1, <4>2 DEF Lesser
    <3> QED
      BY <3>1, <3>2
  <2> HIDE DEF m, by
  <2> DEFINE dd == do_scroll(b, by)
  <2>5. dd = [kind |-> "menu", items |-> it, button |-> bu, scroll |-> sc + by,
              first_item |-> fi, drawn |-> dr + by, choice |-> ch, resized |-> re]
    <3> DEFINE sc2 == sc + by
               dr2 == dr + by
    <3>1. dd = [b EXCEPT !.scroll = sc2, !.drawn = dr2]
      BY <1>7 DEF do_scroll
    <3> HIDE DEF dd, sc2, dr2
    <3>2. dd = [kind |-> "menu", items |-> it, button |-> bu, scroll |-> sc2,
                first_item |-> fi, drawn |-> dr2, choice |-> ch, resized |-> re]
      BY <1>6, <3>1
    <3> QED
      BY <3>2 DEF sc2, dr2
  <2> HIDE DEF dd
  <2>6. e = [kind |-> "menu", items |-> it, button |-> bu, scroll |-> sc + by,
             first_item |-> fi, drawn |-> dr + by, choice |-> m, resized |-> re]
    BY <2>3, <2>5 DEF dd
  <2>7. MenuOK(e, r)
    <3> DEFINE sc2 == sc + by
               dr2 == dr + by
    <3>1. dr = sc => dr2 = sc2
      OBVIOUS
    <3> HIDE DEF sc2, dr2
    <3>2. sc2 \in Int /\ sc2 >= 0 /\ sc2 + most <= n
      BY <2>4 DEF sc2
    <3> QED
      BY <1>8, <1>13, <2>4, <2>6, <3>1, <3>2 DEF sc2, dr2
  <2> QED
    BY <2>7 DEF e
<1>14. CASE e = b
  BY <1>14 DEF e
<1>15. hits # {} \/ (hits = {} /\ key \in {"left", "right"}) \/ (hits = {} /\ it # <<>> /\ key \in {"up", "down"})
       \/ (hits = {} /\ it # <<>> /\ key \in {"ppage", "npage"}) \/ e = b
  BY <1>7, <1>9
<1> QED
  BY <1>10, <1>11, <1>12, <1>13, <1>14, <1>15

(* A radio list, likewise.                                                  *)
CheckOK(b) ==
  /\ b = [kind |-> "check", items |-> b.items, button |-> b.button, scroll |-> b.scroll, choice |-> b.choice]
  /\ Listing(b.items)
  /\ b.items # <<>> => Shown(b, check_lines(b.items)) /\ b.scroll \in Int

LEMMA CheckLinesIs ==
  ASSUME NEW items, Listing(items)
  PROVE  /\ Len(items) \in Nat /\ DOMAIN items = 1..Len(items)
         /\ check_lines(items) \in Nat /\ check_lines(items) = IF ListLines < Len(items) THEN ListLines ELSE Len(items)
         /\ items # <<>> => Len(items) >= 1 /\ check_lines(items) >= 1
         /\ ListLines \in Nat /\ ListLines >= 1
<1>1. Len(items) \in Nat /\ DOMAIN items = 1..Len(items) /\ items \in Seq(Range(items))
  BY ListingIs DEF Listing
<1>2. items # <<>> => Len(items) >= 1
  BY <1>1
<1> QED
  BY <1>1, <1>2, MenuAssumption DEF check_lines, Lesser

LEMMA CheckOpens ==
  ASSUME NEW items, Listing(items)
  PROVE  CheckOK(check_open(items))
<1> DEFINE n == Len(items)
           tagged == {i \in DOMAIN items : items[i].tag = ChosenTag}
           marked == {i \in DOMAIN items : items[i].selected}
           at == item_activate_selected(items)
           start == IF at # -1 THEN at ELSE IF tagged # {} THEN Max(tagged) - 1 ELSE 0
           scroll == IF start >= ListLines THEN start - ListLines + 1 ELSE 0
           choice == start - scroll
           b == check_open(items)
           most == check_lines(items)
<1>1. /\ n \in Nat /\ DOMAIN items = 1..n /\ most \in Nat
      /\ most = IF ListLines < n THEN ListLines ELSE n
      /\ items # <<>> => n >= 1 /\ most >= 1
      /\ ListLines \in Nat /\ ListLines >= 1
  BY CheckLinesIs
<1>2. b = [kind |-> "check", items |-> items, button |-> 0, scroll |-> scroll, choice |-> choice]
  BY DEF check_open
<1>3. at = IF marked = {} THEN -1 ELSE Min(marked) - 1
  BY DEF item_activate_selected
<1>4. tagged \in SUBSET (1..n) /\ marked \in SUBSET (1..n) /\ marked \in SUBSET Nat
  BY <1>1
<1> HIDE DEF n, tagged, marked, at, most, b
<1>5. marked # {} => Min(marked) \in 1..n
  BY <1>4, MinIs
<1>6. tagged # {} => Max(tagged) \in 1..n
  BY <1>1, <1>4, MaxIs
<1>7. items # <<>> => start \in 0..(n - 1)
  BY <1>1, <1>3, <1>5, <1>6
<1> HIDE DEF start
<1>8. items # <<>> => /\ choice \in 0..(most - 1) /\ scroll \in Int /\ scroll >= 0 /\ scroll + most <= n
  BY <1>1, <1>7
<1> HIDE DEF choice, scroll
<1>9. /\ b.items = items /\ b.scroll = scroll /\ b.choice = choice
      /\ b = [kind |-> "check", items |-> b.items, button |-> b.button, scroll |-> b.scroll, choice |-> b.choice]
  BY <1>2
<1>10. CheckOK(b)
  BY <1>8, <1>9 DEF CheckOK, Shown, most, n
<1> QED
  BY <1>10 DEF b

LEMMA CheckKeyed ==
  ASSUME NEW b, CheckOK(b), NEW key
  PROVE  CheckOK(check_key(b, key))
<1> DEFINE most == check_lines(b.items)
           n == Len(b.items)
           hits == {i \in 0 .. (most - 1) : item_set(b.items, b.scroll + i).hot = key}
           e == check_key(b, key)
<1>1. /\ Listing(b.items)
      /\ b.items # <<>> => Shown(b, most) /\ b.scroll \in Int
  BY DEF CheckOK
<1>2. n \in Nat /\ most \in Nat /\ most <= n /\ (b.items # <<>> => most >= 1)
  <2> DEFINE items == b.items
  <2> HIDE DEF items
  <2>1. Listing(items)
    BY <1>1 DEF items
  <2>2. /\ Len(items) \in Nat /\ check_lines(items) \in Nat
        /\ check_lines(items) = IF ListLines < Len(items) THEN ListLines ELSE Len(items)
        /\ (items # <<>> => check_lines(items) >= 1) /\ ListLines \in Nat
    BY <2>1, CheckLinesIs
  <2> QED
    BY <2>2 DEF items
<1>3. b.items = <<>> => n = 0
  OBVIOUS
<1>5. b.items # <<>> =>
        /\ b.choice \in 0..(most - 1) /\ b.scroll \in Int /\ b.scroll >= 0 /\ b.scroll + most <= n
  BY <1>1 DEF Shown
<1>6. PICK it, bu, sc, ch :
        b = [kind |-> "check", items |-> it, button |-> bu, scroll |-> sc, choice |-> ch]
  BY DEF CheckOK
<1>7. b.items = it /\ b.scroll = sc /\ b.choice = ch /\ b.button = bu
  BY <1>6
<1>8. ASSUME NEW q, NEW bu2, NEW sc2, NEW ch2,
             q = [kind |-> "check", items |-> it, button |-> bu2, scroll |-> sc2, choice |-> ch2],
             it # <<>> => ch2 \in 0..(most - 1) /\ sc2 \in Int /\ sc2 >= 0 /\ sc2 + most <= n
      PROVE  CheckOK(q)
  <2>1. /\ q.items = it /\ q.scroll = sc2 /\ q.choice = ch2
        /\ q = [kind |-> "check", items |-> q.items, button |-> q.button, scroll |-> q.scroll, choice |-> q.choice]
    BY <1>8
  <2>2. it # <<>> => Shown(q, check_lines(q.items)) /\ q.scroll \in Int
    BY <1>7, <1>8, <2>1 DEF Shown
  <2> QED
    BY <1>1, <1>7, <2>1, <2>2 DEF CheckOK
<1> DEFINE sc2 == IF key = "up" THEN IF ch > 0 THEN sc ELSE Greater(0, sc - 1)
                  ELSE IF key = "down" /\ ~(ch # most - 1) /\ ~(sc + ch >= n - 1) THEN sc + 1 ELSE sc
           ch2 == IF key = "up" THEN IF ch > 0 THEN ch - 1 ELSE ch
                  ELSE IF key = "down" THEN IF ch # most - 1 THEN ch + 1 ELSE ch
                  ELSE IF key \notin {"left", "right"} /\ hits # {} THEN Min(hits) ELSE ch
           bu2 == IF key \in {"left", "right"} THEN NextButton(bu, key, 1) ELSE bu
<1>9. hits \in SUBSET Nat /\ hits \subseteq 0..(most - 1)
  OBVIOUS
<1>10. e = CASE key = "up" -> IF b.choice > 0 THEN [b EXCEPT !.choice = @ - 1]
                              ELSE [b EXCEPT !.scroll = Greater(0, @ - 1)]
             [] key = "down" -> IF b.choice # most - 1 THEN [b EXCEPT !.choice = @ + 1]
                                ELSE [b EXCEPT !.scroll = IF Highlighted(b) >= Len(b.items) - 1 THEN @ ELSE @ + 1]
             [] key \in {"left", "right"} -> [b EXCEPT !.button = NextButton(@, key, 1)]
             [] key \notin CheckKeys /\ hits # {} -> [b EXCEPT !.choice = Min(hits)]
             [] OTHER -> b
  BY DEF check_key
<1> HIDE DEF most, hits, e
<1>11. hits # {} => Min(hits) \in 0..(most - 1)
  BY <1>9, MinIs
<1>12. it # <<>> => ch2 \in 0..(most - 1) /\ sc2 \in Int /\ sc2 >= 0 /\ sc2 + most <= n
  <2> HIDE DEF n
  <2> SUFFICES ASSUME it # <<>> PROVE ch2 \in 0..(most - 1) /\ sc2 \in Int /\ sc2 >= 0 /\ sc2 + most <= n
    OBVIOUS
  <2>1. ch \in 0..(most - 1) /\ sc \in Int /\ sc >= 0 /\ sc + most <= n /\ most \in Nat /\ n \in Nat
    BY <1>2, <1>5, <1>7
  <2> QED
    BY <1>11, <2>1 DEF Greater
<1>13. e = [kind |-> "check", items |-> it, button |-> bu2, scroll |-> sc2, choice |-> ch2]
  <2>1. CASE key = "up"
    <3>1. CASE ch > 0
      <4>1. e = [b EXCEPT !.choice = ch - 1]
        BY <1>7, <1>10, <2>1, <3>1 DEF CheckKeys
      <4> QED
        BY <1>6, <2>1, <3>1, <4>1
    <3>2. CASE ~(ch > 0)
      <4> DEFINE up == Greater(0, sc - 1)
      <4>1. e = [b EXCEPT !.scroll = up]
        BY <1>7, <1>10, <2>1, <3>2 DEF CheckKeys
      <4>2. sc2 = up /\ ch2 = ch /\ bu2 = bu
        BY <2>1, <3>2
      <4> HIDE DEF up, sc2, ch2, bu2
      <4> QED
        BY <1>6, <4>1, <4>2
    <3> QED
      BY <3>1, <3>2
  <2>2. CASE key = "down"
    <3>1. CASE ch # most - 1
      <4>1. e = [b EXCEPT !.choice = ch + 1]
        BY <1>7, <1>10, <2>2, <3>1 DEF CheckKeys
      <4> QED
        BY <1>6, <2>2, <3>1, <4>1
    <3>2. CASE ch = most - 1
      <4> DEFINE dn == IF sc + ch >= n - 1 THEN sc ELSE sc + 1
      <4>1. e = [b EXCEPT !.scroll = dn]
        BY <1>7, <1>10, <2>2, <3>2 DEF Highlighted, CheckKeys
      <4>2. sc2 = dn /\ ch2 = ch /\ bu2 = bu
        BY <2>2, <3>2
      <4> HIDE DEF dn, sc2, ch2, bu2
      <4> QED
        BY <1>6, <4>1, <4>2
    <3> QED
      BY <3>1, <3>2
  <2>3. CASE key \in {"left", "right"}
    <3>1. e = [b EXCEPT !.button = NextButton(bu, key, 1)]
      BY <1>7, <1>10, <2>3 DEF CheckKeys
    <3>2. sc2 = sc /\ ch2 = ch /\ bu2 = NextButton(bu, key, 1)
      BY <2>3
    <3> HIDE DEF sc2, ch2, bu2
    <3> QED
      BY <1>6, <3>1, <3>2
  <2>4. CASE key \notin {"up", "down", "left", "right"}
    <3>1. e = IF hits # {} THEN [b EXCEPT !.choice = Min(hits)] ELSE b
      BY <1>10, <2>4 DEF CheckKeys
    <3>2. sc2 = sc /\ bu2 = bu /\ ch2 = IF hits # {} THEN Min(hits) ELSE ch
      BY <2>4
    <3> HIDE DEF sc2, ch2, bu2
    <3> QED
      BY <1>6, <3>1, <3>2
  <2> QED
    BY <2>1, <2>2, <2>3, <2>4
<1> HIDE DEF sc2, ch2, bu2, n
<1>14. CheckOK(e)
  BY <1>8, <1>12, <1>13
<1> QED
  BY <1>14 DEF e

(* A text: its page ends where the lines printed end, or at the end of the   *)
(* text, which counts as one line more.                                      *)
TextOK(b) ==
  /\ b = [kind |-> "text", lines |-> b.lines, page |-> b.page, begin_reached |-> b.begin_reached,
          end_reached |-> b.end_reached, page_length |-> b.page_length, hscroll |-> b.hscroll, top |-> b.top]
  /\ b.lines \in Nat /\ b.page \in 0..b.lines /\ b.top \in 0..b.lines /\ b.page_length \in Nat
  /\ \/ b.page_length = 0 /\ b.page = b.top
     \/ b.end_reached /\ b.page = b.lines /\ b.page_length = b.lines - b.top + 1
     \/ ~b.end_reached /\ b.page = b.top + b.page_length

(* Between two pages only the page counts.                                  *)
PageOK(b) ==
  /\ b = [kind |-> "text", lines |-> b.lines, page |-> b.page, begin_reached |-> b.begin_reached,
          end_reached |-> b.end_reached, page_length |-> b.page_length, hscroll |-> b.hscroll, top |-> b.top]
  /\ b.lines \in Nat /\ b.page \in 0..b.lines

LEMMA BackIs ==
  ASSUME NEW b, PageOK(b), NEW n \in Int
  PROVE  /\ PageOK(back_lines(b, n)) /\ back_lines(b, n).lines = b.lines
         /\ back_lines(b, n).page =
              LET back == IF b.end_reached /\ b.page = b.lines /\ n > 0 THEN n - 1 ELSE n
              IN IF back > b.page THEN 0 ELSE IF back > 0 THEN b.page - back ELSE b.page
<1> DEFINE at_end == b.end_reached /\ b.page = b.lines /\ n > 0
           back == Greater(0, IF at_end THEN n - 1 ELSE n)
           e == back_lines(b, n)
           en == IF at_end THEN FALSE ELSE b.end_reached
           be == back > 0 /\ back >= b.page
           pg == Greater(0, b.page - back)
<1>1. PICK li, pa, br, er, pl, hs, to :
        b = [kind |-> "text", lines |-> li, page |-> pa, begin_reached |-> br,
             end_reached |-> er, page_length |-> pl, hscroll |-> hs, top |-> to]
  BY DEF PageOK
<1>2. e = [[[b EXCEPT !.end_reached = en] EXCEPT !.begin_reached = be] EXCEPT !.page = pg]
  BY DEF back_lines
<1>3. b.lines = li /\ b.page = pa /\ li \in Nat /\ pa \in 0..li
  BY <1>1 DEF PageOK
<1>4. back \in Nat
  BY DEF Greater
<1>5. pg = IF back > pa THEN 0 ELSE pa - back
  <2> HIDE DEF back
  <2> QED
    BY <1>3, <1>4 DEF Greater
<1>6. pg \in 0..li
  <2> HIDE DEF back, pg
  <2> QED
    BY <1>3, <1>4, <1>5
<1>7. pg = LET k == IF b.end_reached /\ b.page = b.lines /\ n > 0 THEN n - 1 ELSE n
           IN IF k > b.page THEN 0 ELSE IF k > 0 THEN b.page - k ELSE b.page
  <2> DEFINE k == IF at_end THEN n - 1 ELSE n
  <2>1. k \in Int /\ back = IF 0 > k THEN 0 ELSE k
    BY DEF Greater
  <2> HIDE DEF k, pg, back
  <2>2. pg = IF k > pa THEN 0 ELSE IF k > 0 THEN pa - k ELSE pa
    BY <1>3, <1>5, <2>1
  <2> QED
    BY <1>3, <2>2 DEF k
<1> HIDE DEF en, be, pg, e
<1>8. e = [kind |-> "text", lines |-> li, page |-> pg, begin_reached |-> be,
           end_reached |-> en, page_length |-> pl, hscroll |-> hs, top |-> to]
  BY <1>1, <1>2
<1>9. /\ e.lines = li /\ e.page = pg
      /\ e = [kind |-> "text", lines |-> e.lines, page |-> e.page, begin_reached |-> e.begin_reached,
          end_reached |-> e.end_reached, page_length |-> e.page_length, hscroll |-> e.hscroll, top |-> e.top]
  BY <1>8
<1>10. PageOK(e)
  BY <1>3, <1>6, <1>9 DEF PageOK
<1> QED
  BY <1>3, <1>7, <1>9, <1>10 DEF e

LEMMA GetLinesIs ==
  ASSUME NEW b, PageOK(b), NEW n \in Nat
  PROVE  LET e == get_lines(b, n) IN
         /\ PageOK(e) /\ e.lines = b.lines
         /\ e.page = IF b.page + n < b.lines THEN b.page + n ELSE b.lines
         /\ e.end_reached = (IF n = 0 THEN b.end_reached ELSE b.page + n > b.lines)
<1> DEFINE e == get_lines(b, n)
           pg == Lesser(b.page + n, b.lines)
           en == IF n = 0 THEN b.end_reached ELSE b.page + n > b.lines
<1>1. PICK li, pa, br, er, pl, hs, to :
        b = [kind |-> "text", lines |-> li, page |-> pa, begin_reached |-> br,
             end_reached |-> er, page_length |-> pl, hscroll |-> hs, top |-> to]
  BY DEF PageOK
<1>2. e = [[b EXCEPT !.page = pg] EXCEPT !.end_reached = en]
  BY DEF get_lines
<1>3. b.lines = li /\ b.page = pa /\ li \in Nat /\ pa \in 0..li
  BY <1>1 DEF PageOK
<1>4. pg = (IF b.page + n < b.lines THEN b.page + n ELSE b.lines) /\ pg \in 0..li
  BY <1>3 DEF Lesser
<1> HIDE DEF pg, en, e
<1>5. e = [kind |-> "text", lines |-> li, page |-> pg, begin_reached |-> br,
           end_reached |-> en, page_length |-> pl, hscroll |-> hs, top |-> to]
  BY <1>1, <1>2
<1>6. /\ e.lines = li /\ e.page = pg /\ e.end_reached = en
      /\ e = [kind |-> "text", lines |-> e.lines, page |-> e.page, begin_reached |-> e.begin_reached,
          end_reached |-> e.end_reached, page_length |-> e.page_length, hscroll |-> e.hscroll, top |-> e.top]
  BY <1>5
<1>7. PageOK(e)
  BY <1>3, <1>4, <1>6 DEF PageOK
<1>8. e.end_reached = (IF n = 0 THEN b.end_reached ELSE b.page + n > b.lines)
  BY <1>6 DEF en
<1> QED
  BY <1>3, <1>4, <1>6, <1>7, <1>8 DEF e

(* A page printed is one the text can step back over.                        *)
LEMMA PagePrinted ==
  ASSUME NEW b, PageOK(b), NEW h \in Nat, NEW u
  PROVE  TextOK(print_page(b, h, u))
<1> DEFINE first == get_lines(b, h)
           t == IF u THEN back_lines(first, h) ELSE b
           after == get_lines(t, h)
           pl == Lesser(h, after.lines - t.page + 1)
           tp == t.page
           e == print_page(b, h, u)
<1>1. PageOK(first)
  BY GetLinesIs
<1>2. PageOK(t)
  <2> HIDE DEF first
  <2>1. PageOK(back_lines(first, h))
    BY <1>1, BackIs
  <2> QED
    BY <2>1
<1>3. e = [[after EXCEPT !.top = tp] EXCEPT !.page_length = pl]
  BY DEF print_page
<1> HIDE DEF t
<1>4. /\ PageOK(after) /\ after.lines = t.lines
      /\ after.page = IF t.page + h < t.lines THEN t.page + h ELSE t.lines
      /\ after.end_reached = (IF h = 0 THEN t.end_reached ELSE t.page + h > t.lines)
  BY <1>2, GetLinesIs
<1> HIDE DEF after
<1>5. PICK li, pa, br, er, pl0, hs, to :
        after = [kind |-> "text", lines |-> li, page |-> pa, begin_reached |-> br,
             end_reached |-> er, page_length |-> pl0, hscroll |-> hs, top |-> to]
  BY <1>4 DEF PageOK
<1>6. after.lines = li /\ after.page = pa /\ after.end_reached = er
  BY <1>5
<1>7. li \in Nat /\ tp \in 0..li /\ li = t.lines
  BY <1>2, <1>4, <1>6 DEF PageOK
<1>8. pa = (IF tp + h < li THEN tp + h ELSE li) /\ pa \in 0..li
  BY <1>4, <1>6, <1>7
<1>9. pl = (IF h < li - tp + 1 THEN h ELSE li - tp + 1) /\ pl \in Nat
  BY <1>6, <1>7 DEF Lesser
<1> HIDE DEF pl, tp, e
<1>10. e = [kind |-> "text", lines |-> li, page |-> pa, begin_reached |-> br,
             end_reached |-> er, page_length |-> pl, hscroll |-> hs, top |-> tp]
  BY <1>3, <1>5
<1>11. /\ e.lines = li /\ e.page = pa /\ e.top = tp /\ e.page_length = pl /\ e.end_reached = er
       /\ e = [kind |-> "text", lines |-> e.lines, page |-> e.page, begin_reached |-> e.begin_reached,
          end_reached |-> e.end_reached, page_length |-> e.page_length, hscroll |-> e.hscroll, top |-> e.top]
  BY <1>10
<1>12. \/ pl = 0 /\ pa = tp
       \/ er /\ pa = li /\ pl = li - tp + 1
       \/ ~er /\ pa = tp + pl
  <2>1. CASE h = 0
    BY <1>7, <1>8, <1>9, <2>1
  <2>2. CASE h # 0
    <3>1. er = (tp + h > li)
      BY <1>4, <1>6, <1>7, <2>2 DEF tp
    <3>2. CASE tp + h > li
      <4>1. er
        BY <3>1, <3>2
      <4>2. pa = li /\ pl = li - tp + 1
        BY <1>7, <1>8, <1>9, <3>2
      <4> QED
        BY <4>1, <4>2
    <3>3. CASE ~(tp + h > li)
      <4>1. ~er
        BY <3>1, <3>3
      <4>2. pa = tp + pl
        BY <1>7, <1>8, <1>9, <3>3
      <4> QED
        BY <4>1, <4>2
    <3> QED
      BY <3>2, <3>3
  <2> QED
    BY <2>1, <2>2
<1>13. TextOK(e)
  BY <1>7, <1>8, <1>9, <1>11, <1>12 DEF TextOK
<1> QED
  BY <1>13 DEF e

LEMMA TextIsPage ==
  ASSUME NEW b, TextOK(b)
  PROVE  PageOK(b) /\ text_vscroll(b) = b.top /\ text_vscroll(b) \in Nat
<1>1. PageOK(b)
  BY DEF TextOK, PageOK
<1> DEFINE n == b.page_length
           li == b.lines
           pa == b.page
           tp == b.top
<1>2. /\ li \in Nat /\ pa \in 0..li /\ tp \in 0..li /\ n \in Nat
      /\ \/ n = 0 /\ pa = tp
         \/ b.end_reached /\ pa = li /\ n = li - tp + 1
         \/ ~b.end_reached /\ pa = tp + n
  BY DEF TextOK
<1>3. text_vscroll(b) = back_lines(b, n).page
  BY DEF text_vscroll
<1>4. back_lines(b, n).page =
        LET back == IF b.end_reached /\ b.page = b.lines /\ n > 0 THEN n - 1 ELSE n
        IN IF back > b.page THEN 0 ELSE IF back > 0 THEN b.page - back ELSE b.page
  <2> HIDE DEF n
  <2> QED
    BY <1>1, <1>2, BackIs
<1>5. b.lines = li /\ b.page = pa /\ b.top = tp
  OBVIOUS
<1> HIDE DEF n, li, pa, tp
<1>6. back_lines(b, n).page = tp
  <2>1. CASE n = 0
    BY <1>2, <1>4, <1>5, <2>1
  <2>2. CASE n # 0
    BY <1>2, <1>4, <1>5, <2>2
  <2> QED
    BY <2>1, <2>2
<1> QED
  BY <1>1, <1>2, <1>3, <1>5, <1>6

LEMMA TextOpens ==
  ASSUME NEW lines \in Nat, NEW vscroll \in Nat, NEW hscroll, NEW h \in Nat, NEW u
  PROVE  TextOK(text_open(lines, vscroll, hscroll, h, u))
<1> DEFINE yes == TRUE
           no == FALSE
           t == [kind |-> "text", lines |-> lines, page |-> 0, begin_reached |-> yes, end_reached |-> no,
                 page_length |-> 0, hscroll |-> hscroll, top |-> 0]
           g == get_lines(t, vscroll)
           gb == [g EXCEPT !.begin_reached = no]
           s == IF vscroll = 0 THEN t ELSE gb
<1>1. text_open(lines, vscroll, hscroll, h, u) = print_page(s, h, u)
  BY DEF text_open
<1> HIDE DEF yes, no
<1>2. PageOK(t)
  BY DEF PageOK
<1> HIDE DEF t
<1>3. PageOK(g)
  BY <1>2, GetLinesIs
<1> HIDE DEF g
<1>4. PageOK(gb)
  <2>1. PICK li, pa, br, er, pl0, hs, to :
          g = [kind |-> "text", lines |-> li, page |-> pa, begin_reached |-> br,
               end_reached |-> er, page_length |-> pl0, hscroll |-> hs, top |-> to]
    BY <1>3 DEF PageOK
  <2>2. gb = [kind |-> "text", lines |-> li, page |-> pa, begin_reached |-> no,
               end_reached |-> er, page_length |-> pl0, hscroll |-> hs, top |-> to]
    BY <2>1
  <2>3. li \in Nat /\ pa \in 0..li
    BY <1>3, <2>1 DEF PageOK
  <2> HIDE DEF gb
  <2> QED
    BY <2>2, <2>3 DEF PageOK
<1> HIDE DEF gb
<1>5. PageOK(s)
  BY <1>2, <1>4
<1> HIDE DEF s
<1> QED
  BY <1>1, <1>5, PagePrinted

LEMMA TextResizes ==
  ASSUME NEW b, TextOK(b), NEW before \in Int, NEW h \in Nat, NEW u
  PROVE  TextOK(text_resized(b, before, h, u))
<1> DEFINE t == back_lines(b, before)
<1>1. PageOK(t)
  BY TextIsPage, BackIs
<1>2. text_resized(b, before, h, u) = print_page(t, h, u)
  BY DEF text_resized
<1> HIDE DEF t
<1> QED
  BY <1>1, <1>2, PagePrinted

LEMMA TextKeyed ==
  ASSUME NEW b, TextOK(b), NEW key \in TextKeys, NEW h \in Nat, NEW u
  PROVE  TextOK(text_key(b, key, h, u))
<1> DEFINE t == text_turned(b, key, h)
           n == b.page_length
<1>1. PageOK(b) /\ n \in Nat
  BY TextIsPage DEF TextOK
<1>2. PICK li, pa, br, er, pl, hs, to :
        b = [kind |-> "text", lines |-> li, page |-> pa, begin_reached |-> br,
             end_reached |-> er, page_length |-> pl, hscroll |-> hs, top |-> to]
  BY DEF TextOK
<1>3. b.lines = li /\ b.page = pa /\ b.hscroll = hs /\ li \in Nat /\ pa \in 0..li
  BY <1>1, <1>2 DEF PageOK
<1>4. ASSUME NEW q, NEW pa2 \in 0..li, NEW br2, NEW er2, NEW hs2,
             q = [kind |-> "text", lines |-> li, page |-> pa2, begin_reached |-> br2,
                  end_reached |-> er2, page_length |-> pl, hscroll |-> hs2, top |-> to]
      PROVE  PageOK(q)
  BY <1>3, <1>4 DEF PageOK
<1> DEFINE yes == TRUE
           no == FALSE
           zero == 0
           less == b.hscroll - 1
           more == b.hscroll + 1
           home1 == [b EXCEPT !.begin_reached = yes]
           home == [home1 EXCEPT !.page = zero]
           last1 == [b EXCEPT !.end_reached = yes]
           last == [last1 EXCEPT !.page = b.lines]
           next == [b EXCEPT !.begin_reached = no]
           lft  == [b EXCEPT !.hscroll = less]
           rgt  == [b EXCEPT !.hscroll = more]
<1>5. t = CASE key = "home"  -> home
            [] key = "end"   -> back_lines(last, h)
            [] key = "up"    -> back_lines(b, b.page_length + 1)
            [] key = "ppage" -> back_lines(b, b.page_length + h)
            [] key = "down"  -> back_lines(b, b.page_length - 1)
            [] key = "npage" -> next
            [] key = "left"  -> back_lines(lft, b.page_length)
            [] key = "right" -> back_lines(rgt, b.page_length)
  BY DEF text_turned
<1> HIDE DEF yes, no, less, more, zero
<1>6. PageOK(home) /\ PageOK(last) /\ PageOK(next) /\ PageOK(lft) /\ PageOK(rgt)
  <2>1. home = [kind |-> "text", lines |-> li, page |-> zero, begin_reached |-> yes,
                end_reached |-> er, page_length |-> pl, hscroll |-> hs, top |-> to]
    <3>1. home1 = [kind |-> "text", lines |-> li, page |-> pa, begin_reached |-> yes,
                   end_reached |-> er, page_length |-> pl, hscroll |-> hs, top |-> to]
      BY <1>2
    <3> HIDE DEF home1
    <3> QED
      BY <3>1
  <2>2. last = [kind |-> "text", lines |-> li, page |-> li, begin_reached |-> br,
                end_reached |-> yes, page_length |-> pl, hscroll |-> hs, top |-> to]
    <3>1. last1 = [kind |-> "text", lines |-> li, page |-> pa, begin_reached |-> br,
                   end_reached |-> yes, page_length |-> pl, hscroll |-> hs, top |-> to]
      BY <1>2
    <3> HIDE DEF last1
    <3> QED
      BY <1>3, <3>1
  <2>3. next = [kind |-> "text", lines |-> li, page |-> pa, begin_reached |-> no,
                end_reached |-> er, page_length |-> pl, hscroll |-> hs, top |-> to]
    BY <1>2
  <2>4. lft = [kind |-> "text", lines |-> li, page |-> pa, begin_reached |-> br,
                end_reached |-> er, page_length |-> pl, hscroll |-> less, top |-> to]
    BY <1>2
  <2>5. rgt = [kind |-> "text", lines |-> li, page |-> pa, begin_reached |-> br,
                end_reached |-> er, page_length |-> pl, hscroll |-> more, top |-> to]
    BY <1>2
  <2>6. zero \in 0..li /\ li \in 0..li
    BY <1>3 DEF zero
  <2> HIDE DEF home, last, next, lft, rgt
  <2> QED
    BY <1>3, <1>4, <2>1, <2>2, <2>3, <2>4, <2>5, <2>6
<1> HIDE DEF home, last, next, lft, rgt
<1>7. /\ PageOK(back_lines(last, h)) /\ PageOK(back_lines(b, n + 1)) /\ PageOK(back_lines(b, n + h))
      /\ PageOK(back_lines(b, n - 1)) /\ PageOK(back_lines(lft, n)) /\ PageOK(back_lines(rgt, n))
  <2>1. n \in Int /\ n + 1 \in Int /\ n + h \in Int /\ n - 1 \in Int
    BY <1>1
  <2> HIDE DEF n
  <2> QED
    BY <1>1, <1>6, <2>1, BackIs
<1> HIDE DEF t
<1>8. PageOK(t)
  <2>1. key = "home" => t = home
    BY <1>5
  <2>2. key = "end" => t = back_lines(last, h)
    BY <1>5
  <2>3. key = "up" => t = back_lines(b, n + 1)
    BY <1>5
  <2>4. key = "ppage" => t = back_lines(b, n + h)
    BY <1>5
  <2>5. key = "down" => t = back_lines(b, n - 1)
    BY <1>5
  <2>6. key = "npage" => t = next
    BY <1>5
  <2>7. key = "left" => t = back_lines(lft, n)
    BY <1>5
  <2>8. key = "right" => t = back_lines(rgt, n)
    BY <1>5
  <2>9. key = "home" \/ key = "end" \/ key = "up" \/ key = "ppage" \/ key = "down" \/ key = "npage"
        \/ key = "left" \/ key = "right"
    BY DEF TextKeys
  <2> HIDE DEF n
  <2> QED
    BY <1>6, <1>7, <2>1, <2>2, <2>3, <2>4, <2>5, <2>6, <2>7, <2>8, <2>9
<1>9. TextOK(print_page(t, h, u))
  BY <1>8, PagePrinted
<1>10. text_key(b, key, h, u) = b \/ text_key(b, key, h, u) = print_page(t, h, u)
  BY DEF text_key, t
<1> QED
  BY <1>9, <1>10

(* An input: the cursor stands on its position.                              *)
InputOK(b) ==
  /\ b = [kind |-> "input", len |-> b.len, pos |-> b.pos, show_x |-> b.show_x, input_x |-> b.input_x,
          button |-> b.button, edited |-> b.edited]
  /\ b.len \in Nat /\ b.show_x \in Nat /\ b.button \in -1..1
  /\ CursorOnPosition(b)

LEMMA InputIs ==
  ASSUME NEW b, NEW len \in Nat, NEW pos, NEW show_x \in Int, NEW input_x \in Int, NEW button \in -1..1, NEW edited,
         b = [kind |-> "input", len |-> len, pos |-> pos, show_x |-> show_x, input_x |-> input_x,
              button |-> button, edited |-> edited],
         pos \in 0..len, show_x >= 0, input_x \in 0..(BoxWidth - 1), show_x + input_x = pos
  PROVE  InputOK(b)
<1>1. /\ b.len = len /\ b.pos = pos /\ b.show_x = show_x /\ b.input_x = input_x /\ b.button = button
      /\ b = [kind |-> "input", len |-> b.len, pos |-> b.pos, show_x |-> b.show_x, input_x |-> b.input_x,
              button |-> b.button, edited |-> b.edited]
  OBVIOUS
<1> QED
  BY <1>1 DEF InputOK, CursorOnPosition

LEMMA InputDrawn ==
  ASSUME NEW len \in Nat, NEW button \in -1..1, NEW edited
  PROVE  InputOK(input_drawn(len, button, edited))
<1> DEFINE hidden == IF len >= BoxWidth THEN len - BoxWidth + 1 ELSE 0
           col == len - hidden
           b == input_drawn(len, button, edited)
<1>1. b = [kind |-> "input", len |-> len, pos |-> len, show_x |-> hidden, input_x |-> col,
           button |-> button, edited |-> edited]
  BY DEF input_drawn
<1>2. BoxWidth \in Nat /\ BoxWidth >= 1
  BY MenuAssumption
<1>3. hidden \in Nat /\ col \in 0..(BoxWidth - 1) /\ hidden + col = len /\ len \in 0..len
  BY <1>2
<1> HIDE DEF hidden, col, b
<1>4. InputOK(b)
  BY <1>1, <1>2, <1>3, InputIs
<1> QED
  BY <1>4 DEF b

LEMMA InputKeyed ==
  ASSUME NEW b, InputOK(b), NEW key
  PROVE  InputOK(input_key(b, key))
<1>1. PICK len, pos, sx, ix, bu, ed :
        b = [kind |-> "input", len |-> len, pos |-> pos, show_x |-> sx, input_x |-> ix,
             button |-> bu, edited |-> ed]
  BY DEF InputOK
<1>2. b.len = len /\ b.pos = pos /\ b.show_x = sx /\ b.input_x = ix /\ b.button = bu
  BY <1>1
<1>3. /\ len \in Nat /\ sx \in Nat /\ bu \in -1..1 /\ pos \in 0..len
      /\ ix \in 0..(BoxWidth - 1) /\ sx + ix = pos
  BY <1>2 DEF InputOK, CursorOnPosition
<1>4. BoxWidth \in Nat /\ BoxWidth >= 1 /\ MaxLength \in Nat
  BY MenuAssumption
<1> DEFINE yes == TRUE
<1> HIDE DEF yes
<1>5. ASSUME pos > 0 PROVE InputOK(input_backspace(b))
  <2> DEFINE sx2 == IF ix = 0 THEN sx - 1 ELSE sx
             ix2 == IF ix = 0 THEN 0 ELSE ix - 1
             pos2 == pos - 1
             len2 == len - 1
             e == input_backspace(b)
  <2>1. sx2 \in Int /\ sx2 >= 0 /\ ix2 \in 0..(BoxWidth - 1) /\ pos2 \in 0..len2 /\ len2 \in Nat /\ sx2 + ix2 = pos2
    BY <1>3, <1>4, <1>5
  <2>2. e = [[[[[b EXCEPT !.show_x = sx2] EXCEPT !.input_x = ix2] EXCEPT !.pos = pos2] EXCEPT !.len = len2]
               EXCEPT !.edited = yes]
    BY <1>2 DEF input_backspace, yes
  <2> HIDE DEF sx2, ix2, pos2, len2, e
  <2>3. e = [kind |-> "input", len |-> len2, pos |-> pos2, show_x |-> sx2, input_x |-> ix2,
             button |-> bu, edited |-> yes]
    BY <1>1, <2>2
  <2>4. InputOK(e)
    BY <1>3, <2>1, <2>3, InputIs
  <2> QED
    BY <2>4 DEF e
<1>6. ASSUME pos > 0 PROVE InputOK(input_left(b))
  <2> DEFINE ix2 == IF ix > 0 THEN ix - 1 ELSE 0
             sx2 == IF ix > 0 THEN sx ELSE sx - 1
             pos2 == pos - 1
             e == input_left(b)
  <2>1. sx2 \in Int /\ sx2 >= 0 /\ ix2 \in 0..(BoxWidth - 1) /\ pos2 \in 0..len /\ sx2 + ix2 = pos2
    BY <1>3, <1>4, <1>6
  <2>2. e = [[[b EXCEPT !.input_x = ix2] EXCEPT !.show_x = sx2] EXCEPT !.pos = pos2]
    BY <1>2 DEF input_left
  <2> HIDE DEF sx2, ix2, pos2, e
  <2>3. e = [kind |-> "input", len |-> len, pos |-> pos2, show_x |-> sx2, input_x |-> ix2,
             button |-> bu, edited |-> ed]
    BY <1>1, <2>2
  <2>4. InputOK(e)
    BY <1>3, <2>1, <2>3, InputIs
  <2> QED
    BY <2>4 DEF e
<1>7. ASSUME NEW c, NEW n \in Nat, NEW ed2,
             c = [kind |-> "input", len |-> n, pos |-> pos, show_x |-> sx, input_x |-> ix,
                  button |-> bu, edited |-> ed2],
             pos < n
      PROVE  InputOK(input_forward(c))
  <2> DEFINE ix2 == IF ix < BoxWidth - 1 THEN ix + 1 ELSE ix
             sx2 == IF ix < BoxWidth - 1 THEN sx ELSE sx + 1
             pos2 == pos + 1
             e == input_forward(c)
  <2>1. sx2 \in Int /\ sx2 >= 0 /\ ix2 \in 0..(BoxWidth - 1) /\ pos2 \in 0..n /\ sx2 + ix2 = pos2
    BY <1>3, <1>4, <1>7
  <2>2. e = [[[c EXCEPT !.input_x = ix2] EXCEPT !.show_x = sx2] EXCEPT !.pos = pos2]
    <3>1. c.input_x = ix /\ c.show_x = sx /\ c.pos = pos
      BY <1>7
    <3> QED
      BY <3>1 DEF input_forward
  <2> HIDE DEF sx2, ix2, pos2, e
  <2>3. e = [kind |-> "input", len |-> n, pos |-> pos2, show_x |-> sx2, input_x |-> ix2,
             button |-> bu, edited |-> ed2]
    BY <1>7, <2>2
  <2>4. InputOK(e)
    BY <1>3, <2>1, <2>3, InputIs
  <2> QED
    BY <2>4 DEF e
<1>8. ASSUME pos < len PROVE InputOK(input_forward(b))
  BY <1>1, <1>3, <1>7, <1>8
<1> DEFINE more == len + 1
           c == [[b EXCEPT !.len = more] EXCEPT !.edited = yes]
<1>9. InputOK(input_forward(c))
  <2>1. more \in Nat /\ pos < more
    BY <1>3
  <2> HIDE DEF more
  <2>2. c = [kind |-> "input", len |-> more, pos |-> pos, show_x |-> sx, input_x |-> ix,
             button |-> bu, edited |-> yes]
    <3> DEFINE d == [b EXCEPT !.len = more]
    <3>1. d = [kind |-> "input", len |-> more, pos |-> pos, show_x |-> sx, input_x |-> ix,
               button |-> bu, edited |-> ed]
      BY <1>1
    <3>2. c = [d EXCEPT !.edited = yes]
      OBVIOUS
    <3> HIDE DEF d, c
    <3> QED
      BY <3>1, <3>2
  <2> HIDE DEF c
  <2> QED
    BY <1>7, <2>1, <2>2
<1> DEFINE way == IF key = "up" THEN "left" ELSE key
           bu2 == NextButton(bu + 1, way, 2) - 1
           f == [b EXCEPT !.button = bu2]
<1>10. InputOK(f)
  <2>1. bu2 \in -1..1
    BY <1>3 DEF NextButton
  <2> HIDE DEF bu2
  <2>2. f = [kind |-> "input", len |-> len, pos |-> pos, show_x |-> sx, input_x |-> ix,
             button |-> bu2, edited |-> ed]
    BY <1>1
  <2> HIDE DEF f
  <2> QED
    BY <1>3, <1>4, <2>1, <2>2, InputIs
<1> DEFINE inside == bu = -1
           e == input_key(b, key)
<1>11. e = CASE inside /\ key = "backspace" -> IF pos > 0 THEN input_backspace(b) ELSE b
             [] inside /\ key = "left"  -> IF pos > 0 THEN input_left(b) ELSE b
             [] inside /\ key = "right" -> IF pos < len THEN input_forward(b) ELSE b
             [] inside /\ key = "char"  -> IF len < MaxLength THEN input_forward(c) ELSE b
             [] key \in {"up", "down"} \/ (~inside /\ key \in {"left", "right"}) -> f
             [] OTHER -> b
  BY <1>2 DEF input_key, yes
<1> HIDE DEF inside, c, f, e
<1>12. InputOK(e)
  <2>1. CASE inside /\ key = "backspace"
    BY <1>5, <1>11, <2>1
  <2>2. CASE inside /\ key = "left"
    BY <1>6, <1>11, <2>2
  <2>3. CASE inside /\ key = "right"
    BY <1>8, <1>11, <2>3
  <2>4. CASE inside /\ key = "char"
    BY <1>9, <1>11, <2>4
  <2>5. CASE key \in {"up", "down"} \/ (~inside /\ key \in {"left", "right"})
    BY <1>10, <1>11, <2>5
  <2>6. CASE /\ ~(inside /\ key \in {"backspace", "left", "right", "char"})
             /\ ~(key \in {"up", "down"} \/ (~inside /\ key \in {"left", "right"}))
    BY <1>11, <2>6
  <2> QED
    BY <2>1, <2>2, <2>3, <2>4, <2>5, <2>6
<1> QED
  BY <1>12 DEF e

(* Yes or no.                                                               *)
YesnoOK(b) == b = [kind |-> "yesno", button |-> b.button] /\ b.button \in {0, 1}

LEMMA YesnoKeyed ==
  ASSUME NEW b, YesnoOK(b), NEW key
  PROVE  YesnoOK(yesno_key(b, key))
<1>1. PICK bu \in {0, 1} : b = [kind |-> "yesno", button |-> bu]
  BY DEF YesnoOK
<1> DEFINE bu2 == NextButton(bu, key, 1)
           e == yesno_key(b, key)
<1>2. bu2 \in {0, 1}
  BY <1>1 DEF NextButton
<1>3. b.button = bu
  BY <1>1
<1>4. e = [b EXCEPT !.button = bu2]
  BY <1>3 DEF yesno_key
<1> HIDE DEF bu2, e
<1>5. e = [kind |-> "yesno", button |-> bu2]
  BY <1>1, <1>4
<1>6. YesnoOK(e)
  BY <1>2, <1>5 DEF YesnoOK
<1> QED
  BY <1>6 DEF e

-----------------------------------------------------------------------------
(* The stack of calls: a dialog that waits is in order, and those of the     *)
(* functions further down are not shown.                                     *)

TextIds == {"setmod", "readme", "help", "invalid", "no_file", "saved", "no_save"}
InputKinds == {"string", "search", "load", "save"}
TextKinds == {"text", "found"}

FrameOK(f) ==
  /\ f = [kind |-> f.kind, id |-> f.id, active |-> f.active, scroll |-> f.scroll, box |-> f.box]
  /\ f.kind \in {"conf", "choice", "exit"} \cup TextKinds \cup InputKinds
  /\ f.scroll \in Nat
  /\ f.kind = "text" => f.id \in TextIds
  /\ f.kind = "found" => f.id \in Typed["search"]

DialogOK(kind, b, r) ==
  /\ kind = "conf" => r >= 15 /\ MenuOK(b, r)
  /\ kind = "choice" => CheckOK(b)
  /\ kind \in TextKinds => r >= 8 /\ TextOK(b)
  /\ kind = "exit" => YesnoOK(b)
  /\ kind \in InputKinds => InputOK(b)

BoxOK(kind, b, r) == b = NotShown \/ b = TooSmall \/ DialogOK(kind, b, r)

StackOK(s, r) ==
  /\ Listing(s)
  /\ \A i \in DOMAIN s : FrameOK(s[i]) /\ (i # Len(s) => s[i].box = NotShown)
  /\ s # <<>> => BoxOK(Last(s).kind, Last(s).box, r)

LEMMA StackIs ==
  ASSUME NEW s, NEW r, StackOK(s, r), s # <<>>
  PROVE  /\ Len(s) \in Nat /\ Len(s) >= 1 /\ DOMAIN s = 1..Len(s) /\ s \in Seq(Range(s))
         /\ Last(s) = s[Len(s)] /\ FrameOK(Last(s)) /\ BoxOK(Last(s).kind, Last(s).box, r)
<1>1. Len(s) \in Nat /\ DOMAIN s = 1..Len(s) /\ s \in Seq(Range(s))
  BY ListingIs DEF StackOK, Listing
<1>2. Len(s) >= 1
  BY <1>1
<1> QED
  BY <1>1, <1>2 DEF StackOK, Last

LEMMA StackPut ==
  ASSUME NEW s, NEW r, StackOK(s, r), s # <<>>, NEW g, FrameOK(g), NEW r2, BoxOK(g.kind, g.box, r2)
  PROVE  LET t == [s EXCEPT ![Len(s)] = g]
         IN StackOK(t, r2) /\ t # <<>> /\ Len(t) = Len(s) /\ Last(t) = g
<1> DEFINE t == [s EXCEPT ![Len(s)] = g]
           n == Len(s)
           X == Range(s) \cup {g}
<1>1. n \in Nat /\ n >= 1 /\ DOMAIN s = 1..n /\ s \in Seq(Range(s))
  BY StackIs
<1>2. s \in Seq(X) /\ g \in X
  BY <1>1
<1>3. t \in Seq(X) /\ Len(t) = n /\ DOMAIN t = 1..n /\ \A i \in 1..n : t[i] = IF i = n THEN g ELSE s[i]
  <2> HIDE DEF X
  <2> QED
    BY <1>1, <1>2
<1> HIDE DEF t, n, X
<1>4. Listing(t) /\ t # <<>>
  <2>1. t \in Seq(Range(t))
    BY <1>3 DEF Range
  <2> QED
    BY <1>1, <1>3, <2>1 DEF Listing
<1>5. Last(t) = g
  BY <1>1, <1>3 DEF Last
<1>6. \A i \in DOMAIN t : FrameOK(t[i]) /\ (i # Len(t) => t[i].box = NotShown)
  BY <1>1, <1>3 DEF StackOK, n
<1>7. StackOK(t, r2)
  BY <1>4, <1>5, <1>6 DEF StackOK
<1> QED
  BY <1>3, <1>4, <1>5, <1>7 DEF t, n

LEMMA StackPop ==
  ASSUME NEW s, NEW r, StackOK(s, r), s # <<>>, NEW r2
  PROVE  StackOK(Below(s), r2) /\ (Below(s) # <<>> => Last(Below(s)).box = NotShown)
<1> DEFINE t == Below(s)
           n == Len(s)
<1>1. n \in Nat /\ n >= 1 /\ DOMAIN s = 1..n /\ s \in Seq(Range(s))
  BY StackIs
<1>2. Front(s) = SubSeq(s, 1, n - 1)
  BY DEF Front
<1>3. t = [i \in 1..(n - 1) |-> s[i]]
  BY <1>1, <1>2 DEF Below
<1>4. t \in Seq(Range(s)) /\ Len(t) = n - 1 /\ DOMAIN t = 1..(n - 1)
  <2> DEFINE k == n - 1
  <2>1. k \in Nat /\ \A i \in 1..k : s[i] \in Range(s)
    BY <1>1 DEF Range
  <2>2. t = [i \in 1..k |-> s[i]]
    BY <1>3
  <2> HIDE DEF k, t, n
  <2> QED
    BY <2>1, <2>2 DEF k
<1> HIDE DEF t, n
<1>5. Listing(t)
  BY <1>1, <1>3, <1>4 DEF Listing, Range
<1>6. \A i \in DOMAIN t : FrameOK(t[i]) /\ t[i].box = NotShown
  <2>1. \A i \in 1..(n - 1) : i \in 1..n /\ i # n
    BY <1>1
  <2> QED
    BY <1>1, <1>3, <1>4, <2>1 DEF StackOK, n
<1>7. t # <<>> => Len(t) \in DOMAIN t
  BY <1>1, <1>4
<1>8. t # <<>> => Last(t).box = NotShown
  BY <1>6, <1>7 DEF Last
<1>9. StackOK(t, r2)
  BY <1>5, <1>6, <1>8 DEF StackOK, BoxOK
<1> QED
  BY <1>8, <1>9 DEF t

LEMMA StackPush ==
  ASSUME NEW s, NEW r, StackOK(s, r), s # <<>> => Last(s).box = NotShown,
         NEW g, FrameOK(g), g.box = NotShown
  PROVE  StackOK(Append(s, g), r)
<1> DEFINE t == Append(s, g)
           n == Len(s)
           m == n + 1
           X == Range(s) \cup {g}
<1>1. n \in Nat /\ DOMAIN s = 1..n /\ s \in Seq(Range(s))
  BY ListingIs DEF StackOK, Listing
<1>2. s \in Seq(X) /\ g \in X
  BY <1>1
<1>3. t \in Seq(X) /\ Len(t) = m /\ DOMAIN t = 1..m /\ \A i \in 1..m : t[i] = IF i = m THEN g ELSE s[i]
  <2> HIDE DEF X
  <2> QED
    BY <1>1, <1>2
<1>4. m \in Nat /\ m >= 1
  BY <1>1
<1>5. \A i \in 1..n : s[i].box = NotShown
  <2> TAKE i \in 1..n
  <2>1. s # <<>>
    BY <1>1
  <2>2. CASE i = n
    BY <2>1, <2>2 DEF Last
  <2>3. CASE i # n
    BY <1>1, <2>3 DEF StackOK
  <2> QED
    BY <2>2, <2>3
<1>6. \A i \in 1..n : FrameOK(s[i])
  BY <1>1 DEF StackOK
<1>7. \A i \in 1..m : i = m \/ i \in 1..n
  BY <1>1
<1> HIDE DEF t, n, m, X
<1>8. Listing(t) /\ t # <<>>
  <2>1. t \in Seq(Range(t))
    BY <1>3 DEF Range
  <2> QED
    BY <1>3, <1>4, <2>1 DEF Listing
<1>9. Last(t) = g
  BY <1>3, <1>4 DEF Last
<1>10. \A i \in DOMAIN t : FrameOK(t[i]) /\ t[i].box = NotShown
  <2> SUFFICES ASSUME NEW i \in 1..m PROVE FrameOK(t[i]) /\ t[i].box = NotShown
    BY <1>3
  <2>1. CASE i = m
    BY <1>3, <2>1
  <2>2. CASE i # m
    BY <1>3, <1>5, <1>6, <1>7, <2>2
  <2> QED
    BY <2>1, <2>2
<1>11. StackOK(t, r)
  BY <1>8, <1>9, <1>10 DEF StackOK, BoxOK
<1> QED
  BY <1>11 DEF t

LEMMA FrameIs ==
  ASSUME NEW kind \in {"conf", "choice", "exit"} \cup TextKinds \cup InputKinds, NEW id, NEW active,
         kind = "text" => id \in TextIds, kind = "found" => id \in Typed["search"]
  PROVE  FrameOK(frame(kind, id, active)) /\ frame(kind, id, active).box = NotShown
<1> DEFINE f == frame(kind, id, active)
           hidden == NotShown
<1>1. f = [kind |-> kind, id |-> id, active |-> active, scroll |-> 0, box |-> hidden]
  BY DEF frame
<1> HIDE DEF f, hidden
<1>2. /\ f.kind = kind /\ f.id = id /\ f.scroll = 0 /\ f.box = hidden
      /\ f = [kind |-> f.kind, id |-> f.id, active |-> f.active, scroll |-> f.scroll, box |-> f.box]
  BY <1>1
<1>3. FrameOK(f)
  BY <1>2 DEF FrameOK
<1> QED
  BY <1>2, <1>3 DEF f, hidden

(* A frame some fields of which are given new values.                        *)
Reframed(g, f, ac, sc, bx) == g = [kind |-> f.kind, id |-> f.id, active |-> ac, scroll |-> sc, box |-> bx]

LEMMA FrameFields ==
  ASSUME NEW f, FrameOK(f), NEW ac, NEW sc \in Nat, NEW bx, NEW g,
         Reframed(g, f, ac, sc, bx)
  PROVE  FrameOK(g) /\ g.kind = f.kind /\ g.box = bx
<1>1. /\ g.kind = f.kind /\ g.id = f.id /\ g.scroll = sc /\ g.box = bx
      /\ g = [kind |-> g.kind, id |-> g.id, active |-> g.active, scroll |-> g.scroll, box |-> g.box]
  BY DEF Reframed
<1> QED
  BY <1>1 DEF FrameOK

LEMMA FrameBox ==
  ASSUME NEW f, FrameOK(f), NEW x
  PROVE  LET g == [f EXCEPT !.box = x] IN FrameOK(g) /\ g.kind = f.kind /\ g.box = x
<1> DEFINE g == [f EXCEPT !.box = x]
           ac == f.active
           sc == f.scroll
           bx == x
<1>1. Reframed(g, f, ac, sc, bx)
  <2>1. f = [kind |-> f.kind, id |-> f.id, active |-> f.active, scroll |-> f.scroll, box |-> f.box]
    BY DEF FrameOK
  <2> QED
    BY <2>1 DEF Reframed
<1>2. sc \in Nat
  BY DEF FrameOK
<1> HIDE DEF g, ac, sc, bx
<1>3. FrameOK(g) /\ g.kind = f.kind /\ g.box = bx
  BY <1>1, <1>2, FrameFields
<1> QED
  BY <1>3 DEF g, bx

LEMMA FrameActive ==
  ASSUME NEW f, FrameOK(f), NEW x
  PROVE  LET g == [f EXCEPT !.active = x] IN FrameOK(g) /\ g.kind = f.kind /\ g.box = f.box
<1> DEFINE g == [f EXCEPT !.active = x]
           ac == x
           sc == f.scroll
           bx == f.box
<1>1. Reframed(g, f, ac, sc, bx)
  <2>1. f = [kind |-> f.kind, id |-> f.id, active |-> f.active, scroll |-> f.scroll, box |-> f.box]
    BY DEF FrameOK
  <2> QED
    BY <2>1 DEF Reframed
<1>2. sc \in Nat
  BY DEF FrameOK
<1> HIDE DEF g, ac, sc, bx
<1>3. FrameOK(g) /\ g.kind = f.kind /\ g.box = bx
  BY <1>1, <1>2, FrameFields
<1> QED
  BY <1>3 DEF g, bx

LEMMA FrameScroll ==
  ASSUME NEW f, FrameOK(f), NEW k \in Nat
  PROVE  LET g == [f EXCEPT !.scroll = k] IN FrameOK(g) /\ g.kind = f.kind /\ g.box = f.box
<1> DEFINE g == [f EXCEPT !.scroll = k]
           ac == f.active
           sc == k
           bx == f.box
<1>1. Reframed(g, f, ac, sc, bx)
  <2>1. f = [kind |-> f.kind, id |-> f.id, active |-> f.active, scroll |-> f.scroll, box |-> f.box]
    BY DEF FrameOK
  <2> QED
    BY <2>1 DEF Reframed
<1>2. sc \in Nat
  OBVIOUS
<1> HIDE DEF g, ac, sc, bx
<1>3. FrameOK(g) /\ g.kind = f.kind /\ g.box = bx
  BY <1>1, <1>2, FrameFields
<1> QED
  BY <1>3 DEF g, bx

LEMMA BoxPut ==
  ASSUME NEW s, NEW r, StackOK(s, r), s # <<>>, NEW x, NEW r2, BoxOK(Last(s).kind, x, r2)
  PROVE  LET t == [s EXCEPT ![Len(s)].box = x]
         IN StackOK(t, r2) /\ t # <<>> /\ Len(t) = Len(s) /\ Last(t).box = x
<1> DEFINE f == Last(s)
           g == [f EXCEPT !.box = x]
           t == [s EXCEPT ![Len(s)] = g]
<1>1. FrameOK(f) /\ s[Len(s)] = f
  BY StackIs
<1>2. [s EXCEPT ![Len(s)].box = x] = t
  BY <1>1
<1> HIDE DEF f
<1>3. FrameOK(g) /\ g.box = x /\ g.kind = f.kind
  BY <1>1, FrameBox
<1>4. BoxOK(g.kind, g.box, r2)
  BY <1>3 DEF f
<1> HIDE DEF g
<1>5. StackOK(t, r2) /\ t # <<>> /\ Len(t) = Len(s) /\ Last(t) = g
  BY <1>3, <1>4, StackPut
<1> QED
  BY <1>2, <1>3, <1>5

LEMMA AgainIs ==
  ASSUME NEW s, NEW r, StackOK(s, r), s # <<>>, NEW r2
  PROVE  StackOK(Again(s), r2) /\ Again(s) # <<>> /\ Last(Again(s)).box = NotShown
<1> DEFINE x == NotShown
<1>1. BoxOK(Last(s).kind, x, r2)
  BY DEF BoxOK
<1>2. Again(s) = [s EXCEPT ![Len(s)].box = x]
  BY DEF Again
<1> HIDE DEF x
<1> DEFINE t == [s EXCEPT ![Len(s)].box = x]
<1>4. StackOK(t, r2) /\ t # <<>> /\ Last(t).box = x
  BY <1>1, BoxPut
<1> HIDE DEF t
<1>3. StackOK(Again(s), r2) /\ Again(s) # <<>> /\ Last(Again(s)).box = x
  BY <1>2, <1>4 DEF t
<1> QED
  BY <1>3 DEF x

LEMMA ActivePut ==
  ASSUME NEW s, NEW r, StackOK(s, r), s # <<>>, NEW x
  PROVE  LET t == [s EXCEPT ![Len(s)].active = x] IN StackOK(t, r) /\ t # <<>> /\ Len(t) = Len(s)
<1> DEFINE f == Last(s)
           g == [f EXCEPT !.active = x]
           t == [s EXCEPT ![Len(s)] = g]
<1>1. FrameOK(f) /\ s[Len(s)] = f /\ BoxOK(f.kind, f.box, r)
  BY StackIs
<1>2. [s EXCEPT ![Len(s)].active = x] = t
  BY <1>1
<1> HIDE DEF f
<1>3. FrameOK(g) /\ g.box = f.box /\ g.kind = f.kind
  BY <1>1, FrameActive
<1>4. BoxOK(g.kind, g.box, r)
  BY <1>1, <1>3
<1> HIDE DEF g
<1>5. StackOK(t, r) /\ t # <<>> /\ Len(t) = Len(s)
  BY <1>3, <1>4, StackPut
<1> QED
  BY <1>2, <1>5

LEMMA ScrollPut ==
  ASSUME NEW s, NEW r, StackOK(s, r), s # <<>>, NEW k \in Nat
  PROVE  LET t == [s EXCEPT ![Len(s)].scroll = k] IN StackOK(t, r) /\ t # <<>> /\ Len(t) = Len(s)
<1> DEFINE f == Last(s)
           g == [f EXCEPT !.scroll = k]
           t == [s EXCEPT ![Len(s)] = g]
<1>1. FrameOK(f) /\ s[Len(s)] = f /\ BoxOK(f.kind, f.box, r)
  BY StackIs
<1>2. [s EXCEPT ![Len(s)].scroll = k] = t
  BY <1>1
<1> HIDE DEF f
<1>3. FrameOK(g) /\ g.box = f.box /\ g.kind = f.kind
  BY <1>1, FrameScroll
<1>4. BoxOK(g.kind, g.box, r)
  BY <1>1, <1>3
<1> HIDE DEF g
<1>5. StackOK(t, r) /\ t # <<>> /\ Len(t) = Len(s)
  BY <1>3, <1>4, StackPut
<1> QED
  BY <1>2, <1>5

(* A function called again, or one it calls on top of it.                    *)
LEMMA CallIs ==
  ASSUME NEW s, NEW r, StackOK(s, r), s # <<>>, NEW g, FrameOK(g), g.box = NotShown
  PROVE  StackOK(Call(s, g), r)
<1> DEFINE t == Again(s)
<1>1. StackOK(t, r) /\ Last(t).box = NotShown
  BY AgainIs
<1> HIDE DEF t
<1>2. StackOK(Append(t, g), r)
  BY <1>1, StackPush
<1> QED
  BY <1>2 DEF Call, t

LEMMA RememberedIs ==
  ASSUME StackOK(stack, rows), Waits({"conf"}), Top(stack).box.items # <<>>
  PROVE  /\ StackOK(Remembered, rows) /\ Remembered # <<>> /\ Last(Remembered).box = NotShown
         /\ \A g : FrameOK(g) /\ g.box = NotShown => StackOK(Append(Remembered, g), rows)
<1> DEFINE s == stack
           n == Len(s)
           x == Marked.data
           k == Top(s).box.scroll
           t == [s EXCEPT ![n].active = x]
           q == [t EXCEPT ![Len(t)].scroll = k]
           w == Again(q)
<1>1. s # <<>> /\ Last(s).kind = "conf" /\ Last(s).box # NotShown /\ Last(s).box # TooSmall
  BY DEF Waits, Waiting, Top
<1>2. DialogOK("conf", Last(s).box, rows)
  <2>1. BoxOK(Last(s).kind, Last(s).box, rows)
    BY <1>1, StackIs
  <2> QED
    BY <1>1, <2>1 DEF BoxOK
<1>3. k \in Nat
  BY <1>2 DEF DialogOK, MenuOK, Shown, Top
<1> HIDE DEF x, k
<1>4. StackOK(t, rows) /\ t # <<>> /\ Len(t) = n
  BY <1>1, ActivePut
<1>5. [s EXCEPT ![n].active = x, ![n].scroll = k] = [t EXCEPT ![n].scroll = k]
  OBVIOUS
<1>6. Remembered = Again([s EXCEPT ![n].active = x, ![n].scroll = k])
  BY DEF Remembered, x, k
<1>7. Remembered = w
  BY <1>4, <1>5, <1>6
<1> HIDE DEF t, n
<1>8. StackOK(q, rows) /\ q # <<>>
  BY <1>3, <1>4, ScrollPut
<1> HIDE DEF q
<1>9. StackOK(w, rows) /\ w # <<>> /\ Last(w).box = NotShown
  BY <1>8, AgainIs
<1> HIDE DEF w
<1>10. ASSUME NEW g, FrameOK(g), g.box = NotShown PROVE StackOK(Append(w, g), rows)
  BY <1>9, <1>10, StackPush
<1> QED
  BY <1>7, <1>9, <1>10

-----------------------------------------------------------------------------
(* What is shown is a list.                                                  *)

LEMMA ListOver ==
  ASSUME NEW list, Listing(list), NEW t, t = [i \in DOMAIN list |-> t[i]]
  PROVE  Listing(t)
<1> DEFINE n == Len(list)
<1>1. n \in Nat /\ DOMAIN list = 1..n
  BY ListingIs
<1> HIDE DEF n
<1>2. t = [i \in 1..n |-> t[i]]
  BY <1>1
<1>3. \A i \in 1..n : t[i] \in Range(t)
  BY <1>2 DEF Range
<1>4. t \in Seq(Range(t))
  BY <1>1, <1>2, <1>3, SeqDef
<1> QED
  BY <1>4 DEF Listing

LEMMA MenusAreLists ==
  ASSUME table = Parsed, NEW id, NEW values, NEW all, NEW active
  PROVE  Listing(build_conf(id, values, all)) /\ Listing(choice_items(id, active, values))
<1>1. Listing(table.tree)
  BY MenuAssumption DEF IsList, Listing
<1>2. Listing(build_conf(id, values, all))
  <2> DEFINE list == Those(table.tree, Listed(id, values, all))
             e(i) == item_make(HotOf[list[i].id], Tag(list[i], id, values), list[i].id)
             t == [i \in DOMAIN list |-> e(i)]
  <2>1. Listing(list)
    BY <1>1, ThoseIs
  <2>2. build_conf(id, values, all) = t
    BY DEF build_conf
  <2> HIDE DEF list, e
  <2>3. t = [i \in DOMAIN list |-> t[i]]
    OBVIOUS
  <2> HIDE DEF t
  <2> QED
    BY <2>1, <2>2, <2>3, ListOver
<1>3. Listing(choice_items(id, active, values))
  <2> DEFINE list == Those(table.tree, {m \in Children(id) : Visible(m, values)})
             tag(m) == IF m \in chosen(EntryOf(id), values) THEN ChosenTag ELSE Empty
             e(i) == [item_make(HotOf[list[i].id], tag(list[i]), list[i].id)
                        EXCEPT !.selected = (list[i].sym = active)]
             t == [i \in DOMAIN list |-> e(i)]
  <2>1. Listing(list)
    BY <1>1, ThoseIs
  <2>2. choice_items(id, active, values) = t
    BY DEF choice_items
  <2> HIDE DEF list, e
  <2>3. t = [i \in DOMAIN list |-> t[i]]
    OBVIOUS
  <2> HIDE DEF t
  <2> QED
    BY <2>1, <2>2, <2>3, ListOver
<1> QED
  BY <1>2, <1>3

LEMMA TextsHaveLines ==
  /\ \A id \in TextIds : TextLines[id] \in Nat
  /\ \A query \in Typed["search"] : \A values : get_relations(query, values).lines \in Nat
  /\ \A t : Length(t) \in Nat
  /\ \A f : \A r \in Nat : r >= 8 => text_height(f, r) \in Nat
<1>1. \A id \in TextIds : TextLines[id] \in Nat
  BY MenuAssumption DEF TextIds
<1>2. ASSUME NEW query \in Typed["search"], NEW values PROVE get_relations(query, values).lines \in Nat
  <2> DEFINE n == Len(FoundBy[query])
             k == LinesPerSymbol * n
  <2>1. FoundBy[query] \in Seq(Range(FoundBy[query]))
    BY MenuAssumption DEF IsList
  <2>2. n \in Nat /\ LinesPerSymbol \in Nat
    BY <2>1, MenuAssumption
  <2> HIDE DEF n
  <2>3. k \in Nat
    BY <2>2
  <2>4. get_relations(query, values).lines = Greater(1, k)
    BY DEF get_relations, n
  <2> HIDE DEF k
  <2> QED
    BY <2>3, <2>4 DEF Greater
<1>3. \A t : Length(t) \in Nat
  BY MenuAssumption DEF Length
<1>4. \A f : \A r \in Nat : r >= 8 => text_height(f, r) \in Nat
  BY DEF text_height
<1> QED
  BY <1>1, <1>2, <1>3, <1>4

LEMMA OpenedIs ==
  ASSUME table = Parsed, rows \in Nat, NEW f, FrameOK(f)
  PROVE  BoxOK(f.kind, Opened(f), rows)
<1> DEFINE kind == f.kind
           need == Needs(f.kind)
           b == Opened(f)
           ready == rows >= need
           m == menu_open(build_conf(f.id, curr, show_all_options), f.active, f.scroll, rows)
           c == check_open(choice_items(f.id, f.active, curr))
           t == text_open(TextLines[f.id], 0, 0, text_height(f, rows), FALSE)
           x == text_open(get_relations(f.id, curr).lines, f.scroll, 0, text_height(f, rows), TRUE)
           len == CASE kind = "string" -> Length(sym_get_string_value(f.id, curr))
                    [] kind = "search" -> 0
                    [] OTHER -> Length(filename)
           i == input_open(len)
<1>1. b = CASE rows < need -> TooSmall
            [] ready /\ kind = "conf" -> m
            [] ready /\ kind = "choice" -> c
            [] ready /\ kind = "text" -> t
            [] ready /\ kind = "found" -> x
            [] ready /\ kind = "exit" -> yesno_open
            [] OTHER -> i
  BY DEF Opened
<1>2. /\ need \in Nat /\ (kind = "conf" => need = 15) /\ (kind \in TextKinds => need = 8)
  <2>1. kind \in {"conf", "choice", "exit"} \cup TextKinds \cup InputKinds
    BY DEF FrameOK
  <2> HIDE DEF kind
  <2> QED
    BY <2>1, Zenon DEF Needs, TextKinds, InputKinds, kind
<1>3. kind = "conf" /\ ready => DialogOK(kind, m, rows)
  <2> SUFFICES ASSUME kind = "conf", ready PROVE DialogOK(kind, m, rows)
    OBVIOUS
  <2> DEFINE items == build_conf(f.id, curr, show_all_options)
             selected == f.active
             kept == f.scroll
  <2>1. Listing(items) /\ kept \in Int /\ rows >= 15
    BY <1>2, MenusAreLists DEF FrameOK
  <2> HIDE DEF items, selected, kept
  <2>2. MenuOK(menu_open(items, selected, kept, rows), rows)
    BY <2>1, MenuOpens
  <2>3. MenuOK(m, rows)
    BY <2>2 DEF items, selected, kept
  <2> HIDE DEF m, kind, need
  <2> QED
    BY <2>1, <2>3 DEF DialogOK, TextKinds, InputKinds
<1>4. kind = "choice" => DialogOK(kind, c, rows)
  <2> SUFFICES ASSUME kind = "choice" PROVE DialogOK(kind, c, rows)
    OBVIOUS
  <2> DEFINE items == choice_items(f.id, f.active, curr)
  <2>1. Listing(items)
    BY MenusAreLists
  <2> HIDE DEF items
  <2>2. CheckOK(check_open(items))
    BY <2>1, CheckOpens
  <2>3. CheckOK(c)
    BY <2>2 DEF items
  <2> HIDE DEF c, kind
  <2> QED
    BY <2>3 DEF DialogOK, TextKinds, InputKinds
<1> DEFINE no == FALSE
           yes == TRUE
           h == text_height(f, rows)
<1>5. kind = "text" /\ ready => DialogOK(kind, t, rows)
  <2> SUFFICES ASSUME kind = "text", ready PROVE DialogOK(kind, t, rows)
    OBVIOUS
  <2> DEFINE lines == TextLines[f.id]
             zero == 0
  <2>1. rows >= 8
    BY <1>2 DEF TextKinds
  <2>2. lines \in Nat /\ zero \in Nat /\ h \in Nat
    BY <2>1, TextsHaveLines DEF FrameOK
  <2>3. t = text_open(lines, zero, zero, h, no)
    OBVIOUS
  <2> HIDE DEF t, lines, zero, h, no, kind
  <2>4. TextOK(t)
    BY <2>2, <2>3, TextOpens
  <2> QED
    BY <2>1, <2>4 DEF DialogOK, TextKinds, InputKinds
<1>6. kind = "found" /\ ready => DialogOK(kind, x, rows)
  <2> SUFFICES ASSUME kind = "found", ready PROVE DialogOK(kind, x, rows)
    OBVIOUS
  <2> DEFINE lines == get_relations(f.id, curr).lines
             zero == 0
             kept == f.scroll
  <2>1. rows >= 8
    BY <1>2 DEF TextKinds
  <2>2. lines \in Nat /\ kept \in Nat /\ h \in Nat
    BY <2>1, TextsHaveLines DEF FrameOK
  <2>3. x = text_open(lines, kept, zero, h, yes)
    OBVIOUS
  <2> HIDE DEF x, lines, zero, h, yes, kind, kept
  <2>4. TextOK(x)
    BY <2>2, <2>3, TextOpens
  <2> QED
    BY <2>1, <2>4 DEF DialogOK, TextKinds, InputKinds
<1>7. kind = "exit" => DialogOK(kind, yesno_open, rows)
  <2> DEFINE y == yesno_open
  <2>1. YesnoOK(y)
    BY DEF YesnoOK, yesno_open
  <2> HIDE DEF y, kind
  <2> QED
    BY <2>1 DEF DialogOK, TextKinds, InputKinds, y
<1>8. kind \in InputKinds => DialogOK(kind, i, rows)
  <2> DEFINE back == -1
             y == input_drawn(len, back, no)
  <2>1. len \in Nat
    BY TextsHaveLines
  <2>2. i = y
    BY DEF input_open
  <2> HIDE DEF len, no
  <2>3. back \in -1..1
    OBVIOUS
  <2> HIDE DEF back
  <2>4. InputOK(y)
    BY <2>1, <2>3, InputDrawn
  <2> HIDE DEF y, kind, i
  <2> QED
    BY <2>2, <2>4 DEF DialogOK, TextKinds, InputKinds
<1>9. kind \in {"conf", "choice", "exit"} \cup TextKinds \cup InputKinds
  BY DEF FrameOK
<1> HIDE DEF kind, b, m, c, t, x, i
<1>10. CASE rows < need
  <2>1. ~ready
    BY <1>2, <1>10
  <2> HIDE DEF ready
  <2>2. b = TooSmall
    BY <1>1, <1>10, <2>1
  <2> QED
    BY <2>2 DEF BoxOK, b, kind
<1>11. CASE ready
  <2>1. kind = "conf" => b = m
    BY <1>1, <1>2, <1>11
  <2>2. kind = "choice" => b = c
    BY <1>1, <1>2, <1>11
  <2>3. kind = "text" => b = t
    BY <1>1, <1>2, <1>11
  <2>4. kind = "found" => b = x
    BY <1>1, <1>2, <1>11
  <2>5. kind = "exit" => b = yesno_open
    BY <1>1, <1>2, <1>11
  <2>6. kind \in InputKinds => b = i
    BY <1>1, <1>2, <1>11 DEF InputKinds
  <2>7. DialogOK(kind, b, rows)
    <3>1. kind = "conf" \/ kind = "choice" \/ kind = "text" \/ kind = "found" \/ kind = "exit" \/ kind \in InputKinds
      BY <1>9 DEF TextKinds
    <3> HIDE DEF ready, need
    <3> QED
      BY <1>3, <1>4, <1>5, <1>6, <1>7, <1>8, <1>11, <2>1, <2>2, <2>3, <2>4, <2>5, <2>6, <3>1
  <2> QED
    BY <2>7 DEF BoxOK, b, kind
<1> QED
  BY <1>2, <1>10, <1>11

LEMMA RedrawnIs ==
  ASSUME rows \in Nat, rows' \in Nat, NEW f, FrameOK(f), DialogOK(f.kind, f.box, rows), rows' >= Needs(f.kind)
  PROVE  DialogOK(f.kind, Redrawn(f, rows), rows')
<1> DEFINE kind == f.kind
           b == f.box
           d == Redrawn(f, rows)
           next == rows'
           u == f.kind = "found"
           border == IF f.id \in Messages THEN 5 ELSE rows - 4
           h == text_height(f, next)
           m == menu_resized(b, f.active, f.scroll, next)
           t == text_resized(b, border, h, u)
           i == input_drawn(b.len, b.button, b.edited)
<1>1. kind \in {"conf", "choice", "exit"} \cup TextKinds \cup InputKinds
  BY DEF FrameOK
<1>2. d = CASE b.kind = "menu"  -> m
            [] b.kind = "text"  -> t
            [] b.kind = "input" -> i
            [] OTHER -> b
  BY DEF Redrawn
<1>3. DialogOK(kind, b, rows)
  OBVIOUS
<1>4. (kind = "conf" => next >= 15) /\ (kind \in TextKinds => next >= 8)
  <2>1. (kind = "conf" => Needs(kind) = 15) /\ (kind \in TextKinds => Needs(kind) = 8)
    <3> HIDE DEF kind
    <3> QED
      BY <1>1, Zenon DEF Needs, TextKinds, InputKinds, kind
  <2> QED
    BY <2>1
<1>5. CASE kind = "conf"
  <2> DEFINE selected == f.active
             kept == f.scroll
             before == rows
  <2>1. MenuOK(b, before) /\ before \in Nat /\ before >= 15 /\ next \in Nat /\ next >= 15 /\ kept \in Int
    BY <1>3, <1>4, <1>5 DEF DialogOK, FrameOK
  <2>2. b.kind = "menu"
    BY <2>1 DEF MenuOK
  <2>3. d = menu_resized(b, selected, kept, next)
    BY <1>2, <2>2
  <2> HIDE DEF b, d, selected, kept, before, next, kind
  <2>4. MenuOK(d, next)
    BY <2>1, <2>3, MenuResizes
  <2>5. DialogOK(kind, d, next)
    BY <1>5, <2>1, <2>4 DEF DialogOK, TextKinds, InputKinds
  <2> QED
    BY <2>5 DEF kind, d, next
<1>6. CASE kind \in TextKinds
  <2>1. TextOK(b) /\ next \in Nat /\ next >= 8
    BY <1>3, <1>4, <1>6 DEF DialogOK
  <2>2. b.kind = "text"
    BY <2>1 DEF TextOK
  <2>3. d = t
    BY <1>2, <2>2
  <2>4. h \in Nat /\ border \in Int
    <3> HIDE DEF next
    <3> QED
      BY <2>1, TextsHaveLines
  <2> HIDE DEF b, d, h, border, u, next
  <2>5. TextOK(t)
    BY <2>1, <2>4, TextResizes
  <2> HIDE DEF t, kind
  <2>6. DialogOK(kind, d, next)
    BY <1>6, <2>1, <2>3, <2>5 DEF DialogOK, TextKinds, InputKinds
  <2> QED
    BY <2>6 DEF kind, d, next
<1>7. CASE kind \in InputKinds
  <2> DEFINE len == b.len
             button == b.button
             edited == b.edited
  <2>1. InputOK(b)
    BY <1>3, <1>7 DEF DialogOK
  <2>2. b.kind = "input" /\ len \in Nat /\ button \in -1..1
    BY <2>1 DEF InputOK
  <2>3. d = input_drawn(len, button, edited)
    BY <1>2, <2>2
  <2> HIDE DEF len, button, edited, d
  <2>4. InputOK(d)
    BY <2>2, <2>3, InputDrawn
  <2> HIDE DEF kind, next
  <2>5. DialogOK(kind, d, next)
    BY <1>7, <2>4 DEF DialogOK, TextKinds, InputKinds
  <2> QED
    BY <2>5 DEF kind, d, next
<1>8. CASE kind \in {"choice", "exit"}
  <2>1. (kind = "choice" => CheckOK(b)) /\ (kind = "exit" => YesnoOK(b))
    BY <1>3 DEF DialogOK
  <2>2. (kind = "choice" => b.kind = "check") /\ (kind = "exit" => b.kind = "yesno")
    BY <2>1 DEF CheckOK, YesnoOK
  <2>3. d = b
    <3> HIDE DEF d, m, t, i, b, kind
    <3> QED
      BY <1>2, <1>8, <2>2
  <2> HIDE DEF d, b, kind, next
  <2>4. DialogOK(kind, d, next)
    BY <1>8, <2>1, <2>3 DEF DialogOK, TextKinds, InputKinds
  <2> QED
    BY <2>4 DEF kind, d, next
<1> QED
  BY <1>1, <1>5, <1>6, <1>7, <1>8

LEMMA PressedIs ==
  ASSUME rows \in Nat, NEW f, FrameOK(f), DialogOK(f.kind, f.box, rows), NEW d \in Pressed(f)
  PROVE  DialogOK(f.kind, d, rows)
<1> DEFINE kind == f.kind
           b == f.box
           r == rows
           u == f.kind = "found"
           h == text_height(f, r)
           P == Pressed(f)
<1>1. kind \in {"conf", "choice", "exit"} \cup TextKinds \cup InputKinds
  BY DEF FrameOK
<1>2. P = CASE b.kind = "menu"  -> {menu_key(b, key, r) : key \in MenuKeys \cup LettersTyped}
            [] b.kind = "check" -> {check_key(b, key) : key \in CheckKeys \cup LettersTyped}
            [] b.kind = "text"  -> {text_key(b, key, h, u) : key \in TextKeys}
            [] b.kind = "input" -> {input_key(b, key) : key \in InputKeys}
            [] b.kind = "yesno" -> {yesno_key(b, key) : key \in {"left", "right"}}
  BY DEF Pressed
<1>3. DialogOK(kind, b, r) /\ d \in P /\ r \in Nat
  OBVIOUS
<1>4. r >= 8 => h \in Nat
  BY TextsHaveLines
<1> HIDE DEF kind, b, r, P, h, u
<1>5. CASE kind = "conf"
  <2>1. MenuOK(b, r) /\ r >= 15
    BY <1>3, <1>5 DEF DialogOK
  <2>2. b.kind = "menu"
    BY <2>1 DEF MenuOK
  <2>3. P = {menu_key(b, key, r) : key \in MenuKeys \cup LettersTyped}
    BY <1>2, <2>2
  <2>4. PICK key \in MenuKeys \cup LettersTyped : d = menu_key(b, key, r)
    BY <1>3, <2>3
  <2>5. MenuOK(d, r)
    BY <1>3, <2>1, <2>4, MenuKeyed
  <2>6. DialogOK(kind, d, r)
    BY <1>5, <2>1, <2>5 DEF DialogOK, TextKinds, InputKinds
  <2> QED
    BY <2>6 DEF kind, r
<1>6. CASE kind = "choice"
  <2>1. CheckOK(b)
    BY <1>3, <1>6 DEF DialogOK
  <2>2. b.kind = "check"
    BY <2>1 DEF CheckOK
  <2>3. P = {check_key(b, key) : key \in CheckKeys \cup LettersTyped}
    BY <1>2, <2>2
  <2>4. PICK key \in CheckKeys \cup LettersTyped : d = check_key(b, key)
    BY <1>3, <2>3
  <2>5. CheckOK(d)
    BY <2>1, <2>4, CheckKeyed
  <2>6. DialogOK(kind, d, r)
    BY <1>6, <2>5 DEF DialogOK, TextKinds, InputKinds
  <2> QED
    BY <2>6 DEF kind, r
<1>7. CASE kind \in TextKinds
  <2>1. TextOK(b) /\ r >= 8
    BY <1>3, <1>7 DEF DialogOK
  <2>2. b.kind = "text"
    BY <2>1 DEF TextOK
  <2>3. P = {text_key(b, key, h, u) : key \in TextKeys}
    BY <1>2, <2>2
  <2>4. PICK key \in TextKeys : d = text_key(b, key, h, u)
    BY <1>3, <2>3
  <2>5. TextOK(d)
    BY <1>4, <2>1, <2>4, TextKeyed
  <2>6. DialogOK(kind, d, r)
    BY <1>7, <2>1, <2>5 DEF DialogOK, TextKinds, InputKinds
  <2> QED
    BY <2>6 DEF kind, r
<1>8. CASE kind \in InputKinds
  <2>1. InputOK(b)
    BY <1>3, <1>8 DEF DialogOK
  <2>2. b.kind = "input"
    BY <2>1 DEF InputOK
  <2>3. P = {input_key(b, key) : key \in InputKeys}
    BY <1>2, <2>2
  <2>4. PICK key \in InputKeys : d = input_key(b, key)
    BY <1>3, <2>3
  <2>5. InputOK(d)
    BY <2>1, <2>4, InputKeyed
  <2>6. DialogOK(kind, d, r)
    BY <1>8, <2>5 DEF DialogOK, TextKinds, InputKinds
  <2> QED
    BY <2>6 DEF kind, r
<1>9. CASE kind = "exit"
  <2>1. YesnoOK(b)
    BY <1>3, <1>9 DEF DialogOK
  <2>2. b.kind = "yesno"
    BY <2>1 DEF YesnoOK
  <2>3. P = {yesno_key(b, key) : key \in {"left", "right"}}
    BY <1>2, <2>2
  <2>4. PICK key \in {"left", "right"} : d = yesno_key(b, key)
    BY <1>3, <2>3
  <2>5. YesnoOK(d)
    BY <2>1, <2>4, YesnoKeyed
  <2>6. DialogOK(kind, d, r)
    BY <1>9, <2>5 DEF DialogOK, TextKinds, InputKinds
  <2> QED
    BY <2>6 DEF kind, r
<1> QED
  BY <1>1, <1>5, <1>6, <1>7, <1>8, <1>9

-----------------------------------------------------------------------------
(* Every action leaves the stack in order.                                   *)

DialogInv == rows \in Nat /\ StackOK(stack, rows)

LEMMA WaitingIs ==
  ASSUME DialogInv, Waiting
  PROVE  /\ stack # <<>> /\ FrameOK(Top(stack)) /\ DialogOK(Top(stack).kind, Top(stack).box, rows)
         /\ Top(stack) = Last(stack)
<1>1. stack # <<>> /\ Top(stack) = Last(stack) /\ Last(stack).box # NotShown /\ Last(stack).box # TooSmall
  BY DEF Waiting, Top
<1>2. FrameOK(Last(stack)) /\ BoxOK(Last(stack).kind, Last(stack).box, rows)
  BY <1>1, StackIs DEF DialogInv
<1> QED
  BY <1>1, <1>2 DEF BoxOK

LEMMA OpenKeeps ==
  ASSUME table = Parsed, DialogInv, Open
  PROVE  DialogInv'
<1> DEFINE f == Top(stack)
           x == Opened(f)
           t == [stack EXCEPT ![Len(stack)].box = x]
<1>1. rows \in Nat /\ StackOK(stack, rows) /\ stack # <<>> /\ rows' = rows /\ stack' = t
  BY DEF DialogInv, Open, program
<1>2. f = Last(stack) /\ FrameOK(f)
  BY <1>1, StackIs DEF Top
<1>3. BoxOK(f.kind, x, rows)
  <2> HIDE DEF f
  <2> QED
    BY <1>1, <1>2, OpenedIs
<1> HIDE DEF x
<1>4. StackOK(t, rows)
  BY <1>1, <1>2, <1>3, BoxPut
<1> QED
  BY <1>1, <1>4 DEF DialogInv

LEMMA GiveUpKeeps ==
  ASSUME DialogInv, GiveUp
  PROVE  DialogInv'
<1>1. /\ rows \in Nat /\ StackOK(stack, rows) /\ stack # <<>> /\ rows' = rows
      /\ stack' = Again(stack) \/ stack' = Below(stack)
  BY DEF DialogInv, GiveUp
<1>2. StackOK(Again(stack), rows) /\ StackOK(Below(stack), rows)
  BY <1>1, AgainIs, StackPop
<1> QED
  BY <1>1, <1>2 DEF DialogInv

LEMMA ResizeKeeps ==
  ASSUME DialogInv, Resize
  PROVE  DialogInv'
<1> DEFINE f == Top(stack)
           x == IF rows' < Needs(f.kind) THEN TooSmall ELSE Redrawn(f, rows)
           t == [stack EXCEPT ![Len(stack)].box = x]
           next == rows'
<1>1. rows \in Nat /\ StackOK(stack, rows) /\ Waiting /\ next \in RowsSet
      /\ stack' = t
  BY DEF DialogInv, Resize
<1>2. rows' \in Nat
  BY <1>1, MenuAssumption
<1>3. stack # <<>> /\ f = Last(stack) /\ FrameOK(f) /\ DialogOK(f.kind, f.box, rows)
  BY <1>1, WaitingIs
<1>4. BoxOK(f.kind, x, rows')
  <2>1. CASE rows' < Needs(f.kind)
    BY <2>1 DEF BoxOK
  <2>2. CASE ~(rows' < Needs(f.kind))
    <3>1. x = Redrawn(f, rows)
      BY <2>2
    <3>2. Needs(f.kind) \in Nat
      <4> DEFINE kind == f.kind
      <4>1. kind \in {"conf", "choice", "exit"} \cup TextKinds \cup InputKinds
        BY <1>3 DEF FrameOK
      <4> HIDE DEF kind
      <4>2. Needs(kind) \in {15, 21, 8, 9, 10}
        BY <4>1, Zenon DEF Needs, TextKinds, InputKinds
      <4> QED
        BY <4>2 DEF kind
    <3>3. rows' >= Needs(f.kind)
      BY <1>2, <2>2, <3>2
    <3> HIDE DEF f, x
    <3>4. DialogOK(f.kind, Redrawn(f, rows), rows')
      BY <1>1, <1>2, <1>3, <3>3, RedrawnIs
    <3> QED
      BY <3>1, <3>4 DEF BoxOK
  <2> QED
    BY <2>1, <2>2
<1>5. BoxOK(Last(stack).kind, x, next)
  BY <1>3, <1>4
<1> HIDE DEF x, next, f
<1>6. StackOK(t, next)
  BY <1>1, <1>3, <1>5, BoxPut
<1> QED
  BY <1>1, <1>2, <1>6 DEF DialogInv, next

LEMMA KeyKeeps ==
  ASSUME DialogInv, Key
  PROVE  DialogInv'
<1> DEFINE f == Top(stack)
<1>1. rows \in Nat /\ StackOK(stack, rows) /\ Waiting /\ rows' = rows
  BY DEF DialogInv, Key, program
<1>2. PICK x \in Pressed(f) : stack' = [stack EXCEPT ![Len(stack)].box = x]
  BY DEF Key
<1>3. stack # <<>> /\ f = Last(stack) /\ FrameOK(f) /\ DialogOK(f.kind, f.box, rows)
  BY <1>1, WaitingIs
<1> HIDE DEF f
<1>4. DialogOK(f.kind, x, rows)
  BY <1>1, <1>3, PressedIs
<1>5. BoxOK(Last(stack).kind, x, rows)
  BY <1>3, <1>4 DEF BoxOK
<1> DEFINE t == [stack EXCEPT ![Len(stack)].box = x]
<1>6. StackOK(t, rows)
  BY <1>1, <1>3, <1>5, BoxPut
<1> QED
  BY <1>1, <1>2, <1>6 DEF DialogInv

(* The menu's answers: the caller remembers, and may call another function. *)
Pushed(kind, id, active) == stack' = Append(Remembered, frame(kind, id, active))

LEMMA AnswerKeeps ==
  ASSUME DialogInv, NEW res, Answers(res),
         \/ stack' = Remembered
         \/ \E kind \in {"conf", "choice"} \cup InputKinds : \E id, active : Pushed(kind, id, active)
         \/ \E id \in TextIds : stack' = Append(Remembered, text(id))
  PROVE  DialogInv'
<1>1. /\ rows \in Nat /\ StackOK(stack, rows) /\ rows' = rows
      /\ Waits({"conf"}) /\ Top(stack).box.items # <<>>
  BY DEF DialogInv, Answers, program
<1>2. /\ StackOK(Remembered, rows)
      /\ \A g : FrameOK(g) /\ g.box = NotShown => StackOK(Append(Remembered, g), rows)
  BY <1>1, RememberedIs
<1>3. CASE stack' = Remembered
  BY <1>1, <1>2, <1>3 DEF DialogInv
<1>4. CASE \E kind \in {"conf", "choice"} \cup InputKinds : \E id, active : Pushed(kind, id, active)
  <2>0. PICK kind \in {"conf", "choice"} \cup InputKinds : \E id, active : Pushed(kind, id, active)
    BY <1>4
  <2>1. PICK id, active : Pushed(kind, id, active)
    BY <2>0
  <2>2. kind \in {"conf", "choice", "exit"} \cup TextKinds \cup InputKinds /\ kind # "text" /\ kind # "found"
    BY DEF InputKinds, TextKinds
  <2> DEFINE g == frame(kind, id, active)
  <2>3. FrameOK(g) /\ g.box = NotShown
    BY <2>2, FrameIs
  <2>4. stack' = Append(Remembered, g)
    BY <2>1 DEF Pushed
  <2> HIDE DEF g
  <2>5. StackOK(stack', rows)
    BY <1>2, <2>3, <2>4
  <2> QED
    BY <1>1, <2>5 DEF DialogInv
<1>5. CASE \E id \in TextIds : stack' = Append(Remembered, text(id))
  <2>1. PICK id \in TextIds : stack' = Append(Remembered, text(id))
    BY <1>5
  <2> DEFINE g == text(id)
  <2>2. FrameOK(g) /\ g.box = NotShown
    BY FrameIs DEF text, TextKinds
  <2> HIDE DEF g
  <2>3. StackOK(stack', rows)
    BY <1>2, <2>1, <2>2 DEF g
  <2> QED
    BY <1>1, <2>3 DEF DialogInv
<1> QED
  BY <1>3, <1>4, <1>5

LEMMA MenuKeeps ==
  ASSUME DialogInv,
         \/ EnterItem \/ (\E res \in 5 .. 8 : SetItem(res) \/ SetNothing(res)) \/ HelpItem
         \/ AskFor(3, "save") \/ AskFor(4, "load") \/ AskFor(9, "search") \/ ShowAll
  PROVE  DialogInv'
<1>1. CASE EnterItem
  <2> DEFINE item == Marked
             v == curr[item.data].val
             made == sym_is_choice(item.data) /\ curr[item.data].tri = 2
             R == Remembered
             c1 == Append(R, frame("conf", item.data, Empty))
             c2 == Append(R, frame("choice", item.data, v))
             c3 == Append(R, frame("string", item.data, Empty))
  <2>1. /\ Answers(0)
        /\ stack' = CASE item.tag = "m" -> c1
                      [] item.tag = "t" /\ made -> c2
                      [] item.tag = "s" -> c3
                      [] OTHER -> R
    BY <1>1 DEF EnterItem
  <2> HIDE DEF item, v, made, c1, c2, c3, R
  <2>2. stack' = c1 \/ stack' = c2 \/ stack' = c3 \/ stack' = R
    <3> DEFINE tag == item.tag
    <3> HIDE DEF tag
    <3>1. stack' = CASE tag = "m" -> c1
                      [] tag = "t" /\ made -> c2
                      [] tag = "s" -> c3
                      [] OTHER -> R
      BY <2>1 DEF tag
    <3>2. CASE tag = "m"
      BY <3>1, <3>2
    <3>3. CASE tag = "s"
      BY <3>1, <3>3
    <3>4. CASE tag = "t" /\ made
      BY <3>1, <3>4
    <3>5. CASE tag # "m" /\ tag # "s" /\ ~(tag = "t" /\ made)
      BY <3>1, <3>5
    <3> QED
      BY <3>2, <3>3, <3>4, <3>5
  <2>3. \/ stack' = Remembered
        \/ Pushed("conf", item.data, Empty) \/ Pushed("choice", item.data, v) \/ Pushed("string", item.data, Empty)
    BY <2>2 DEF Pushed, R, c1, c2, c3
  <2>4. "string" \in InputKinds
    BY DEF InputKinds
  <2> DEFINE id == item.data
             no == Empty
  <2>5. \/ stack' = Remembered
        \/ Pushed("conf", id, no) \/ Pushed("choice", id, v) \/ Pushed("string", id, no)
    BY <2>3
  <2> HIDE DEF id, no
  <2>6. \/ stack' = Remembered
        \/ \E kind \in {"conf", "choice"} \cup InputKinds : \E i, a : Pushed(kind, i, a)
    BY <2>4, <2>5
  <2> QED
    BY <2>1, <2>6, AnswerKeeps
<1>2. CASE \E res \in 5 .. 8 : SetItem(res)
  <2>1. PICK res \in 5 .. 8 : SetItem(res)
    BY <1>2
  <2>2. Answers(res) /\ (stack' = Remembered \/ stack' = Append(Remembered, text("setmod")))
    BY <2>1 DEF SetItem
  <2>3. "setmod" \in TextIds
    BY DEF TextIds
  <2> QED
    BY <2>2, <2>3, AnswerKeeps
<1>3. CASE \E res \in 5 .. 8 : SetNothing(res)
  <2>1. PICK res \in 5 .. 8 : SetNothing(res)
    BY <1>3
  <2> DEFINE id == Marked.data
             no == Empty
  <2>2. Answers(res) /\ (stack' = Remembered \/ Pushed("conf", id, no))
    BY <2>1 DEF SetNothing, Pushed
  <2> HIDE DEF id, no
  <2>3. \/ stack' = Remembered
        \/ \E kind \in {"conf", "choice"} \cup InputKinds : \E i, a : Pushed(kind, i, a)
    BY <2>2
  <2> QED
    BY <2>2, <2>3, AnswerKeeps
<1>4. CASE HelpItem
  <2>1. Answers(2) /\ (stack' = Append(Remembered, text("readme")) \/ stack' = Append(Remembered, text("help")))
    BY <1>4 DEF HelpItem
  <2>2. "readme" \in TextIds /\ "help" \in TextIds
    BY DEF TextIds
  <2> QED
    BY <2>1, <2>2, AnswerKeeps
<1>5. ASSUME NEW res, NEW kind \in InputKinds, AskFor(res, kind) PROVE DialogInv'
  <2> DEFINE no == Empty
  <2>1. Answers(res) /\ Pushed(kind, no, no)
    BY <1>5 DEF AskFor, Pushed
  <2> HIDE DEF no
  <2>2. \E ki \in {"conf", "choice"} \cup InputKinds : \E i, a : Pushed(ki, i, a)
    BY <2>1
  <2> QED
    BY <2>1, <2>2, AnswerKeeps
<1>6. CASE AskFor(3, "save") \/ AskFor(4, "load") \/ AskFor(9, "search")
  <2>1. "save" \in InputKinds /\ "load" \in InputKinds /\ "search" \in InputKinds
    BY DEF InputKinds
  <2> QED
    BY <1>5, <1>6, <2>1
<1>7. CASE ShowAll
  <2>1. Answers(10) /\ stack' = Remembered
    BY <1>7 DEF ShowAll
  <2> QED
    BY <2>1, AnswerKeeps
<1> QED
  BY <1>1, <1>2, <1>3, <1>4, <1>6, <1>7

(* A function returns, or shows a text and is called again after it.         *)
LEMMA ReturnKeeps ==
  ASSUME DialogInv, Waiting, rows' = rows,
         \/ stack' = Below(stack)
         \/ \E id \in TextIds : stack' = Call(stack, text(id)) \/ stack' = Append(Below(stack), text(id))
  PROVE  DialogInv'
<1>1. rows \in Nat /\ StackOK(stack, rows) /\ stack # <<>>
  BY WaitingIs DEF DialogInv
<1> DEFINE t == Below(stack)
<1>2. StackOK(t, rows) /\ (t # <<>> => Last(t).box = NotShown)
  BY <1>1, StackPop
<1>3. CASE stack' = t
  BY <1>1, <1>2, <1>3 DEF DialogInv
<1> HIDE DEF t
<1>4. CASE \E id \in TextIds : stack' = Call(stack, text(id)) \/ stack' = Append(t, text(id))
  <2>1. PICK id \in TextIds : stack' = Call(stack, text(id)) \/ stack' = Append(t, text(id))
    BY <1>4
  <2> DEFINE g == text(id)
  <2>2. FrameOK(g) /\ g.box = NotShown
    BY FrameIs DEF text, TextKinds
  <2> HIDE DEF g
  <2>3. StackOK(Call(stack, g), rows) /\ StackOK(Append(t, g), rows)
    BY <1>1, <1>2, <2>2, CallIs, StackPush
  <2> QED
    BY <1>1, <2>1, <2>3 DEF DialogInv, g
<1> QED
  BY <1>3, <1>4 DEF t

LEMMA InputKeeps ==
  ASSUME DialogInv,
         \/ Leave \/ (\E t \in Typed["string"] : StringEntered(t)) \/ NothingEntered
         \/ (\E t \in Typed["load"] : LoadEntered(t))
         \/ (\E t \in Typed["save"] : SaveEntered(t) \/ SaveRefused(t))
         \/ InputHelp \/ LeaveText
  PROVE  DialogInv'
<1>1. "invalid" \in TextIds /\ "no_file" \in TextIds /\ "saved" \in TextIds /\ "no_save" \in TextIds /\ "help" \in TextIds
  BY DEF TextIds
<1>2. CASE Leave \/ LeaveText
  <2>1. Waiting /\ rows' = rows /\ stack' = Below(stack)
    BY <1>2 DEF Leave, LeaveText, Waits, program
  <2> QED
    BY <2>1, ReturnKeeps
<1>3. CASE \E t \in Typed["string"] : StringEntered(t)
  <2>1. Waiting /\ rows' = rows /\ (stack' = Below(stack) \/ stack' = Call(stack, text("invalid")))
    BY <1>3 DEF StringEntered, Input, Waits, program, Refused
  <2> QED
    BY <1>1, <2>1, ReturnKeeps
<1>4. CASE NothingEntered
  <2>1. Waiting /\ rows' = rows /\ stack' = Below(stack)
    BY <1>4 DEF NothingEntered, Input, Waits, program
  <2> QED
    BY <2>1, ReturnKeeps
<1>5. CASE \E t \in Typed["load"] : LoadEntered(t)
  <2>1. Waiting /\ rows' = rows /\ (stack' = Below(stack) \/ stack' = Call(stack, text("no_file")))
    BY <1>5 DEF LoadEntered, Input, Waits, program, Refused
  <2> QED
    BY <1>1, <2>1, ReturnKeeps
<1>6. CASE \E t \in Typed["save"] : SaveEntered(t)
  <2>1. Waiting /\ rows' = rows /\ (stack' = Below(stack) \/ stack' = Append(Below(stack), text("saved")))
    BY <1>6 DEF SaveEntered, Input, Waits, program
  <2> QED
    BY <1>1, <2>1, ReturnKeeps
<1>7. CASE \E t \in Typed["save"] : SaveRefused(t)
  <2>1. Waiting /\ rows' = rows /\ stack' = Call(stack, text("no_save"))
    BY <1>7 DEF SaveRefused, Input, Waits, program, Refused
  <2> QED
    BY <1>1, <2>1, ReturnKeeps
<1>8. CASE InputHelp
  <2>1. Waiting /\ rows' = rows /\ stack' = Call(stack, text("help"))
    BY <1>8 DEF InputHelp, Waits, program
  <2> QED
    BY <1>1, <2>1, ReturnKeeps
<1> QED
  BY <1>2, <1>3, <1>4, <1>5, <1>6, <1>7, <1>8

LEMMA SearchKeeps ==
  ASSUME DialogInv, NEW t \in Typed["search"], SearchEntered(t)
  PROVE  DialogInv'
<1>1. Waiting /\ rows' = rows
  BY DEF SearchEntered, Input, Waits, program
<1>2. rows \in Nat /\ StackOK(stack, rows) /\ stack # <<>>
  BY <1>1, WaitingIs DEF DialogInv
<1> DEFINE g == frame("found", t, Empty)
           q == Below(stack)
<1>3. FrameOK(g) /\ g.box = NotShown
  BY FrameIs DEF TextKinds
<1>4. StackOK(q, rows) /\ (q # <<>> => Last(q).box = NotShown)
  BY <1>2, StackPop
<1>5. stack' = Append(q, g)
  BY DEF SearchEntered
<1> HIDE DEF g, q
<1>6. StackOK(Append(q, g), rows)
  BY <1>3, <1>4, StackPush
<1> QED
  BY <1>1, <1>2, <1>5, <1>6 DEF DialogInv

LEMMA ChooseKeeps ==
  ASSUME DialogInv, ChooseValue
  PROVE  DialogInv'
<1>1. Waiting /\ rows' = rows
  BY DEF ChooseValue, Waits, program
<1>2. rows \in Nat /\ StackOK(stack, rows) /\ stack # <<>>
  BY <1>1, WaitingIs DEF DialogInv
<1>3. \/ stack' = Below(stack)
      \/ \E x : stack' = Call([stack EXCEPT ![Len(stack)].active = x], text("help"))
  BY DEF ChooseValue
<1>4. CASE stack' = Below(stack)
  BY <1>1, <1>4, ReturnKeeps
<1>5. CASE \E x : stack' = Call([stack EXCEPT ![Len(stack)].active = x], text("help"))
  <2>1. PICK x : stack' = Call([stack EXCEPT ![Len(stack)].active = x], text("help"))
    BY <1>5
  <2> DEFINE q == [stack EXCEPT ![Len(stack)].active = x]
             g == text("help")
  <2>2. StackOK(q, rows) /\ q # <<>>
    BY <1>2, ActivePut
  <2>3. FrameOK(g) /\ g.box = NotShown
    BY FrameIs DEF text, TextKinds, TextIds
  <2>4. stack' = Call(q, g)
    BY <2>1
  <2> HIDE DEF q, g
  <2>5. StackOK(Call(q, g), rows)
    BY <2>2, <2>3, CallIs
  <2> QED
    BY <1>1, <1>2, <2>4, <2>5 DEF DialogInv
<1> QED
  BY <1>3, <1>4, <1>5

LEMMA JumpKeeps ==
  ASSUME DialogInv, Jump
  PROVE  DialogInv'
<1>1. Waiting /\ rows' = rows /\ Top(stack).kind = "found"
  BY DEF Jump, Waits, program
<1>2. /\ rows \in Nat /\ StackOK(stack, rows) /\ stack # <<>>
      /\ DialogOK(Top(stack).kind, Top(stack).box, rows)
  BY <1>1, WaitingIs DEF DialogInv
<1> DEFINE b == Top(stack).box
           k == text_vscroll(b)
           q == [stack EXCEPT ![Len(stack)].scroll = k]
<1>3. TextOK(b)
  BY <1>1, <1>2 DEF DialogOK, TextKinds
<1>4. k \in Nat
  <2> HIDE DEF b
  <2> QED
    BY <1>3, TextIsPage
<1>5. \E x, y : stack' = Call(q, frame("conf", x, y))
  BY DEF Jump
<1> HIDE DEF b, k
<1>6. StackOK(q, rows) /\ q # <<>>
  BY <1>2, <1>4, ScrollPut
<1> HIDE DEF q
<1>7. PICK x, y : stack' = Call(q, frame("conf", x, y))
  BY <1>5
<1> DEFINE g == frame("conf", x, y)
<1>8. FrameOK(g) /\ g.box = NotShown
  BY FrameIs
<1> HIDE DEF g
<1>9. StackOK(Call(q, g), rows)
  BY <1>6, <1>8, CallIs
<1> QED
  BY <1>1, <1>2, <1>7, <1>9 DEF DialogInv, g

LEMMA FirstCallIs ==
  /\ \A r : StackOK(<<>>, r)
  /\ \A r : \A kind \in {"conf", "exit"} : \A id, active : StackOK(<<frame(kind, id, active)>>, r)
<1>1. ASSUME NEW r PROVE StackOK(<<>>, r)
  <2> DEFINE s == <<>>
  <2>1. s \in Seq(Range(s)) /\ s = <<>> /\ DOMAIN s = {}
    OBVIOUS
  <2> HIDE DEF s
  <2>2. StackOK(s, r)
    BY <2>1 DEF StackOK, Listing
  <2> QED
    BY <2>2 DEF s
<1>2. ASSUME NEW r, NEW kind \in {"conf", "exit"}, NEW id, NEW active
      PROVE  StackOK(<<frame(kind, id, active)>>, r)
  <2> DEFINE g == frame(kind, id, active)
             s == <<>>
  <2>1. FrameOK(g) /\ g.box = NotShown
    BY FrameIs
  <2> HIDE DEF g
  <2>2. StackOK(s, r) /\ Append(s, g) = <<g>>
    BY <1>1
  <2>3. s # <<>> => Last(s).box = NotShown
    OBVIOUS
  <2> HIDE DEF s
  <2>4. StackOK(Append(s, g), r)
    BY <2>1, <2>2, <2>3, StackPush
  <2> QED
    BY <2>2, <2>4 DEF g
<1> QED
  BY <1>1, <1>2

LEMMA ExitKeeps ==
  ASSUME DialogInv, Exit \/ AnswerExit
  PROVE  DialogInv'
<1>1. /\ rows \in Nat /\ rows' = rows
      /\ \/ stack' = <<>> \/ stack' = <<frame("exit", Empty, Empty)>> \/ stack' = <<frame("conf", "root", Empty)>>
  BY DEF DialogInv, Exit, AnswerExit
<1> QED
  BY <1>1, FirstCallIs DEF DialogInv

LEMMA DialogsNext ==
  ASSUME table = Parsed, DialogInv, [Next]_vars
  PROVE  DialogInv'
<1>1. CASE UNCHANGED vars
  BY <1>1 DEF vars, DialogInv
<1>2. CASE Open \/ GiveUp \/ Resize \/ Key
  BY <1>2, OpenKeeps, GiveUpKeeps, ResizeKeeps, KeyKeeps
<1>3. CASE \/ EnterItem \/ (\E res \in 5 .. 8 : SetItem(res) \/ SetNothing(res)) \/ HelpItem
           \/ AskFor(3, "save") \/ AskFor(4, "load") \/ AskFor(9, "search") \/ ShowAll
  BY <1>3, MenuKeeps
<1>4. CASE \/ Leave \/ (\E t \in Typed["string"] : StringEntered(t)) \/ NothingEntered
           \/ (\E t \in Typed["load"] : LoadEntered(t))
           \/ (\E t \in Typed["save"] : SaveEntered(t) \/ SaveRefused(t))
           \/ InputHelp \/ LeaveText
  BY <1>4, InputKeeps
<1>5. CASE ChooseValue
  BY <1>5, ChooseKeeps
<1>6. CASE \E t \in Typed["search"] : SearchEntered(t)
  BY <1>6, SearchKeeps
<1>7. CASE Jump
  BY <1>7, JumpKeeps
<1>8. CASE Exit \/ AnswerExit
  BY <1>8, ExitKeeps
<1> QED
  BY <1>1, <1>2, <1>3, <1>4, <1>5, <1>6, <1>7, <1>8 DEF Next, Calls

LEMMA DialogsInPlace ==
  ASSUME DialogInv
  PROVE  DialogsKeepPlace
<1> SUFFICES ASSUME Waiting
             PROVE  LET b == Top(stack).box IN
                    CASE b.kind = "menu"  -> /\ b.items # <<>> => Shown(b, max_choice(b.items, rows))
                                             /\ b.resized \/ b.drawn = b.scroll
                      [] b.kind = "check" -> b.items # <<>> => Shown(b, check_lines(b.items))
                      [] b.kind = "text"  -> text_vscroll(b) = b.top
                      [] b.kind = "input" -> CursorOnPosition(b)
                      [] b.kind = "yesno" -> b.button \in {0, 1}
  BY DEF DialogsKeepPlace
<1> DEFINE f == Top(stack)
           kind == f.kind
           b == f.box
           menu == (b.items # <<>> => Shown(b, max_choice(b.items, rows))) /\ (b.resized \/ b.drawn = b.scroll)
           check == b.items # <<>> => Shown(b, check_lines(b.items))
           page == text_vscroll(b) = b.top
           cursor == CursorOnPosition(b)
           button == b.button \in {0, 1}
<1>1. FrameOK(f) /\ DialogOK(kind, b, rows)
  BY WaitingIs
<1>2. kind \in {"conf", "choice", "exit"} \cup TextKinds \cup InputKinds
  BY <1>1 DEF FrameOK
<1> SUFFICES CASE b.kind = "menu"  -> menu
               [] b.kind = "check" -> check
               [] b.kind = "text"  -> page
               [] b.kind = "input" -> cursor
               [] b.kind = "yesno" -> button
  OBVIOUS
<1> HIDE DEF kind, b
<1>3. CASE kind = "conf"
  <2>1. b.kind = "menu" /\ menu
    BY <1>1, <1>3 DEF DialogOK, MenuOK
  <2> HIDE DEF menu, check, page, cursor, button
  <2> QED
    BY <2>1
<1>4. CASE kind = "choice"
  <2>1. b.kind = "check" /\ check
    BY <1>1, <1>4 DEF DialogOK, CheckOK
  <2> HIDE DEF menu, check, page, cursor, button
  <2> QED
    BY <2>1
<1>5. CASE kind \in TextKinds
  <2>1. TextOK(b)
    BY <1>1, <1>5 DEF DialogOK
  <2>2. b.kind = "text" /\ page
    BY <2>1, TextIsPage DEF TextOK
  <2> HIDE DEF menu, check, page, cursor, button
  <2> QED
    BY <2>2
<1>6. CASE kind \in InputKinds
  <2>1. InputOK(b)
    BY <1>1, <1>6 DEF DialogOK
  <2>2. b.kind = "input" /\ cursor
    BY <2>1 DEF InputOK
  <2> HIDE DEF menu, check, page, cursor, button
  <2> QED
    BY <2>2
<1>7. CASE kind = "exit"
  <2>1. YesnoOK(b)
    BY <1>1, <1>7 DEF DialogOK
  <2>2. b.kind = "yesno" /\ button
    BY <2>1 DEF YesnoOK
  <2> HIDE DEF menu, check, page, cursor, button
  <2> QED
    BY <2>2
<1> QED
  BY <1>2, <1>3, <1>4, <1>5, <1>6, <1>7

(* In every dialog of menuconfig, after any calls, keys and changes of the   *)
(* screen, the keys act on what is drawn (menubox.c, checklist.c, textbox.c, *)
(* inputbox.c, yesno.c).                                                     *)
THEOREM DialogsStayInPlace == Spec => []DialogsKeepPlace
<1>1. Init => table = Parsed /\ DialogInv
  BY FirstCallIs DEF Init, DialogInv
<1>2. table = Parsed /\ DialogInv /\ [Next]_vars => (table = Parsed /\ DialogInv)'
  BY DialogsNext DEF Next, vars
<1>3. DialogInv => DialogsKeepPlace
  BY DialogsInPlace
<1> QED
  BY <1>1, <1>2, <1>3, PTL DEF Spec

-----------------------------------------------------------------------------
(* The file read at the start: what a symbol that does not show is told is   *)
(* not asked for when its value is worked out, so that forgetting it changes *)
(* no value.                                                                 *)

LEMMA CalcSame ==
  ASSUME NEW s, NEW tbl, NEW x, NEW u, NEW v, v.tri = u.tri, v.val = u.val,
         sym_visible(s, tbl, x) # 0 => (v.has[s] <=> u.has[s])
  PROVE  sym_calc_value(s, tbl, v, x) = sym_calc_value(s, tbl, u, x)
<1> DEFINE see == sym_calc_visibility(s, tbl, x)
           ds == FirstOf(tbl[s].defaults, x)
<1>1. see.visible = sym_visible(s, tbl, x)
  BY DEF sym_calc_visibility
<1> HIDE DEF see, ds
<1>2. (see.visible # 0 /\ v.has[s]) <=> (see.visible # 0 /\ u.has[s])
  BY <1>1
<1>3. TristateValue(s, tbl, v, x, see, ds) = TristateValue(s, tbl, u, x, see, ds)
  BY <1>2 DEF TristateValue
<1>4. NumberValue(s, tbl, v, x, see, ds) = NumberValue(s, tbl, u, x, see, ds)
  BY <1>2 DEF NumberValue
<1>5. \A y : sym_calc_choice(s, tbl, v, y) = sym_calc_choice(s, tbl, u, y)
  BY DEF sym_calc_choice
<1>6. ASSUME NEW w PROVE with_choice(s, tbl, v, x, w) = with_choice(s, tbl, u, x, w)
  <2> DEFINE one == sym_calc_choice(s, tbl, v, valued(x, s, w))
             two == sym_calc_choice(s, tbl, u, valued(x, s, w))
             made == sym_is_choice(s) /\ w.tri = 2
             choosing(y) == [w EXCEPT !.val = y, !.tri = IF y = Empty THEN 0 ELSE 2]
  <2>1. one = two
    BY <1>5
  <2>2. /\ with_choice(s, tbl, v, x, w) = IF made THEN choosing(one) ELSE w
        /\ with_choice(s, tbl, u, x, w) = IF made THEN choosing(two) ELSE w
    BY DEF with_choice
  <2> HIDE DEF one, two, choosing, made
  <2> QED
    BY <2>1, <2>2
<1> DEFINE record(tri, val) ==
             [tri |-> tri, val |-> val, visible |-> see.visible, rev |-> see.rev, dir |-> see.dir,
              write |-> Written(s, tbl, x, see, ds, tri)]
           from(q) == IF Type[s] = "int" THEN record(0, NumberValue(s, tbl, q, x, see, ds))
                      ELSE record(TristateValue(s, tbl, q, x, see, ds), "n")
<1>7. \A q : sym_calc_value(s, tbl, q, x) = with_choice(s, tbl, q, x, from(q))
  BY DEF sym_calc_value, see, ds
<1>8. from(v) = from(u)
  <2> HIDE DEF record
  <2> QED
    BY <1>3, <1>4
<1> HIDE DEF from
<1> QED
  BY <1>6, <1>7, <1>8

LEMMA CalcVisible ==
  ASSUME NEW s, NEW tbl, NEW x, NEW u
  PROVE  sym_calc_value(s, tbl, u, x).visible = sym_visible(s, tbl, x)
<1> DEFINE see == sym_calc_visibility(s, tbl, x)
           ds == FirstOf(tbl[s].defaults, x)
<1>1. see.visible = sym_visible(s, tbl, x)
  BY DEF sym_calc_visibility
<1> HIDE DEF see, ds
<1> DEFINE record(tri, val) ==
             [tri |-> tri, val |-> val, visible |-> see.visible, rev |-> see.rev, dir |-> see.dir,
              write |-> Written(s, tbl, x, see, ds, tri)]
           w == IF Type[s] = "int" THEN record(0, NumberValue(s, tbl, u, x, see, ds))
                ELSE record(TristateValue(s, tbl, u, x, see, ds), "n")
<1>2. sym_calc_value(s, tbl, u, x) = with_choice(s, tbl, u, x, w)
  BY DEF sym_calc_value, see, ds
<1>3. PICK tri, val, write :
        w = [tri |-> tri, val |-> val, visible |-> see.visible, rev |-> see.rev, dir |-> see.dir, write |-> write]
  BY DEF record
<1> HIDE DEF w
<1> DEFINE picked == sym_calc_choice(s, tbl, u, valued(x, s, w))
           tri2 == IF picked = Empty THEN 0 ELSE 2
<1>4. with_choice(s, tbl, u, x, w) = w \/ with_choice(s, tbl, u, x, w) = [[w EXCEPT !.val = picked] EXCEPT !.tri = tri2]
  BY DEF with_choice
<1> HIDE DEF picked, tri2
<1> DEFINE d == [[w EXCEPT !.val = picked] EXCEPT !.tri = tri2]
<1>5. d.visible = see.visible /\ w.visible = see.visible
  BY <1>3
<1> QED
  BY <1>1, <1>2, <1>4, <1>5

(* What the walk shows of a symbol is what it was when it was worked out.    *)
LEMMA ShownThen ==
  ASSUME NEW ord, NEW tbl, NEW u, NEW f, NEW n \in Nat, ValuesWalk(ord, tbl, u, 0, f, n),
         \A i, j \in 1..n : ord[i] = ord[j] => i = j
  PROVE  \A i \in 1..n : f[n][ord[i]].visible = sym_visible(ord[i], tbl, f[i - 1])
<1> DEFINE At(k) == \A i \in 1..k : /\ ord[i] \in DOMAIN f[k]
                                    /\ f[k][ord[i]].visible = sym_visible(ord[i], tbl, f[i - 1])
           S == {k \in Nat : k <= n => At(k)}
<1>1. 0 \in S
  BY SMT
<1>2. ASSUME NEW k \in S PROVE k + 1 \in S
  <2> SUFFICES ASSUME k + 1 <= n PROVE At(k + 1)
    OBVIOUS
  <2>1. k \in Nat /\ k + 1 \in 0..n /\ k + 1 \in 1..n /\ k + 1 # 0 /\ (k + 1) - 1 = k /\ k <= n
    OBVIOUS
  <2>2. At(k)
    BY <2>1
  <2> DEFINE s == ord[k + 1]
             c == f[k]
             v == sym_calc_value(s, tbl, u, c)
             e == f[k + 1]
  <2>3. e = valued(c, s, v)
    BY <2>1 DEF ValuesWalk, Following
  <2>4. v.visible = sym_visible(s, tbl, c)
    BY CalcVisible
  <2>5. \A i \in 1..k : ord[i] # s /\ ord[i] \in DOMAIN c /\ c[ord[i]].visible = sym_visible(ord[i], tbl, f[i - 1])
    <3> TAKE i \in 1..k
    <3>1. i \in 1..n /\ i # k + 1
      BY <2>1
    <3> QED
      BY <2>1, <2>2, <3>1
  <2> HIDE DEF v, c, e
  <2>6. DOMAIN e = DOMAIN c \cup {s} /\ \A y \in DOMAIN e : e[y] = IF y = s THEN v ELSE c[y]
    BY <2>3 DEF valued
  <2>7. ASSUME NEW i \in 1..(k + 1)
        PROVE  ord[i] \in DOMAIN e /\ e[ord[i]].visible = sym_visible(ord[i], tbl, f[i - 1])
    <3>1. CASE i = k + 1
      <4>1. ord[i] = s /\ f[i - 1] = c
        BY <2>1, <3>1 DEF c
      <4> QED
        BY <2>4, <2>6, <4>1
    <3>2. CASE i # k + 1
      <4>1. i \in 1..k
        BY <2>1, <3>2
      <4>2. ord[i] # s /\ ord[i] \in DOMAIN c /\ c[ord[i]].visible = sym_visible(ord[i], tbl, f[i - 1])
        BY <2>5, <4>1
      <4> QED
        BY <2>6, <4>2
    <3> QED
      BY <3>1, <3>2
  <2> QED
    BY <2>7 DEF e
<1>3. S = Nat
  <2>1. S \in SUBSET Nat
    OBVIOUS
  <2> HIDE DEF S
  <2> QED
    BY <1>1, <1>2, <2>1, SetInduction
<1>4. n \in S /\ n <= n
  <2> HIDE DEF S
  <2> QED
    BY <1>3
<1>5. At(n)
  BY <1>4
<1> QED
  BY <1>5

LEMMA ValuesSame ==
  ASSUME NEW t, TableOK(t), NEW u, NEW v, v.tri = u.tri, v.val = u.val,
         \A s \in DOMAIN t.db : Values(t.order, t.db, u, 0)[s].visible # 0 => (v.has[s] <=> u.has[s])
  PROVE  Values(t.order, t.db, v, 0) = Values(t.order, t.db, u, 0)
<1> DEFINE ord == t.order
           tbl == t.db
           n == Len(ord)
           c == Values(ord, tbl, u, 0)
<1>1. /\ n \in Nat /\ DOMAIN ord = 1..n /\ \A i \in 1..n : ord[i] \in DOMAIN tbl
      /\ \A i, j \in 1..n : ord[i] = ord[j] => i = j
  <2>1. ord \in Seq(DOMAIN Type) /\ DOMAIN tbl = Range(ord)
        /\ \A i, j \in DOMAIN ord : ord[i] = ord[j] => i = j
    BY DEF TableOK
  <2> HIDE DEF ord, tbl
  <2> QED
    BY <2>1 DEF Range
<1>2. \A s \in DOMAIN tbl : c[s].visible # 0 => (v.has[s] <=> u.has[s])
  OBVIOUS
<1> HIDE DEF ord, tbl, n, c
<1>3. PICK f : ValuesWalk(ord, tbl, u, 0, f, n) /\ c = f[n]
  <2> USE DEF c, n
  <2> QED
    BY <1>1, ValuesWalked
<1>4. PICK g : ValuesWalk(ord, tbl, v, 0, g, n) /\ Values(ord, tbl, v, 0) = g[n]
  <2> USE DEF n
  <2> QED
    BY <1>1, ValuesWalked
<1>5. \A i \in 1..n : c[ord[i]].visible = sym_visible(ord[i], tbl, f[i - 1])
  BY <1>1, <1>3, ShownThen
<1> DEFINE S == {k \in Nat : k <= n => g[k] = f[k]}
<1>6. 0 \in S
  BY <1>1, <1>3, <1>4 DEF ValuesWalk
<1>7. ASSUME NEW k \in S PROVE k + 1 \in S
  <2> SUFFICES ASSUME k + 1 <= n PROVE g[k + 1] = f[k + 1]
    OBVIOUS
  <2>1. k \in Nat /\ k + 1 \in 0..n /\ k + 1 \in 1..n /\ k + 1 # 0 /\ (k + 1) - 1 = k /\ k <= n
    BY <1>1
  <2> DEFINE s == ord[k + 1]
             x == f[k]
  <2>2. f[k + 1] = valued(x, s, sym_calc_value(s, tbl, u, x))
    BY <1>3, <2>1 DEF ValuesWalk, Following
  <2>3. g[k + 1] = valued(g[k], s, sym_calc_value(s, tbl, v, g[k]))
    BY <1>4, <2>1 DEF ValuesWalk, Following
  <2>4. g[k] = x
    BY <2>1
  <2>5. c[s].visible = sym_visible(s, tbl, x) /\ s \in DOMAIN tbl
    BY <1>1, <1>5, <2>1
  <2> HIDE DEF s, x
  <2>6. sym_visible(s, tbl, x) # 0 => (v.has[s] <=> u.has[s])
    BY <1>2, <2>5
  <2>7. sym_calc_value(s, tbl, v, x) = sym_calc_value(s, tbl, u, x)
    BY <2>6, CalcSame
  <2> QED
    BY <2>2, <2>3, <2>4, <2>7
<1>8. S = Nat
  <2>1. S \in SUBSET Nat
    OBVIOUS
  <2> HIDE DEF S
  <2> QED
    BY <1>6, <1>7, <2>1, SetInduction
<1>9. n \in S /\ n <= n
  <2> HIDE DEF S
  <2> QED
    BY <1>1, <1>8
<1>10. g[n] = f[n]
  BY <1>9
<1> QED
  BY <1>3, <1>4, <1>10 DEF c, ord, tbl

(* What a file written with good values says when it is read again.          *)
LEMMA FileSays ==
  ASSUME NEW t, TableOK(t), NEW c, GoodValues(t.db, c), NEW s \in Range(t.names)
  PROVE  LET u == conf_read_simple(t.db, config_text(t.names, c)).user
         IN /\ s \in DOMAIN u.has /\ u.has[s] \in BOOLEAN
            /\ u.has[s] <=> c[s].write
            /\ c[s].write => Gives(u, s, print_symbol(s, c).val)
<1> DEFINE tbl == t.db
           nms == t.names
           file == config_text(nms, c)
           n == Len(file)
           r == conf_read_simple(tbl, file)
           u == r.user
<1>1. /\ ChoicesOK(tbl) /\ Range(nms) = DOMAIN tbl \ ChoiceSymbols /\ DOMAIN tbl \subseteq DOMAIN Type
      /\ GoodValues(tbl, c) /\ Listing(nms)
  BY TableIs DEF ChoicesOK
<1>2. Listing(file) /\ Range(file) = {print_symbol(x, c) : x \in {y \in Range(nms) : c[y].write}}
  <2> HIDE DEF nms
  <2> QED
    BY <1>1, ConfigText
<1>3. s \in DOMAIN tbl \ ChoiceSymbols /\ s \in DOMAIN Type /\ s \in Range(nms)
  BY <1>1
<1>4. \A x : print_symbol(x, c).sym = x
  BY DEF print_symbol
<1> HIDE DEF tbl, nms, file
<1>5. n \in Nat /\ \A i \in 1..n : file[i] \in Range(file)
  BY <1>2, ListingIs
<1>6. \A x \in Range(file) : \E i \in 1..n : x = file[i]
  BY <1>2, ListingIs
<1>7. ReadSoFar(tbl, file, r, n)
  <2>1. Len(file) \in Nat
    BY <1>5
  <2> QED
    BY <1>1, <2>1, ReadIs
<1> HIDE DEF n, r
<1>8. Told(file, u, s, n) /\ UserOK(u)
  BY <1>3, <1>7 DEF ReadSoFar, Reads
<1>9. s \in DOMAIN u.has /\ u.has[s] \in BOOLEAN
  BY <1>3, <1>8 DEF UserOK
<1>10. u.has[s] => c[s].write /\ Gives(u, s, print_symbol(s, c).val)
  <2> SUFFICES ASSUME u.has[s] PROVE c[s].write /\ Gives(u, s, print_symbol(s, c).val)
    OBVIOUS
  <2>1. PICK i \in 1..n : Line(file, i, s) /\ Gives(u, s, file[i].val)
    BY <1>8 DEF Told
  <2>2. PICK x \in Range(nms) : c[x].write /\ file[i] = print_symbol(x, c)
    BY <1>2, <1>5, <2>1
  <2>3. x = s
    BY <1>4, <2>1, <2>2 DEF Line
  <2> QED
    BY <2>1, <2>2, <2>3
<1>11. c[s].write => u.has[s]
  <2> SUFFICES ASSUME c[s].write PROVE u.has[s]
    OBVIOUS
  <2> DEFINE out == print_symbol(s, c)
  <2>1. out \in Range(file)
    BY <1>2, <1>3
  <2>2. PICK i \in 1..n : out = file[i]
    BY <1>6, <2>1
  <2>3. /\ out = [sym |-> s, val |-> out.val]
        /\ Logical(s) => out.val = IF c[s].tri \in {0, 1} THEN "unset" ELSE "y"
        /\ ~Logical(s) => out.val = c[s].val /\ IsNumber(out.val)
    BY <1>1, <1>3, PrintIs
  <2> HIDE DEF out
  <2>4. Fits(s, out.val)
    <3>1. Logical(s) => out.val \in {"y", "unset"}
      BY <2>3
    <3>2. ~Logical(s) => IsNumber(out.val)
      BY <2>3
    <3> QED
      BY <1>3, <3>1, <3>2, Kinds DEF Fits, IsNumber
  <2>5. Line(file, i, s)
    <3>1. out.sym = s
      BY <2>3
    <3> QED
      BY <2>2, <2>4, <3>1 DEF Line
  <2> QED
    BY <1>8, <2>5 DEF Told
<1> QED
  BY <1>9, <1>10, <1>11 DEF u, r, file, tbl, nms

(* Values that agree with what was read are those that were written.         *)
LEMMA SameText ==
  ASSUME NEW t, TableOK(t), NEW c, GoodValues(t.db, c), NEW d, GoodValues(t.db, d),
         \A s \in Range(t.names) : Agrees(s, conf_read_simple(t.db, config_text(t.names, c)).user, d)
  PROVE  config_text(t.names, d) = config_text(t.names, c)
<1> DEFINE nms == t.names
           u == conf_read_simple(t.db, config_text(nms, c)).user
           tbl == t.db
<1>1. /\ Range(nms) = DOMAIN tbl \ ChoiceSymbols /\ DOMAIN tbl \subseteq DOMAIN Type
      /\ GoodValues(tbl, c) /\ GoodValues(tbl, d) /\ Listing(nms)
  BY TableIs DEF ChoicesOK
<1>2. ASSUME NEW s \in Range(nms)
      PROVE  (d[s].write <=> c[s].write) /\ (c[s].write => print_symbol(s, d) = print_symbol(s, c))
  <2>1. /\ u.has[s] \in BOOLEAN /\ (u.has[s] <=> c[s].write)
        /\ (c[s].write => Gives(u, s, print_symbol(s, c).val))
    BY FileSays
  <2>2. Agrees(s, u, d)
    OBVIOUS
  <2>3. s \in DOMAIN tbl /\ s \in DOMAIN Type
    BY <1>1
  <2> HIDE DEF u, nms, tbl
  <2>4. d[s].write <=> c[s].write
    BY <2>1, <2>2 DEF Agrees
  <2>5. ASSUME c[s].write PROVE print_symbol(s, d) = print_symbol(s, c)
    <3> DEFINE out == print_symbol(s, c)
               now == print_symbol(s, d)
    <3>1. /\ out = [sym |-> s, val |-> out.val]
          /\ Logical(s) => out.val = IF c[s].tri \in {0, 1} THEN "unset" ELSE "y"
          /\ ~Logical(s) => out.val = c[s].val /\ IsNumber(out.val)
      BY <1>1, <2>3, <2>5, PrintIs
    <3>2. /\ now = [sym |-> s, val |-> now.val]
          /\ Logical(s) => now.val = IF d[s].tri \in {0, 1} THEN "unset" ELSE "y"
          /\ ~Logical(s) => now.val = d[s].val
      BY <1>1, <2>3, <2>4, <2>5, PrintIs
    <3>3. Gives(u, s, out.val)
      BY <2>1, <2>5
    <3>4. IF Logical(s) THEN u.tri[s] = d[s].tri ELSE u.val[s] = d[s].val
      BY <2>1, <2>2, <2>4, <2>5 DEF Agrees
    <3> HIDE DEF out, now
    <3>5. now.val = out.val
      <4>1. CASE Logical(s)
        <5>1. d[s].tri = TriOf(out.val)
          BY <3>3, <3>4, <4>1 DEF Gives
        <5>2. CASE out.val = "unset"
          <6>1. d[s].tri = 0
            BY <5>1, <5>2 DEF TriOf
          <6> QED
            BY <3>2, <4>1, <5>2, <6>1
        <5>3. CASE out.val = "y"
          <6>1. d[s].tri = 2
            BY <5>1, <5>3 DEF TriOf
          <6> QED
            BY <3>2, <4>1, <5>3, <6>1
        <5> QED
          BY <3>1, <4>1, <5>2, <5>3
      <4>2. CASE ~Logical(s)
        BY <3>1, <3>2, <3>3, <3>4, <4>2 DEF Gives
      <4> QED
        BY <4>1, <4>2
    <3> QED
      BY <3>1, <3>2, <3>5 DEF out, now
  <2> QED
    BY <2>4, <2>5
<1> DEFINE setc == {s \in Range(nms) : c[s].write}
           setd == {s \in Range(nms) : d[s].write}
           syms == Those(nms, setc)
<1>3. setc = setd
  <2> HIDE DEF nms
  <2> QED
    BY <1>2
<1>4. /\ config_text(nms, c) = [i \in DOMAIN syms |-> print_symbol(syms[i], c)]
      /\ config_text(nms, d) = [i \in DOMAIN Those(nms, setd) |-> print_symbol(Those(nms, setd)[i], d)]
  BY DEF config_text
<1>5. Listing(syms) /\ Range(syms) = Range(nms) \cap setc
  BY <1>1, ThoseIs
<1>6. \A i \in DOMAIN syms : syms[i] \in Range(nms) /\ c[syms[i]].write
  <2>1. \A i \in DOMAIN syms : syms[i] \in Range(syms)
    BY DEF Range
  <2> HIDE DEF syms, nms
  <2> QED
    BY <1>5, <2>1
<1>7. config_text(nms, d) = [i \in DOMAIN syms |-> print_symbol(syms[i], d)]
  BY <1>3, <1>4
<1> HIDE DEF syms, nms
<1>8. \A i \in DOMAIN syms : print_symbol(syms[i], d) = print_symbol(syms[i], c)
  BY <1>2, <1>6
<1>9. config_text(nms, d) = config_text(nms, c)
  BY <1>4, <1>7, <1>8
<1> QED
  BY <1>9 DEF nms

(* When there is nothing to save only what does not show is forgotten.       *)
LEMMA OnlyHiddenForgotten ==
  ASSUME NEW ord, Len(ord) \in Nat, DOMAIN ord = 1..Len(ord), NEW tbl, NEW u, UserOK(u), NEW c, NEW o \in Nat,
         ~(forget_generated(ord, tbl, u, c, o).unsaved > 0)
  PROVE  LET v == forget_generated(ord, tbl, u, c, o).user
         IN /\ o = 0 /\ v.tri = u.tri /\ v.val = u.val
            /\ \A s \in DOMAIN Type : c[s].visible # 0 => (v.has[s] <=> u.has[s])
<1> DEFINE told   == {i \in DOMAIN ord : u.has[ord[i]] /\ tbl[ord[i]].choice = Empty}
           wrong  == {i \in told : /\ ~Logical(ord[i])
                                   /\ ~sym_string_within_range(ord[i], u.val[ord[i]], tbl, c)}
           hidden == {i \in told : /\ c[ord[i]].visible = 0
                                   /\ o = 0 /\ \A j \in wrong : j >= i}
           gone   == {ord[i] : i \in wrong \cup hidden}
           hh     == [s \in DOMAIN u.has |-> u.has[s] /\ s \notin gone]
           v      == [u EXCEPT !.has = hh]
           e      == forget_generated(ord, tbl, u, c, o)
           k      == Cardinality(wrong)
           sum    == o + k
<1>1. e = [user |-> v, unsaved |-> sum]
  BY DEF forget_generated
<1>2. wrong \subseteq 1..Len(ord)
  OBVIOUS
<1>3. \A i \in hidden : c[ord[i]].visible = 0
  OBVIOUS
<1> HIDE DEF wrong, hidden, told
<1>4. IsFiniteSet(wrong) /\ k \in Nat
  <2>1. IsFiniteSet(1..Len(ord))
    BY FS_Interval
  <2>2. IsFiniteSet(wrong)
    BY <1>2, <2>1, FS_Subset
  <2> QED
    BY <2>2, FS_CardinalityType
<1>5. e.unsaved = sum
  <2> HIDE DEF sum, v, e
  <2> QED
    BY <1>1
<1>6. ~(sum > 0)
  <2> USE DEF e
  <2> HIDE DEF sum
  <2> QED
    BY <1>5
<1>7. o = 0 /\ k = 0
  <2> HIDE DEF k
  <2> QED
    BY <1>4, <1>6
<1>8. wrong = {}
  BY <1>4, <1>7, FS_EmptySet
<1>9. \A s \in gone : c[s].visible = 0
  BY <1>3, <1>8
<1> HIDE DEF gone
<1>10. PICK h, tr, va : u = [has |-> h, tri |-> tr, val |-> va]
  BY DEF UserOK
<1>11. u.has = h /\ u.tri = tr /\ u.val = va /\ DOMAIN h = DOMAIN Type
  BY <1>10 DEF UserOK
<1>12. \A s \in DOMAIN Type : c[s].visible # 0 => (hh[s] <=> u.has[s])
  BY <1>9, <1>11
<1> HIDE DEF hh
<1>13. v = [has |-> hh, tri |-> tr, val |-> va]
  BY <1>10
<1>14. v.has = hh /\ v.tri = tr /\ v.val = va
  BY <1>13
<1> HIDE DEF v, sum, e
<1>15. e.user = v
  BY <1>1
<1> QED
  BY <1>7, <1>11, <1>12, <1>14, <1>15 DEF e

(* A file that is there, read at the start with nothing to save, holds the   *)
(* values that are worked out from what was read.                            *)
LEMMA NothingToSave ==
  ASSUME NEW t, TableOK(t), NEW before, UserOK(before),
         ~conf_read(t.order, t.db, NothingSaid, config_text(t.names, Values(t.order, t.db, before, 0)), FALSE).changed
  PROVE  LET file == config_text(t.names, Values(t.order, t.db, before, 0))
         IN config_text(t.names, Values(t.order, t.db, conf_read(t.order, t.db, NothingSaid, file, FALSE).user, 0)) = file
<1> DEFINE ord == t.order
           tbl == t.db
           nms == t.names
           c == Values(ord, tbl, before, 0)
           file == config_text(nms, c)
           r == conf_read_simple(tbl, file)
           u == r.user
           d == Values(ord, tbl, u, 0)
           odd == {s \in Range(ord) : ~sym_is_choice(s) /\ ~Agrees(s, u, d)}
           o == Cardinality(odd)
           done == forget_generated(ord, tbl, u, d, o)
           q == conf_read(ord, tbl, NothingSaid, file, FALSE)
           v == done.user
<1>1. GoodValues(tbl, c)
  BY ValuesAreGood
<1>2. /\ ChoicesOK(tbl) /\ Range(nms) = DOMAIN tbl \ ChoiceSymbols /\ DOMAIN tbl \subseteq DOMAIN Type
      /\ DOMAIN tbl = Range(ord) /\ Listing(ord) /\ Listing(nms)
  BY TableIs DEF ChoicesOK
<1>3. Listing(file) /\ Len(file) \in Nat
  <2> DEFINE w == c
  <2> HIDE DEF w, nms
  <2>1. Listing(config_text(nms, w))
    BY <1>2, ConfigText
  <2>2. Len(config_text(nms, w)) \in Nat
    BY <2>1, ListingIs
  <2> QED
    BY <2>1, <2>2 DEF w
<1>4. UserOK(u)
  <2> HIDE DEF file, tbl
  <2>1. ReadSoFar(tbl, file, r, Len(file))
    BY <1>2, <1>3, ReadIs
  <2> HIDE DEF r
  <2> QED
    BY <2>1 DEF ReadSoFar, Reads
<1> DEFINE no == FALSE
<1>5. q = IF file = Missing THEN [ok |-> FALSE, user |-> NothingSaid, changed |-> ~no]
          ELSE [ok |-> TRUE, user |-> v,
                changed |-> r.warnings > 0 \/ r.unknown # {} \/ done.unsaved > 0]
  BY DEF conf_read
<1>6. ~q.changed
  OBVIOUS
<1> HIDE DEF q
<1>7. file # Missing
  <2> SUFFICES ASSUME file = Missing PROVE FALSE
    OBVIOUS
  <2> DEFINE yes == ~no
  <2>1. q = [ok |-> FALSE, user |-> NothingSaid, changed |-> yes]
    BY <1>5
  <2>2. yes = TRUE
    OBVIOUS
  <2> HIDE DEF yes, no
  <2>3. q.changed = yes
    BY <2>1
  <2> QED
    BY <1>6, <2>2, <2>3
<1> DEFINE any == r.warnings > 0 \/ r.unknown # {} \/ done.unsaved > 0
<1>8. q = [ok |-> TRUE, user |-> v, changed |-> any]
  BY <1>5, <1>7
<1>9. q.user = v /\ q.changed = any
  <2> HIDE DEF v, any
  <2> QED
    BY <1>8
<1>10. ~(done.unsaved > 0)
  <2> HIDE DEF done
  <2> QED
    BY <1>6, <1>9
<1>11. GoodValues(tbl, d)
  <2> DEFINE w == u
  <2>1. UserOK(w)
    BY <1>4
  <2> HIDE DEF w
  <2>2. GoodValues(tbl, Values(ord, tbl, w, 0))
    BY <2>1, ValuesAreGood
  <2> QED
    BY <2>2 DEF w
<1>12. Len(ord) \in Nat /\ DOMAIN ord = 1..Len(ord)
  BY <1>2, ListingIs
<1>13. IsFiniteSet(odd) /\ o \in Nat
  <2> HIDE DEF ord
  <2>1. ord \in Surjection(1..Len(ord), Range(ord))
    <3>1. ord \in [1..Len(ord) -> Range(ord)] /\ \A x \in Range(ord) : \E i \in 1..Len(ord) : ord[i] = x
      BY <1>2, <1>12 DEF Listing, Range
    <3> QED
      BY <3>1 DEF Surjection
  <2>2. IsFiniteSet(1..Len(ord))
    BY <1>12, FS_Interval
  <2>3. IsFiniteSet(Range(ord))
    BY <2>1, <2>2, FS_Surjection
  <2>4. odd \subseteq Range(ord)
    OBVIOUS
  <2> HIDE DEF odd
  <2>5. IsFiniteSet(odd)
    BY <2>3, <2>4, FS_Subset
  <2> QED
    BY <2>5, FS_CardinalityType
<1> HIDE DEF odd, d, u
<1>14. /\ o = 0 /\ v.tri = u.tri /\ v.val = u.val
       /\ \A s \in DOMAIN Type : d[s].visible # 0 => (v.has[s] <=> u.has[s])
  <2> HIDE DEF o, ord, tbl
  <2> QED
    BY <1>4, <1>10, <1>12, <1>13, OnlyHiddenForgotten
<1>15. odd = {}
  BY <1>13, <1>14, FS_EmptySet
<1>16. \A s \in Range(nms) : Agrees(s, u, d)
  <2> HIDE DEF nms
  <2>1. \A s \in Range(nms) : s \in Range(ord) /\ ~sym_is_choice(s)
    BY <1>2 DEF sym_is_choice
  <2> QED
    BY <1>15, <2>1 DEF odd
<1>17. config_text(nms, d) = file
  <2> DEFINE w == c
  <2>1. \A s \in Range(nms) : Agrees(s, conf_read_simple(tbl, config_text(nms, w)).user, d)
    BY <1>16 DEF u
  <2>2. GoodValues(tbl, w)
    BY <1>1
  <2> HIDE DEF w
  <2>3. config_text(nms, d) = config_text(nms, w)
    BY <1>11, <2>1, <2>2, SameText
  <2> QED
    BY <2>3 DEF w
<1>18. Values(ord, tbl, v, 0) = d
  <2>1. \A s \in DOMAIN tbl : Values(ord, tbl, u, 0)[s].visible # 0 => (v.has[s] <=> u.has[s])
    BY <1>2, <1>14 DEF d
  <2>2. v.tri = u.tri /\ v.val = u.val
    BY <1>14
  <2> HIDE DEF v
  <2>3. Values(ord, tbl, v, 0) = Values(ord, tbl, u, 0)
    BY <2>1, <2>2, ValuesSame
  <2> QED
    BY <2>3 DEF d
<1> HIDE DEF v, file
<1>19. config_text(nms, Values(ord, tbl, q.user, 0)) = file
  BY <1>9, <1>17, <1>18
<1> QED
  BY <1>19 DEF q, file

KeptInv ==
  /\ filename \in DOMAIN files
  /\ ~changed => forgot \/ files[filename] = config_text(table.names, curr)

LEMMA KeptStarts ==
  ASSUME Init
  PROVE  KeptInv
<1> DEFINE before == ValuesOf(Earlier)
           file == config_text(table.names, before)
           r == conf_read(table.order, table.db, NothingSaid, files.config, FALSE)
           c == Missing
           old == files.config
<1>1. PICK c0 \in {Missing, file} : files = [config |-> c0, alt |-> Missing]
  BY DEF Init
<1>2. filename = "config" /\ filename \in DOMAIN files /\ files[filename] = old /\ old = c0
  <2>1. filename = "config"
    BY DEF Init
  <2> QED
    BY <1>1, <2>1
<1>3. user = r.user /\ changed = r.changed /\ curr = Values(table.order, table.db, user, 0)
  BY DEF Init, ValuesOf
<1>4. CASE c0 = Missing
  <2> DEFINE no == FALSE
             yes == ~no
  <2>1. r = [ok |-> FALSE, user |-> NothingSaid, changed |-> yes]
    BY <1>2, <1>4 DEF conf_read
  <2>2. yes = TRUE
    OBVIOUS
  <2> HIDE DEF yes, no, r
  <2>3. r.changed = yes
    BY <2>1
  <2> QED
    BY <1>2, <1>3, <2>2, <2>3 DEF KeptInv
<1>5. CASE c0 = file
  <2> SUFFICES ASSUME ~changed PROVE files[filename] = config_text(table.names, curr)
    BY <1>2 DEF KeptInv
  <2> DEFINE ord == table.order
             tbl == table.db
             nms == table.names
  <2>1. TableOK(table) /\ UserOK(Earlier)
    BY MenuAssumption DEF Init
  <2>2. r = conf_read(ord, tbl, NothingSaid, config_text(nms, Values(ord, tbl, Earlier, 0)), FALSE)
    BY <1>2, <1>5 DEF ValuesOf
  <2>3. ~conf_read(ord, tbl, NothingSaid, config_text(nms, Values(ord, tbl, Earlier, 0)), FALSE).changed
    BY <1>3, <2>2
  <2>4. config_text(nms, Values(ord, tbl,
          conf_read(ord, tbl, NothingSaid, config_text(nms, Values(ord, tbl, Earlier, 0)), FALSE).user, 0))
          = config_text(nms, Values(ord, tbl, Earlier, 0))
    BY <2>1, <2>3, NothingToSave
  <2>5. config_text(nms, Values(ord, tbl, r.user, 0)) = file
    BY <2>2, <2>4 DEF ValuesOf
  <2> HIDE DEF r, file
  <2> QED
    BY <1>2, <1>3, <1>5, <2>5
<1> QED
  BY <1>1, <1>4, <1>5

LEMMA TakenKeeps ==
  ASSUME KeptInv, table' = table, NEW r, Taken(r)
  PROVE  KeptInv'
<1>1. /\ curr' = IF r.cleared THEN ValuesOf(r.user) ELSE curr
      /\ changed' = (changed \/ r.cleared)
      /\ files' = files /\ filename' = filename /\ forgot' = forgot
  BY DEF Taken, sym_clear_all_valid
<1>2. CASE r.cleared
  BY <1>1, <1>2 DEF KeptInv
<1>3. CASE ~r.cleared
  <2>1. curr' = curr
    BY <1>1, <1>3
  <2>2. ~changed' => ~changed
    BY <1>1, Zenon
  <2> QED
    BY <1>1, <2>1, <2>2 DEF KeptInv
<1> QED
  BY <1>2, <1>3

LEMMA SettingsKeep ==
  ASSUME KeptInv, table' = table, curr' = curr, changed' = changed, forgot' = forgot, files' = files,
         filename' = filename
  PROVE  KeptInv'
BY DEF KeptInv

(* What is loaded is to be saved; what is not there leaves all as it is, and *)
(* is remembered if there was something to be saved.                         *)
LEMMA LoadKeeps ==
  ASSUME KeptInv, table' = table, NEW t, LoadEntered(t)
  PROVE  KeptInv'
<1> DEFINE file == IF t \in DOMAIN files THEN files[t] ELSE Missing
           r == conf_read(table.order, table.db, user, file, TRUE)
<1>1. /\ changed' = (r.ok \/ r.changed)
      /\ forgot' = (~r.ok /\ (changed \/ forgot))
      /\ curr' = IF r.ok THEN ValuesOf(r.user) ELSE curr
      /\ filename' = IF r.ok THEN t ELSE filename
      /\ files' = files
  BY DEF LoadEntered
<1>2. r.ok => t \in DOMAIN files
  <2> SUFFICES ASSUME file = Missing PROVE ~r.ok
    OBVIOUS
  <2> DEFINE no == FALSE
             yes == ~TRUE
  <2>1. r = [ok |-> no, user |-> user, changed |-> yes]
    BY DEF conf_read
  <2> HIDE DEF yes, r
  <2>2. no = FALSE
    OBVIOUS
  <2> HIDE DEF no
  <2>3. r.ok = no
    BY <2>1
  <2> QED
    BY <2>2, <2>3
<1> DEFINE ok == r.ok
           told == r.changed
           values == ValuesOf(r.user)
<1>3. /\ changed' = (ok \/ told) /\ forgot' = (~ok /\ (changed \/ forgot))
      /\ curr' = IF ok THEN values ELSE curr
      /\ filename' = IF ok THEN t ELSE filename
      /\ files' = files /\ (ok => t \in DOMAIN files)
  BY <1>1, <1>2
<1> HIDE DEF ok, told, values, r
<1>4. CASE ok
  <2>1. changed' /\ filename' = t /\ files' = files /\ t \in DOMAIN files
    BY <1>3, <1>4, Zenon
  <2> QED
    BY <2>1 DEF KeptInv
<1>5. CASE ~ok
  <2>1. curr' = curr /\ filename' = filename /\ files' = files
    BY <1>3, <1>5
  <2>2. changed \/ forgot => forgot'
    BY <1>3, <1>5, Zenon
  <2> QED
    BY <2>1, <2>2 DEF KeptInv
<1> QED
  BY <1>4, <1>5

LEMMA WriteKeeps ==
  ASSUME KeptInv, table' = table, NEW t \in DOMAIN files, curr' = curr, filename' = t,
         files' = [files EXCEPT ![t] = config_text(table.names, curr)]
  PROVE  KeptInv'
<1> DEFINE x == config_text(table.names, curr)
<1>1. files' = [files EXCEPT ![t] = x] /\ config_text(table'.names, curr') = x
  OBVIOUS
<1> HIDE DEF x
<1>2. DOMAIN files' = DOMAIN files /\ files'[t] = x
  BY <1>1
<1> QED
  BY <1>1, <1>2 DEF KeptInv

LEMMA KeptNext ==
  ASSUME KeptInv, [Next]_vars
  PROVE  KeptInv'
<1>0. table' = table
  BY DEF Next, vars
<1>1. CASE UNCHANGED vars
  BY <1>0, <1>1, SettingsKeep DEF vars
<1>2. CASE Open \/ GiveUp \/ Resize \/ Key
  BY <1>0, <1>2, SettingsKeep DEF Open, GiveUp, Resize, Key, settings
<1>3. CASE EnterItem \/ HelpItem \/ AskFor(3, "save") \/ AskFor(4, "load") \/ AskFor(9, "search")
  BY <1>0, <1>3, SettingsKeep DEF EnterItem, HelpItem, AskFor, settings
<1>4. CASE \E res \in 5 .. 8 : SetNothing(res)
  BY <1>0, <1>4, SettingsKeep DEF SetNothing, settings
<1>5. CASE \E res \in 5 .. 8 : SetItem(res)
  <2>1. \E r : Taken(r)
    BY <1>5 DEF SetItem
  <2> QED
    BY <1>0, <2>1, TakenKeeps
<1>6. CASE ShowAll
  BY <1>0, <1>6, SettingsKeep DEF ShowAll, said
<1>7. CASE Leave \/ LeaveText \/ InputHelp \/ Jump
  BY <1>0, <1>7, SettingsKeep DEF Leave, LeaveText, InputHelp, Jump, settings
<1>8. CASE ChooseValue
  <2>1. (\E r : Taken(r)) \/ UNCHANGED settings
    BY <1>8 DEF ChooseValue
  <2> QED
    BY <1>0, <2>1, TakenKeeps, SettingsKeep DEF settings
<1>9. CASE \E t \in Typed["string"] : StringEntered(t)
  <2>1. \E r : Taken(r)
    BY <1>9 DEF StringEntered
  <2> QED
    BY <1>0, <2>1, TakenKeeps
<1>10. CASE NothingEntered \/ (\E t \in Typed["search"] : SearchEntered(t))
  BY <1>0, <1>10, SettingsKeep DEF NothingEntered, SearchEntered, settings
<1>11. CASE \E t \in Typed["load"] : LoadEntered(t)
  BY <1>0, <1>11, LoadKeeps
<1>12. CASE \E t \in Typed["save"] : SaveEntered(t)
  <2>1. PICK t : /\ t \in DOMAIN files /\ filename' = t /\ curr' = curr
                 /\ files' = [files EXCEPT ![t] = config_text(table.names, curr)]
    BY <1>12 DEF SaveEntered
  <2> QED
    BY <1>0, <2>1, WriteKeeps
<1>13. CASE \E t \in Typed["save"] : SaveRefused(t)
  BY <1>0, <1>13, SettingsKeep DEF SaveRefused, settings
<1>14. CASE Exit
  BY <1>0, <1>14, SettingsKeep DEF Exit, settings
<1>15. CASE AnswerExit
  <2>1. \/ /\ files' = [files EXCEPT ![filename] = config_text(table.names, curr)]
           /\ curr' = curr /\ filename' = filename
        \/ UNCHANGED settings
    BY <1>15 DEF AnswerExit
  <2>2. filename \in DOMAIN files
    BY DEF KeptInv
  <2> QED
    BY <1>0, <2>1, <2>2, WriteKeeps, SettingsKeep DEF settings
<1> QED
  BY <1>1, <1>2, <1>3, <1>4, <1>5, <1>6, <1>7, <1>8, <1>9, <1>10, <1>11, <1>12, <1>13, <1>14, <1>15 DEF Next, Calls

(* menuconfig ends without asking only when the file it would write holds    *)
(* the configuration already, or when a file that is not there was loaded    *)
(* while there was something to be saved, and nothing was loaded or saved    *)
(* since (confdata.c:519, mconf.c:903-914).                                  *)
THEOREM NothingIsForgotten == Spec => []NothingUnsavedIsForgotten
<1>1. Init => KeptInv
  BY KeptStarts
<1>2. KeptInv /\ [Next]_vars => KeptInv'
  BY KeptNext
<1>3. KeptInv => NothingUnsavedIsForgotten
  BY DEF KeptInv, NothingUnsavedIsForgotten
<1> QED
  BY <1>1, <1>2, <1>3, PTL DEF Spec
===============================================================================
