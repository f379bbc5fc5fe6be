-------------------------- MODULE ContainersProofs --------------------------
(***************************************************************************)
(* Theorems about Containers, for any files, limits and scanned kinds: the *)
(* reading of a zip, of the zips in it and of what they hold, implements   *)
(* MeteredRead, and a member has the share its round promised it.          *)
(***************************************************************************)
EXTENDS Containers, FiniteSetTheorems, WellFoundedInduction, TLAPS

-----------------------------------------------------------------------------
(***************************************************************************)
(* Numbers, and functions defined by recursion over them.                  *)
(***************************************************************************)
\* A set of numbers that holds 0 and every successor holds every number.
LEMMA UpFromZero ==
  ASSUME NEW S, 0 \in S, \A n \in Nat : n \in S => n + 1 \in S
  PROVE  Nat \subseteq S
<1>. DEFINE R == OpToRel(<, Nat)
            T == Nat \ S
<1>1. IsWellFoundedOn(R, Nat)
  BY NatLessThanWellFounded
<1>2. \A a, b \in Nat : a < b => <<a, b>> \in R
  BY DEF OpToRel
<1>3. ASSUME T # {} PROVE FALSE
  <2>1. PICK x \in T : \A y \in T : ~(<<y, x>> \in R)
    <3>. HIDE DEF R
    <3>. T \subseteq Nat
      OBVIOUS
    <3>. QED BY <1>1, <1>3, WFMin, Zenon
  <2>. HIDE DEF R
  <2>2. x # 0 /\ x \in Nat
    OBVIOUS
  <2>3. x - 1 \in Nat /\ x - 1 < x /\ (x - 1) + 1 = x
    BY <2>2
  <2>4. x - 1 \notin T
    BY <1>2, <2>1, <2>2, <2>3, Zenon
  <2>. QED BY <2>3, <2>4
<1>. QED BY <1>3

\* A set of numbers that is not empty has a least one.
LEMMA Least ==
  ASSUME NEW T \in SUBSET Nat, T # {}
  PROVE  \E x \in T : \A y \in T : x <= y
<1>. DEFINE S == {n \in Nat : \A m \in Nat : m <= n => m \notin T}
<1>1. SUFFICES ASSUME \A x \in T : \E y \in T : y < x PROVE FALSE
  OBVIOUS
<1>2. 0 \in S
  BY <1>1
<1>3. ASSUME NEW n \in Nat, n \in S PROVE n + 1 \in S
  <2>1. n + 1 \notin T
    BY <1>1, <1>3
  <2>2. \A m \in Nat : m <= n + 1 => m <= n \/ m = n + 1
    OBVIOUS
  <2>. QED BY <1>3, <2>1, <2>2
<1>. HIDE DEF S
<1>4. Nat \subseteq S
  BY <1>2, <1>3, UpFromZero
<1>5. \A n \in Nat : n <= n /\ n \in S
  BY <1>4
<1>. QED BY <1>5 DEF S

\* f is what recursion makes of base by way of g, up to N.
Recurs(f, g, base, N) == f = [n \in 0..N |-> IF n = 0 THEN base ELSE g[n][f[n - 1]]]

LEMMA RecursionExists ==
  ASSUME NEW V, NEW base \in V, NEW g \in [Nat -> [V -> V]]
  PROVE  \A N \in Nat : \E f \in [0..N -> V] : Recurs(f, g, base, N)
<1>. DEFINE S == {N \in Nat : \E f \in [0..N -> V] : Recurs(f, g, base, N)}
<1>1. 0 \in S
  <2>. DEFINE f == [n \in 0..0 |-> base]
  <2>1. f \in [0..0 -> V] /\ \A n \in 0..0 : n = 0
    OBVIOUS
  <2>2. Recurs(f, g, base, 0)
    BY <2>1 DEF Recurs
  <2>. QED BY <2>1, <2>2
<1>2. ASSUME NEW N \in Nat, N \in S PROVE N + 1 \in S
  <2>1. PICK f \in [0..N -> V] : Recurs(f, g, base, N)
    BY <1>2
  <2>. DEFINE h == [n \in 0..N+1 |-> IF n = N + 1 THEN g[N + 1][f[N]] ELSE f[n]]
  <2>2. h \in [0..N+1 -> V]
    OBVIOUS
  <2>3. ASSUME NEW n \in 0..N+1 PROVE h[n] = IF n = 0 THEN base ELSE g[n][h[n - 1]]
    <3>1. CASE n = N + 1
      <4>1. h[n] = g[N + 1][f[N]] /\ h[N] = f[N] /\ n # 0 /\ n - 1 = N
        BY <3>1
      <4>. HIDE DEF h
      <4>. QED BY <3>1, <4>1
    <3>2. CASE n # N + 1
      <4>1. n \in 0..N /\ h[n] = f[n] /\ (n # 0 => n - 1 \in 0..N /\ h[n - 1] = f[n - 1])
        BY <3>2
      <4>2. f[n] = IF n = 0 THEN base ELSE g[n][f[n - 1]]
        BY <2>1, <4>1 DEF Recurs
      <4>. QED BY <4>1, <4>2
    <3>. QED BY <3>1, <3>2
  <2>4. Recurs(h, g, base, N + 1)
    BY <2>3 DEF Recurs
  <2>. QED BY <2>2, <2>4
<1>. HIDE DEF S
<1>3. Nat \subseteq S
  BY <1>1, <1>2, UpFromZero
<1>. QED BY <1>3 DEF S

\* The first of some numbers, as the reader chooses it.
LEMMA FirstIn ==
  ASSUME NEW T \in SUBSET Nat, T # {}
  PROVE  (CHOOSE q \in T : \A o \in T : q <= o) \in T
BY Least

-----------------------------------------------------------------------------
(***************************************************************************)
(* Budgets.                                                                *)
(***************************************************************************)
\* A share never passes what remains.
Sound(b) == b \in Budgets /\ b.entry <= b.remaining

LEMMA ChargeSound ==
  ASSUME NEW b, Sound(b), NEW n \in Nat
  PROVE  /\ Sound(Charge(b, n))
         /\ Charge(b, n).remaining <= b.remaining
         /\ Charge(b, n).entry = Monus(b.entry, n) /\ Charge(b, n).remaining = Monus(b.remaining, n)
BY DEF Sound, Budgets, Charge, Monus

\* A charge within the share leaves the rest of the total alone.
LEMMA ChargeWithin ==
  ASSUME NEW b, Sound(b), NEW n \in Nat, n <= b.entry
  PROVE  LET c == Charge(b, n) IN
         /\ Sound(c) /\ c.remaining = b.remaining - n /\ c.entry = b.entry - n
BY DEF Sound, Budgets, Charge, Monus

LEMMA Quotient ==
  ASSUME NEW r \in Nat, NEW n \in Nat, n >= 1
  PROVE  /\ r \div n \in Nat /\ r \div n <= r /\ n * (r \div n) <= r
         /\ \A p \in Nat : n * p <= r => p <= r \div n
OBVIOUS

-----------------------------------------------------------------------------
(***************************************************************************)
(* Data, and what a decoder makes of it.                                   *)
(***************************************************************************)
Data == Seq(Units)

LEMMA PrefixIs ==
  ASSUME NEW s \in Data, NEW n \in Nat
  PROVE  Prefix(s, n) \in Data /\ Len(Prefix(s, n)) = AtMost(n, Len(s))
BY DEF Data, Prefix, AtMost

LEMMA RestIs ==
  ASSUME NEW s \in Data, NEW m \in Nat \ {0}
  PROVE  SubSeq(s, m, Len(s)) \in Data
BY DEF Data

\* What a decoder under a cap answers; paid bounds what it writes and its
\* block work together.
Answers(a, input, cap, paid) ==
  /\ a.bytes \in Data /\ Len(a.bytes) <= cap
  /\ a.used \in Nat /\ a.used <= Len(input)
  /\ a.work \in Nat /\ Len(a.bytes) + a.work <= paid

LEMMA AnswerIs ==
  ASSUME NEW input, NEW cap, NEW paid, NEW used \in Nat, NEW bytes \in Data, NEW extra \in Nat,
         NEW capped, NEW result,
         used <= Len(input), Len(bytes) <= cap, Len(bytes) + extra <= paid
  PROVE  Answers(Answer(used, bytes, extra, capped, result), input, cap, paid)
BY DEF Answer, Answers

LEMMA CopyAnswers ==
  ASSUME NEW input \in Data, NEW cap \in Nat, NEW paid \in Nat, cap <= paid
  PROVE  Answers(Copy(input, cap), input, cap, paid)
<1>. DEFINE n == AtMost(Len(input), cap)
<1>1. n \in Nat /\ n <= cap /\ n <= Len(input)
  BY DEF AtMost, Data
<1>2. Prefix(input, n) \in Data /\ Len(Prefix(input, n)) = n
  BY <1>1, PrefixIs DEF AtMost, Data
<1>. QED BY <1>1, <1>2 DEF Copy, Answer, Answers

LEMMA InflateAnswers ==
  ASSUME NEW input \in Data, NEW cap \in Nat, NEW paid \in Nat
  PROVE  Answers(Inflate("deflate", input, cap, paid), input, cap, paid)
<1>. DEFINE s == input[1]
            limit == AtMost(cap, Monus(paid, s.work))
            a == Inflate("deflate", input, cap, paid)
<1>. SUFFICES Answers(a, input, cap, paid)
  OBVIOUS
<1>0. <<>> \in Data /\ Len(<<>>) = 0 /\ Len(input) \in Nat
  BY DEF Data
<1>1. CASE input = <<>>
  BY <1>0, <1>1 DEF Inflate, Answer, Answers
<1>2. CASE input # <<>> /\ s.u # "deflate"
  <2>1. Len(input) >= 1
    BY <1>2 DEF Data
  <2>. QED BY <1>0, <1>2, <2>1 DEF Inflate, Answer, Answers
<1>3. CASE input # <<>> /\ s.u = "deflate"
  <2>1. Len(input) >= 1 /\ s \in Units
    BY <1>3 DEF Data
  <2>2. s.used \in Nat /\ s.out \in Data /\ s.work \in Nat
    BY <1>3, <2>1, UnitsAssumption DEF Data
  <2>3. limit \in Nat /\ limit <= cap /\ (s.work <= paid => limit + s.work <= paid)
    BY <2>2 DEF AtMost, Monus
  <2>4. Prefix(s.out, limit) \in Data /\ Len(Prefix(s.out, limit)) <= limit
    BY <2>2, <2>3, PrefixIs DEF AtMost, Data
  <2>5. Prefix(s.out, 1) \in Data /\ Len(Prefix(s.out, 1)) <= Len(s.out) /\ Len(s.out) \in Nat
    BY <2>2, PrefixIs DEF AtMost, Data
  <2>6. AtMost(s.used, Len(input)) \in Nat /\ AtMost(s.used, Len(input)) <= Len(input)
    BY <1>0, <2>2 DEF AtMost
  <2>7. CASE s.work > paid
    <3>1. a = Answer(1, <<>>, 0, cap > 0, "budget")
      BY <1>3, <2>7 DEF Inflate
    <3>. QED BY <1>0, <2>1, <3>1, AnswerIs
  <2>8. CASE ~(s.work > paid) /\ Len(s.out) > limit
    <3>1. a = Answer(AtMost(s.used, Len(input)), Prefix(s.out, limit), s.work, limit < cap, "budget")
      BY <1>3, <2>8 DEF Inflate
    <3>. HIDE DEF limit, s, a
    <3>2. Len(Prefix(s.out, limit)) + s.work <= paid /\ Len(Prefix(s.out, limit)) <= cap
      BY <2>2, <2>3, <2>4, <2>8 DEF Data
    <3>. QED BY <2>2, <2>4, <2>6, <3>1, <3>2, AnswerIs
  <2>9. CASE ~(s.work > paid) /\ ~(Len(s.out) > limit)
    <3>1. \/ /\ Len(input) < s.used
             /\ a = Answer(Len(input), Prefix(s.out, 1), s.work, FALSE, "truncated")
          \/ /\ ~(Len(input) < s.used)
             /\ a = Answer(s.used, s.out, s.work, FALSE, "ok")
      BY <1>3, <2>9 DEF Inflate
    <3>. HIDE DEF limit, s, a
    <3>2. Len(s.out) <= cap /\ Len(s.out) + s.work <= paid
      BY <2>2, <2>3, <2>5, <2>9
    <3>3. Len(Prefix(s.out, 1)) <= cap /\ Len(Prefix(s.out, 1)) + s.work <= paid
      BY <2>2, <2>5, <3>2 DEF Data
    <3>4. Len(input) <= Len(input) /\ (~(Len(input) < s.used) => s.used <= Len(input))
      BY <1>0, <2>2
    <3>. QED BY <1>0, <2>2, <2>5, <3>1, <3>2, <3>3, <3>4, AnswerIs
  <2>. QED BY <2>7, <2>8, <2>9
<1>. QED BY <1>1, <1>2, <1>3

LEMMA BunzipAnswers ==
  ASSUME NEW input \in Data, NEW cap \in Nat, NEW paid \in Nat, cap <= paid
  PROVE  Answers(Bunzip(input, cap), input, cap, paid)
<1>. DEFINE s == input[1]
            a == Bunzip(input, cap)
<1>. SUFFICES Answers(a, input, cap, paid)
  OBVIOUS
<1>0. <<>> \in Data /\ Len(<<>>) = 0 /\ Len(input) \in Nat
  BY DEF Data
<1>1. CASE input = <<>>
  BY <1>0, <1>1 DEF Bunzip, Answer, Answers
<1>2. CASE input # <<>> /\ s.u # "bzip2"
  <2>1. Len(input) >= 1
    BY <1>2 DEF Data
  <2>. QED BY <1>0, <1>2, <2>1 DEF Bunzip, Answer, Answers
<1>3. CASE input # <<>> /\ s.u = "bzip2"
  <2>1. s \in Units
    BY <1>3 DEF Data
  <2>2. s.used \in Nat /\ s.out \in Data
    BY <1>3, <2>1, UnitsAssumption DEF Data
  <2>3. /\ Prefix(s.out, cap) \in Data /\ Len(Prefix(s.out, cap)) <= cap
        /\ Len(s.out) \in Nat /\ Len(Prefix(s.out, cap)) \in Nat
    BY <2>2, PrefixIs DEF AtMost, Data
  <2>4. \/ a = Answer(Len(input), <<>>, 0, FALSE, "truncated")
        \/ s.used <= Len(input) /\ a = Answer(s.used, Prefix(s.out, cap), 0, FALSE, "budget")
        \/ /\ s.used <= Len(input) /\ Len(s.out) <= cap
           /\ a = Answer(s.used, s.out, 0, FALSE, "ok")
    <3>1. \/ Len(input) < s.used
          \/ s.used <= Len(input) /\ Len(s.out) > cap
          \/ s.used <= Len(input) /\ ~(Len(s.out) > cap) /\ Len(s.out) <= cap
      BY <1>0, <2>2, <2>3
    <3>2. s.used <= Len(input) => ~(Len(input) < s.used)
      BY <1>0, <2>2
    <3>. QED BY <1>3, <3>1, <3>2, Zenon DEF Bunzip
  <2>5. Len(<<>>) <= cap /\ Len(<<>>) + 0 <= paid /\ Len(input) <= Len(input)
        /\ \A n \in Nat : n <= cap => n + 0 <= paid
    BY <1>0
  <2>. HIDE DEF s, a
  <2>. QED BY <1>0, <2>2, <2>3, <2>4, <2>5, AnswerIs
<1>. QED BY <1>1, <1>2, <1>3

LEMMA BlockIs ==
  ASSUME NEW input \in Data
  PROVE  BlockSize(input) \in Nat
<1>1. CASE Opens(input, "bzip2")
  <2>1. input[1] \in Units /\ input[1].u = "bzip2"
    BY <1>1 DEF Opens, Data
  <2>. QED BY <1>1, <2>1, UnitsAssumption DEF BlockSize
<1>. QED BY <1>1 DEF BlockSize

-----------------------------------------------------------------------------
(***************************************************************************)
(* One interpretation decoded.                                             *)
(***************************************************************************)
LimitRecords == [entries : Nat, depth : Nat, member : Nat, readBack : Nat, ratio : Nat]

\* An interpretation whose extent is known, and a stream whose end only a
\* decode finds.
Knowns ==
  [name : STRING, aliases : Seq(STRING), header : Nat, start : Nat \ {0}, method : Nat,
   enc : BOOLEAN, extent : Nat, crc : Int, zip64 : BOOLEAN, verify : BOOLEAN]
Blockings ==
  [name : STRING, aliases : Seq(STRING), header : Nat, start : Nat \ {0},
   method : {DEFLATE, BZIP2}, enc : BOOLEAN, extent : {Stream}, crc : Int, zip64 : BOOLEAN,
   verify : BOOLEAN]

\* The slack of a budget, what is not of the share.
Slack(b) == b.remaining - b.entry

\* What a decode under b leaves: it costs no more than it charges.
Paid(b, r) ==
  /\ Sound(r.shares) /\ r.bytes \in Data /\ r.used \in Nat /\ r.cost \in Nat
  /\ r.cost + r.shares.remaining <= b.remaining

LEMMA DecodePays ==
  ASSUME limits \in LimitRecords,
         NEW f, f.data \in Data, NEW i \in Knowns \cup Blockings, Decodable(i.method),
         NEW b, Sound(b), i \in Blockings => 2 * b.entry <= b.remaining,
         ~Decode(f, i, b).refused
  PROVE  LET r == Decode(f, i, b) IN
         Paid(b, r) /\ (i \in Knowns => Slack(r.shares) = Slack(b))
<1>. DEFINE known == i.extent # Stream
            avail == SubSeq(f.data, i.start, Len(f.data))
            want == IF known THEN i.extent ELSE Len(avail)
            present == Prefix(avail, want)
            share == b.entry \div 2
            input == Prefix(present, share)
            block == IF i.method = BZIP2 THEN BlockSize(input) ELSE 0
            paid == IF known THEN Charge(b, AtLeast(Len(input), block)) ELSE b
            ratioCap == IF known THEN limits.ratio * AtLeast(want, 1) ELSE limits.member + paid.entry
            cap == AtMost(limits.member, AtMost(paid.entry, ratioCap))
            a == CASE i.method = STORED  -> Copy(input, cap)
                   [] i.method = DEFLATE -> Inflate("deflate", input, cap, paid.entry)
                   [] OTHER              -> Bunzip(input, cap)
            after == Charge(Charge(IF known THEN paid ELSE Charge(paid, AtLeast(a.used, block)),
                                   Len(a.bytes)), a.work)
            r == Decode(f, i, b)
<1>. SUFFICES Paid(b, r) /\ (i \in Knowns => Slack(r.shares) = Slack(b))
  BY Zenon
<1>1. /\ r.refused = (share = 0 \/ block > share) /\ r.bytes = a.bytes /\ r.used = a.used
      /\ r.shares = after
      /\ r.cost = (IF known THEN Len(input) ELSE a.used) + Len(a.bytes)
  BY Zenon DEF Decode
<1>2. avail \in Data /\ Len(avail) \in Nat
  BY RestIs DEF Data, Knowns, Blockings
<1>3. want \in Nat /\ (i \in Knowns <=> known) /\ (i \in Blockings <=> ~known)
  BY <1>2 DEF Knowns, Blockings, Stream
<1>4. present \in Data
  <2>. HIDE DEF avail, want
  <2>. QED BY <1>2, <1>3, PrefixIs
<1>5. share \in Nat /\ 2 * share <= b.entry /\ b.entry \in Nat /\ b.remaining \in Nat
      /\ b.entry <= b.remaining
  BY DEF Sound, Budgets
<1>6. input \in Data /\ Len(input) \in Nat /\ Len(input) <= share
  <2>. HIDE DEF present, share
  <2>1. Len(present) \in Nat
    BY <1>4 DEF Data
  <2>2. input \in Data /\ Len(input) = AtMost(share, Len(present))
    BY <1>4, <1>5, PrefixIs
  <2>. QED BY <1>5, <2>1, <2>2 DEF AtMost
<1>7. block \in Nat /\ block <= share
  <2>1. block \in Nat
    <3>. HIDE DEF input
    <3>. QED BY <1>6, BlockIs
  <2>2. ~(block > share)
    BY <1>1
  <2>. HIDE DEF block, share
  <2>. QED BY <1>5, <2>1, <2>2
<1>8. Sound(paid) /\ (known => /\ paid.remaining + AtLeast(Len(input), block) = b.remaining
                               /\ paid.entry + AtLeast(Len(input), block) = b.entry)
      /\ (~known => paid = b)
  <2>. HIDE DEF input, block, share, known
  <2>1. AtLeast(Len(input), block) \in Nat /\ AtLeast(Len(input), block) <= b.entry
    BY <1>5, <1>6, <1>7 DEF AtLeast
  <2>. HIDE DEF AtLeast
  <2>2. CASE known
    <3>1. paid = Charge(b, AtLeast(Len(input), block))
      BY <2>2
    <3>. HIDE DEF paid
    <3>. QED BY <1>5, <2>1, <2>2, <3>1, ChargeWithin
  <2>. QED BY <2>2
<1>9. cap \in Nat /\ cap <= paid.entry /\ paid.entry \in Nat
  <2>. HIDE DEF paid, want, known
  <2>1. paid.entry \in Nat
    BY <1>8 DEF Sound, Budgets
  <2>2. ratioCap \in Nat
    <3>1. limits.ratio \in Nat /\ limits.member \in Nat /\ AtLeast(want, 1) \in Nat
      BY <1>3 DEF LimitRecords, AtLeast
    <3>2. limits.ratio * AtLeast(want, 1) \in Nat /\ limits.member + paid.entry \in Nat
      BY <2>1, <3>1
    <3>. QED BY <3>2
  <2>. HIDE DEF ratioCap
  <2>. QED BY <2>1, <2>2 DEF AtMost, LimitRecords
<1>10. Answers(a, input, cap, paid.entry)
  <2>. HIDE DEF input, cap, paid
  <2>. QED BY <1>6, <1>9, CopyAnswers, InflateAnswers, BunzipAnswers DEF Decodable
<1>. DEFINE before == IF known THEN paid ELSE Charge(paid, AtLeast(a.used, block))
<1>11. /\ Sound(before)
       /\ known => before = paid
       /\ ~known => before.remaining + AtLeast(a.used, block) = b.remaining
  <2>. HIDE DEF a, block, paid, input, share, known
  <2>1. CASE known
    BY <1>8, <2>1
  <2>2. CASE ~known
    <3>1. AtLeast(a.used, block) \in Nat /\ AtLeast(a.used, block) <= b.entry
      BY <1>5, <1>6, <1>7, <1>10 DEF AtLeast, Answers
    <3>2. before = Charge(b, AtLeast(a.used, block))
      BY <1>8, <2>2
    <3>. HIDE DEF before
    <3>. QED BY <1>5, <2>2, <3>1, <3>2, ChargeWithin
  <2>. QED BY <2>1, <2>2
<1>12. /\ Len(a.bytes) \in Nat /\ a.work \in Nat /\ Len(a.bytes) + a.work <= paid.entry
       /\ a.used \in Nat /\ a.used <= Len(input)
  <2>. HIDE DEF a, paid, input
  <2>. QED BY <1>10 DEF Answers, Data
<1>13. CASE known
  <2>1. after = Charge(Charge(paid, Len(a.bytes)), a.work)
    BY <1>13, Zenon
  <2>2. r.cost = Len(input) + Len(a.bytes)
    BY <1>1, <1>13, Zenon
  <2>. HIDE DEF after, paid, a, input, r, block, known
  <2>. DEFINE mid == Charge(paid, Len(a.bytes))
  <2>3. /\ Sound(mid) /\ mid.remaining = paid.remaining - Len(a.bytes)
        /\ mid.entry = paid.entry - Len(a.bytes)
    BY <1>8, <1>9, <1>12, ChargeWithin
  <2>. HIDE DEF mid
  <2>4. a.work <= mid.entry
    BY <1>9, <1>12, <2>3
  <2>5. /\ Sound(after) /\ after.remaining = mid.remaining - a.work
        /\ after.entry = mid.entry - a.work
    BY <1>12, <2>1, <2>3, <2>4, ChargeWithin DEF mid
  <2>6. AtLeast(Len(input), block) >= Len(input) /\ AtLeast(Len(input), block) \in Nat
    BY <1>6, <1>7 DEF AtLeast
  <2>7. paid.remaining \in Nat /\ paid.entry \in Nat
    BY <1>8 DEF Sound, Budgets
  <2>8. Len(input) + Len(a.bytes) + after.remaining <= b.remaining
        /\ Slack(after) = Slack(b)
    <3>1. /\ paid.remaining + AtLeast(Len(input), block) = b.remaining
          /\ paid.entry + AtLeast(Len(input), block) = b.entry
      BY <1>8, <1>13
    <3>2. /\ after.remaining = paid.remaining - Len(a.bytes) - a.work
          /\ after.entry = paid.entry - Len(a.bytes) - a.work
      BY <2>3, <2>5
    <3>. DEFINE K == AtLeast(Len(input), block)
                L == Len(a.bytes)
                W == a.work
                I == Len(input)
    <3>5. /\ K \in Nat /\ L \in Nat /\ W \in Nat /\ I \in Nat /\ I <= K
          /\ paid.remaining \in Nat /\ paid.entry \in Nat /\ b.remaining \in Nat /\ b.entry \in Nat
      BY <1>5, <1>6, <1>12, <2>6, <2>7
    <3>6. /\ paid.remaining + K = b.remaining /\ paid.entry + K = b.entry
          /\ after.remaining = paid.remaining - L - W /\ after.entry = paid.entry - L - W
      BY <3>1, <3>2
    <3>. HIDE DEF K, L, W, I
    <3>7. I + L + after.remaining <= b.remaining /\ after.remaining - after.entry = b.remaining - b.entry
      BY <3>5, <3>6
    <3>3. Len(input) + Len(a.bytes) + after.remaining <= b.remaining
      BY <3>7 DEF I, L
    <3>4. after.remaining - after.entry = b.remaining - b.entry
      BY <3>7
    <3>. QED BY <3>3, <3>4 DEF Slack
  <2>9. a.bytes \in Data
    BY <1>10 DEF Answers
  <2>. QED BY <1>1, <1>6, <1>12, <2>2, <2>5, <2>8, <2>9 DEF Paid
<1>14. CASE ~known
  <2>1. after = Charge(Charge(before, Len(a.bytes)), a.work)
    BY <1>14, Zenon
  <2>2. r.cost = a.used + Len(a.bytes)
    BY <1>1, <1>14, Zenon
  <2>3. paid = b /\ i \in Blockings /\ i \notin Knowns
    BY <1>3, <1>8, <1>14
  <2>. HIDE DEF after, paid, a, input, r, block, known, before, share
  <2>. DEFINE mid == Charge(before, Len(a.bytes))
  <2>4. /\ AtLeast(a.used, block) \in Nat /\ AtLeast(a.used, block) <= share
        /\ a.used <= AtLeast(a.used, block)
    BY <1>5, <1>6, <1>7, <1>12 DEF AtLeast
  <2>5. before.remaining \in Nat /\ Len(a.bytes) <= before.remaining
    BY <1>5, <1>11, <1>12, <1>14, <2>3, <2>4, SMTT(40) DEF Sound, Budgets
  <2>6. Sound(mid) /\ mid.remaining = before.remaining - Len(a.bytes)
    <3>1. Sound(mid) /\ mid.remaining = Monus(before.remaining, Len(a.bytes))
      BY <1>11, <1>12, ChargeSound
    <3>. HIDE DEF mid
    <3>. QED BY <1>12, <2>5, <3>1 DEF Monus
  <2>. HIDE DEF mid
  <2>7. Sound(after) /\ after.remaining <= mid.remaining
    BY <1>12, <2>1, <2>6, ChargeSound DEF mid
  <2>8. after.remaining \in Nat
    BY <2>7 DEF Sound, Budgets
  <2>9. a.used + Len(a.bytes) + after.remaining <= b.remaining
    <3>1. before.remaining + AtLeast(a.used, block) = b.remaining
      BY <1>11, <1>14, Zenon
    <3>2. /\ mid.remaining \in Nat /\ b.remaining \in Nat /\ a.used \in Nat
          /\ Len(a.bytes) \in Nat
      BY <1>5, <1>12, <2>6 DEF Sound, Budgets
    <3>. DEFINE K == AtLeast(a.used, block)
                U == a.used
                L == Len(a.bytes)
    <3>3. /\ K \in Nat /\ U \in Nat /\ L \in Nat /\ U <= K
          /\ before.remaining + K = b.remaining /\ L <= before.remaining
          /\ mid.remaining = before.remaining - L
      BY <2>4, <2>5, <2>6, <3>1, <3>2, Zenon
    <3>. HIDE DEF K, U, L
    <3>4. U + L + after.remaining <= b.remaining
      BY <2>5, <2>7, <2>8, <3>2, <3>3
    <3>. QED BY <3>4 DEF U, L
  <2>10. a.bytes \in Data
    BY <1>10 DEF Answers
  <2>. QED BY <1>1, <1>12, <2>2, <2>3, <2>7, <2>9, <2>10 DEF Paid
<1>. QED BY <1>13, <1>14

-----------------------------------------------------------------------------
(***************************************************************************)
(* What is delivered, and the share a member starts with.                  *)
(***************************************************************************)
LEMMA TimesMonotone ==
  ASSUME NEW a \in Nat, NEW b \in Nat, NEW c \in Nat, a <= b
  PROVE  a * c \in Nat /\ b * c \in Nat /\ a * c <= b * c
OBVIOUS

LEMMA VisitsPay ==
  ASSUME NEW f, NEW i \in Knowns \cup Blockings, NEW r, Sound(r.shares), r.bytes \in Data
  PROVE  LET v == Visits(f, i, r) IN
         /\ Sound(v.shares) /\ Slack(v.shares) = Slack(r.shares)
         /\ v.cost \in Nat /\ v.cost + v.shares.remaining <= r.shares.remaining
<1>. DEFINE nested == IsZipFormat(r.bytes)
            deep == nested /\ f.depth >= limits.depth
            reads == nested /\ ~deep
            visited == ~reads \/ ~(IsA(r.bytes, 1, "local") \/ IsA(r.bytes, 1, "end"))
            cost == EntryCost + Len(r.bytes)
            names == AtMost(Len(i.aliases), r.shares.entry \div cost)
            v == Visits(f, i, r)
<1>. SUFFICES /\ Sound(v.shares) /\ Slack(v.shares) = Slack(r.shares)
              /\ v.cost \in Nat /\ v.cost + v.shares.remaining <= r.shares.remaining
  BY Zenon
<1>1. \/ v.shares = r.shares /\ v.cost = 0
      \/ v.shares = Charge(r.shares, names * cost) /\ v.cost = names * Len(r.bytes)
  <2>1. CASE r.bytes = <<>>
    BY <2>1, Zenon DEF Visits
  <2>2. CASE r.bytes # <<>>
    <3>1. /\ v.shares = IF visited THEN Charge(r.shares, names * cost) ELSE r.shares
          /\ v.cost = IF visited THEN names * Len(r.bytes) ELSE 0
      BY <2>2, Zenon DEF Visits
    <3>. HIDE DEF visited, names, cost, v
    <3>. QED BY <3>1
  <2>. QED BY <2>1, <2>2
<1>2. r.shares.remaining \in Nat /\ r.shares.entry \in Nat
  BY DEF Sound, Budgets
<1>3. CASE v.shares = r.shares /\ v.cost = 0
  <2>. HIDE DEF v
  <2>. QED BY <1>2, <1>3
<1>4. CASE v.shares = Charge(r.shares, names * cost) /\ v.cost = names * Len(r.bytes)
  <2>. DEFINE L == Len(r.bytes)
              q == r.shares.entry \div cost
  <2>1. L \in Nat /\ cost \in Nat /\ L <= cost /\ cost >= 1
    BY ZipAssumption DEF Data
  <2>2. Len(i.aliases) \in Nat
    BY DEF Knowns, Blockings
  <2>. HIDE DEF cost, L
  <2>3. q \in Nat /\ cost * q <= r.shares.entry
    BY <1>2, <2>1, Quotient
  <2>. HIDE DEF q
  <2>4. names \in Nat /\ names <= q
    BY <2>2, <2>3 DEF AtMost, q
  <2>. HIDE DEF names
  <2>5. names * cost \in Nat /\ names * cost <= cost * q /\ cost * q \in Nat
    <3>1. q * cost = cost * q
      BY <2>1, <2>3
    <3>2. names * cost \in Nat /\ names * cost <= q * cost /\ q * cost \in Nat
      BY <2>1, <2>3, <2>4, TimesMonotone
    <3>. QED BY <3>1, <3>2, Zenon
  <2>6. names * L \in Nat /\ names * L <= names * cost
    <3>1. L * names <= cost * names /\ L * names \in Nat
      BY <2>1, <2>4, TimesMonotone
    <3>. QED BY <2>1, <2>4, <3>1
  <2>. DEFINE n == names * cost
              m == names * L
  <2>7. n \in Nat /\ n <= r.shares.entry /\ m \in Nat /\ m <= n
    <3>. DEFINE z == cost * q
    <3>1. n \in Nat /\ n <= z /\ z <= r.shares.entry /\ z \in Nat
      BY <2>3, <2>5, Zenon
    <3>2. m \in Nat /\ m <= n
      BY <2>6
    <3>. HIDE DEF n, m, z
    <3>. QED BY <1>2, <3>1, <3>2
  <2>8. v.shares = Charge(r.shares, n) /\ v.cost = m
    BY <1>4 DEF L
  <2>. HIDE DEF n, m, v
  <2>9. /\ Sound(v.shares) /\ v.shares.remaining = r.shares.remaining - n
        /\ v.shares.entry = r.shares.entry - n
    BY <2>7, <2>8, ChargeWithin
  <2>. QED BY <1>2, <2>7, <2>8, <2>9 DEF Slack
<1>. QED BY <1>1, <1>3, <1>4

LEMMA ShareSound ==
  ASSUME NEW f, Sound(f.shares), NEW n \in Nat \ {0}, n = Len(f.round), f.streams \in Nat
  PROVE  /\ Sound(Share(f)) /\ Share(f).remaining = f.shares.remaining
         /\ n <= f.streams => 2 * Share(f).entry <= Share(f).remaining
         /\ ~(n <= f.streams) => /\ n * Share(f).entry <= f.shares.remaining
                                 /\ \A p \in Nat : n * p <= f.shares.remaining => p <= Share(f).entry
<1>. DEFINE parts == n + IF n <= f.streams THEN 1 ELSE 0
<1>0. f.shares.remaining \in Nat
  BY DEF Sound, Budgets
<1>1. parts \in Nat /\ parts >= 1 /\ AtLeast(parts, 1) = parts
  <2>1. parts = n \/ parts = n + 1
    <3>1. CASE n <= f.streams
      BY <3>1
    <3>2. CASE ~(n <= f.streams)
      BY <3>2
    <3>. QED BY <3>1, <3>2
  <2>. HIDE DEF parts
  <2>. QED BY <2>1 DEF AtLeast
<1>2. /\ Share(f).remaining = f.shares.remaining
      /\ Share(f).entry = f.shares.remaining \div parts
  <2>1. Share(f) = [f.shares EXCEPT !.entry = f.shares.remaining \div AtLeast(parts, 1)]
    BY DEF Share, StartShare
  <2>. HIDE DEF parts
  <2>. QED BY <1>1, <2>1 DEF Sound, Budgets
<1>3. Share(f) \in Budgets
  <2>1. f.shares.remaining \div parts \in Nat
    <3>. HIDE DEF parts
    <3>. QED BY <1>0, <1>1, Quotient
  <2>2. Share(f) = [f.shares EXCEPT !.entry = f.shares.remaining \div AtLeast(parts, 1)]
    BY DEF Share, StartShare
  <2>. HIDE DEF parts
  <2>. QED BY <1>1, <2>1, <2>2 DEF Sound, Budgets
<1>4. /\ Share(f).entry \in Nat /\ Share(f).entry <= f.shares.remaining
      /\ parts * Share(f).entry <= f.shares.remaining
      /\ \A p \in Nat : parts * p <= f.shares.remaining => p <= Share(f).entry
  <2>. HIDE DEF parts
  <2>1. f.shares.remaining \div parts = Share(f).entry
    BY <1>2
  <2>. DEFINE R == f.shares.remaining
  <2>2. /\ R \div parts \in Nat /\ R \div parts <= R /\ parts * (R \div parts) <= R
        /\ \A p \in Nat : parts * p <= R => p <= R \div parts
    BY <1>0, <1>1, Quotient
  <2>. QED BY <2>1, <2>2, Zenon
<1>5. ASSUME n <= f.streams PROVE 2 * Share(f).entry <= Share(f).remaining
  <2>1. parts >= 2
    BY <1>5
  <2>. HIDE DEF parts
  <2>2. 2 * Share(f).entry <= parts * Share(f).entry /\ parts * Share(f).entry \in Nat
    BY <1>1, <1>4, <2>1, TimesMonotone
  <2>. QED BY <1>0, <1>2, <1>4, <2>2
<1>6. ~(n <= f.streams) => parts = n
  OBVIOUS
<1>. HIDE DEF parts
<1>7. ~(n <= f.streams) => /\ n * Share(f).entry <= f.shares.remaining
                           /\ \A p \in Nat : n * p <= f.shares.remaining => p <= Share(f).entry
  BY <1>4, <1>6, Zenon
<1>. QED BY <1>0, <1>2, <1>3, <1>4, <1>5, <1>7 DEF Sound

-----------------------------------------------------------------------------
(***************************************************************************)
(* What a round holds: what the queue held, merged and sorted.             *)
(***************************************************************************)
\* Interpretations of one sort, which stay of it when copies are merged.
Sort(V) == V = Knowns \/ V = Blockings

LEMMA MergeIn ==
  ASSUME NEW V, Sort(V), NEW k \in V, NEW i \in V
  PROVE  Merge(k, i) \in V
<1>1. /\ i.name \in STRING /\ i.verify \in BOOLEAN /\ k.verify \in BOOLEAN
      /\ k.aliases \in Seq(STRING)
  <2>1. CASE V = Knowns
    BY <2>1 DEF Knowns
  <2>2. CASE V = Blockings
    BY <2>2 DEF Blockings
  <2>. QED BY <2>1, <2>2 DEF Sort
<1>2. Append(k.aliases, i.name) \in Seq(STRING)
  BY <1>1
<1>. DEFINE v == k.verify \/ i.verify
            a == IF i.name = k.name \/ i.name \in Range(k.aliases)
                 THEN k.aliases ELSE Append(k.aliases, i.name)
<1>3. v \in BOOLEAN /\ a \in Seq(STRING)
  BY <1>1, <1>2
<1>4. Merge(k, i) = [k EXCEPT !.verify = v, !.aliases = a]
  BY DEF Merge
<1>. HIDE DEF v, a
<1>5. CASE V = Knowns
  BY <1>3, <1>4, <1>5 DEF Knowns
<1>6. CASE V = Blockings
  BY <1>3, <1>4, <1>6 DEF Blockings
<1>. QED BY <1>5, <1>6 DEF Sort

LEMMA KeepIn ==
  ASSUME NEW V, Sort(V), NEW out \in Seq(V), NEW i \in V, NEW done
  PROVE  Keep(out, i, done) \in Seq(V)
<1>. DEFINE m == [k \in DOMAIN out |-> IF Key(out[k]) = Key(i) THEN Merge(out[k], i) ELSE out[k]]
<1>1. m \in Seq(V)
  <2>1. \A k \in DOMAIN out : out[k] \in V /\ Merge(out[k], i) \in V
    BY MergeIn
  <2>2. \A k \in DOMAIN out : m[k] \in V
    BY <2>1
  <2>3. DOMAIN m = 1..Len(out) /\ Len(out) \in Nat
    OBVIOUS
  <2>4. m \in [1..Len(out) -> V]
    BY <2>2
  <2>. HIDE DEF m
  <2>. QED BY <2>3, <2>4
<1>2. Append(out, i) \in Seq(V)
  OBVIOUS
<1>. QED BY <1>1, <1>2, Zenon DEF Keep

\* s is what is kept of items, one item after the other.
DedupRun(s, items, done) ==
  /\ s[0] = <<>> /\ Dedup(items, done) = s[Len(items)]
  /\ \A n \in 1..Len(items) : s[n] = Keep(s[n - 1], items[n], done)

LEMMA DedupRuns ==
  ASSUME NEW V, Sort(V), NEW items \in Seq(V), NEW done
  PROVE  \E s \in [0..Len(items) -> Seq(V)] : DedupRun(s, items, done)
<1>. DEFINE W == Seq(V)
            N == Len(items)
            g == [n \in Nat |-> [v \in W |-> IF n \in DOMAIN items THEN Keep(v, items[n], done) ELSE v]]
            G(f) == [n \in 0..N |-> IF n = 0 THEN <<>> ELSE Keep(f[n - 1], items[n], done)]
            kept == CHOOSE f : f = G(f)
<1>1. <<>> \in W /\ N \in Nat /\ DOMAIN items = 1..N /\ \A n \in 1..N : items[n] \in V
  OBVIOUS
<1>2. \A n \in 1..N, v \in W : Keep(v, items[n], done) \in W
  BY <1>1, KeepIn
<1>3. g \in [Nat -> [W -> W]]
  <2>. HIDE DEF W, N
  <2>. QED BY <1>1, <1>2
<1>4. PICK f \in [0..N -> W] : Recurs(f, g, <<>>, N)
  <2>. HIDE DEF g, W, N
  <2>. QED BY <1>1, <1>3, RecursionExists
<1>5. f = G(f)
  <2>1. ASSUME NEW n \in 0..N, n # 0 PROVE g[n][f[n - 1]] = Keep(f[n - 1], items[n], done)
    <3>1. n \in Nat /\ n \in 1..N /\ n - 1 \in 0..N
      BY <1>1, <2>1
    <3>. HIDE DEF W, N
    <3>2. f[n - 1] \in W
      BY <3>1
    <3>. DEFINE v == f[n - 1]
    <3>. HIDE DEF v
    <3>3. g[n][v] = Keep(v, items[n], done)
      BY <1>1, <3>1, <3>2 DEF v
    <3>. QED BY <3>3 DEF v
  <2>. HIDE DEF g
  <2>. QED BY <1>4, <2>1 DEF Recurs
<1>6. kept = G(kept)
  <2>. HIDE DEF G
  <2>. QED BY <1>5, Zenon
<1>7. Dedup(items, done) = kept[N]
  BY DEF Dedup
<1>. HIDE DEF kept, g
<1>. DEFINE S == {n \in Nat : n <= N => kept[n] \in W}
<1>8. 0 \in S
  <2>1. 0 \in 0..N
    BY <1>1
  <2>. HIDE DEF W, N
  <2>. QED BY <1>1, <1>6, <2>1
<1>9. ASSUME NEW n \in Nat, n \in S PROVE n + 1 \in S
  <2>1. SUFFICES ASSUME n + 1 <= N PROVE kept[n + 1] \in W
    OBVIOUS
  <2>2. n + 1 \in 0..N /\ n + 1 # 0 /\ (n + 1) - 1 = n /\ n <= N /\ n + 1 \in 1..N
    BY <1>1, <2>1
  <2>. HIDE DEF W, N
  <2>3. kept[n + 1] = Keep(kept[n], items[n + 1], done)
    BY <1>6, <2>2
  <2>. QED BY <1>2, <1>9, <2>2, <2>3
<1>. HIDE DEF S
<1>10. Nat \subseteq S
  BY <1>8, <1>9, UpFromZero
<1>11. \A n \in 0..N : kept[n] \in W
  <2>1. \A n \in 0..N : n \in Nat /\ n <= N
    BY <1>1
  <2>. QED BY <1>10, <2>1 DEF S
<1>12. kept \in [0..N -> W]
  <2>1. kept = [n \in 0..N |-> kept[n]]
    <3>. HIDE DEF W, N
    <3>1. PICK X : X = [n \in 0..N |-> IF n = 0 THEN <<>> ELSE Keep(kept[n - 1], items[n], done)]
      OBVIOUS
    <3>2. kept = X
      BY <1>6, <3>1, Zenon
    <3>3. X = [n \in 0..N |-> X[n]]
      BY <3>1
    <3>. QED BY <3>2, <3>3
  <2>. HIDE DEF W, N
  <2>. QED BY <1>11, <2>1
<1>13. kept[0] = <<>> /\ \A n \in 1..N : kept[n] = Keep(kept[n - 1], items[n], done)
  <2>1. 0 \in 0..N /\ \A n \in 1..N : n \in 0..N /\ n # 0
    BY <1>1
  <2>. HIDE DEF W, N
  <2>. QED BY <1>6, <2>1
<1>. QED BY <1>7, <1>12, <1>13 DEF DedupRun

LEMMA DedupIn ==
  ASSUME NEW V, Sort(V), NEW items \in Seq(V), NEW done
  PROVE  Dedup(items, done) \in Seq(V)
<1>1. PICK s \in [0..Len(items) -> Seq(V)] : Dedup(items, done) = s[Len(items)]
  BY DedupRuns DEF DedupRun
<1>2. Len(items) \in 0..Len(items)
  OBVIOUS
<1>. QED BY <1>1, <1>2

LEMMA InsertIn ==
  ASSUME NEW V, NEW out \in Seq(V), NEW i \in V, NEW d
  PROVE  Insert(out, i, d) \in Seq(V)
<1>. DEFINE T == {j \in DOMAIN out : NotAfter(out[j], i, d)}
            k == Cardinality(T)
<1>1. k \in Nat /\ k <= Len(out)
  <2>1. IsFiniteSet(1..Len(out)) /\ Cardinality(1..Len(out)) = Len(out)
    <3>1. 1 \in Int /\ Len(out) \in Int /\ Len(out) \in Nat
      OBVIOUS
    <3>2. IsFiniteSet(1..Len(out))
          /\ Cardinality(1..Len(out)) = IF 1 > Len(out) THEN 0 ELSE Len(out) - 1 + 1
      BY <3>1, FS_Interval
    <3>. QED BY <3>1, <3>2
  <2>2. T \in SUBSET (1..Len(out))
    OBVIOUS
  <2>. HIDE DEF T
  <2>3. IsFiniteSet(T) /\ Cardinality(T) <= Cardinality(1..Len(out))
    BY <2>1, <2>2, FS_Subset
  <2>. QED BY <2>1, <2>3, FS_CardinalityType
<1>2. Insert(out, i, d) = SubSeq(out, 1, k) \o <<i>> \o SubSeq(out, k + 1, Len(out))
  BY DEF Insert
<1>. HIDE DEF k
<1>3. SubSeq(out, 1, k) \in Seq(V) /\ SubSeq(out, k + 1, Len(out)) \in Seq(V)
  BY <1>1
<1>. QED BY <1>2, <1>3

\* s is items put in their order, one item after the other.
SortedRun(s, items, d) ==
  /\ s[0] = <<>> /\ Sorted(items, d) = s[Len(items)]
  /\ \A n \in 1..Len(items) : s[n] = Insert(s[n - 1], items[n], d)

LEMMA SortedRuns ==
  ASSUME NEW V, NEW items \in Seq(V), NEW d
  PROVE  \E s \in [0..Len(items) -> Seq(V)] : SortedRun(s, items, d)
<1>. DEFINE W == Seq(V)
            N == Len(items)
            g == [n \in Nat |-> [v \in W |-> IF n \in DOMAIN items THEN Insert(v, items[n], d) ELSE v]]
            G(f) == [n \in 0..N |-> IF n = 0 THEN <<>> ELSE Insert(f[n - 1], items[n], d)]
            sorted == CHOOSE f : f = G(f)
<1>1. <<>> \in W /\ N \in Nat /\ DOMAIN items = 1..N /\ \A n \in 1..N : items[n] \in V
  OBVIOUS
<1>2. \A n \in 1..N, v \in W : Insert(v, items[n], d) \in W
  BY <1>1, InsertIn
<1>3. g \in [Nat -> [W -> W]]
  <2>. HIDE DEF W, N
  <2>. QED BY <1>1, <1>2
<1>4. PICK f \in [0..N -> W] : Recurs(f, g, <<>>, N)
  <2>. HIDE DEF g, W, N
  <2>. QED BY <1>1, <1>3, RecursionExists
<1>5. f = G(f)
  <2>1. ASSUME NEW n \in 0..N, n # 0 PROVE g[n][f[n - 1]] = Insert(f[n - 1], items[n], d)
    <3>1. n \in Nat /\ n \in 1..N /\ n - 1 \in 0..N
      BY <1>1, <2>1
    <3>. HIDE DEF W, N
    <3>2. f[n - 1] \in W
      BY <3>1
    <3>. DEFINE v == f[n - 1]
    <3>. HIDE DEF v
    <3>3. g[n][v] = Insert(v, items[n], d)
      BY <1>1, <3>1, <3>2 DEF v
    <3>. QED BY <3>3 DEF v
  <2>. HIDE DEF g
  <2>. QED BY <1>4, <2>1 DEF Recurs
<1>6. sorted = G(sorted)
  <2>. HIDE DEF G
  <2>. QED BY <1>5, Zenon
<1>7. Sorted(items, d) = sorted[N]
  BY DEF Sorted
<1>. HIDE DEF sorted, g
<1>. DEFINE S == {n \in Nat : n <= N => sorted[n] \in W}
<1>8. 0 \in S
  <2>1. 0 \in 0..N
    BY <1>1
  <2>. HIDE DEF W, N
  <2>. QED BY <1>1, <1>6, <2>1
<1>9. ASSUME NEW n \in Nat, n \in S PROVE n + 1 \in S
  <2>1. SUFFICES ASSUME n + 1 <= N PROVE sorted[n + 1] \in W
    OBVIOUS
  <2>2. n + 1 \in 0..N /\ n + 1 # 0 /\ (n + 1) - 1 = n /\ n <= N /\ n + 1 \in 1..N
    BY <1>1, <2>1
  <2>. HIDE DEF W, N
  <2>3. sorted[n + 1] = Insert(sorted[n], items[n + 1], d)
    BY <1>6, <2>2
  <2>. QED BY <1>2, <1>9, <2>2, <2>3
<1>. HIDE DEF S
<1>10. Nat \subseteq S
  BY <1>8, <1>9, UpFromZero
<1>11. \A n \in 0..N : sorted[n] \in W
  <2>1. \A n \in 0..N : n \in Nat /\ n <= N
    BY <1>1
  <2>. QED BY <1>10, <2>1 DEF S
<1>12. sorted \in [0..N -> W]
  <2>1. sorted = [n \in 0..N |-> sorted[n]]
    <3>. HIDE DEF W, N
    <3>1. PICK X : X = [n \in 0..N |-> IF n = 0 THEN <<>> ELSE Insert(sorted[n - 1], items[n], d)]
      OBVIOUS
    <3>2. sorted = X
      BY <1>6, <3>1, Zenon
    <3>3. X = [n \in 0..N |-> X[n]]
      BY <3>1
    <3>. QED BY <3>2, <3>3
  <2>. HIDE DEF W, N
  <2>. QED BY <1>11, <2>1
<1>13. sorted[0] = <<>> /\ \A n \in 1..N : sorted[n] = Insert(sorted[n - 1], items[n], d)
  <2>1. 0 \in 0..N /\ \A n \in 1..N : n \in 0..N /\ n # 0
    BY <1>1
  <2>. HIDE DEF W, N
  <2>. QED BY <1>6, <2>1
<1>. QED BY <1>7, <1>12, <1>13 DEF SortedRun

LEMMA SortedIn ==
  ASSUME NEW V, NEW items \in Seq(V), NEW d
  PROVE  Sorted(items, d) \in Seq(V)
<1>1. PICK s \in [0..Len(items) -> Seq(V)] : Sorted(items, d) = s[Len(items)]
  BY SortedRuns DEF SortedRun
<1>2. Len(items) \in 0..Len(items)
  OBVIOUS
<1>. QED BY <1>1, <1>2

-----------------------------------------------------------------------------
(***************************************************************************)
(* The state of a reading.                                                 *)
(***************************************************************************)
Places == [at : Nat, delta : Nat]
Sizes == [csize : Nat, usize : Nat, crc : Int]
Keys == Nat \X Nat \X Int \X BOOLEAN

Frames ==
  [data : Data, depth : Nat, path : Seq(STRING), shares : Budgets,
   phase : {"open", "central", "walk", "round"}, dirs : Seq(Places), at : Nat, left : Nat,
   byHeader : UNION {[S -> Sizes] : S \in SUBSET Nat}, queue : Seq(Knowns),
   blocked : Seq(Blockings), walks : Seq(Nat), pos : Nat, walked : SUBSET Nat,
   done : SUBSET Keys, round : Seq(Knowns \cup Blockings), streams : Nat, promise : Nat,
   spans : SUBSET (Nat \X Nat)]

\* The streams that block the walk are the last of a round.
StreamsLast(f) ==
  \A n \in DOMAIN f.round :
    f.round[n] \in IF Len(f.round) - n < f.streams THEN Blockings ELSE Knowns

\* A directory is read where the end record was found.
Placed(f) ==
  f.dirs # <<>> => FindEnd(f.data) # 0 /\ RecordOf(f.data, FindEnd(f.data)) # 0

Shaped(f) == StreamsLast(f) /\ Placed(f)

\* What the members of a round are promised is there, left being what the
\* round can still give.
Promised(f, left) ==
  f.phase = "round" /\ Len(f.round) > f.streams /\ f.promise >= EntryCost =>
    f.promise * Len(f.round) <= left

\* What the frame can still give: a nested reading may use the share up.
Left(k) == IF k = Len(stack) THEN stack[k].shares.remaining ELSE Slack(stack[k].shares)

FramesInv ==
  \A k \in DOMAIN stack :
    Sound(stack[k].shares) /\ Shaped(stack[k]) /\ Promised(stack[k], Left(k))

\* Behind the topmost frame, s[k] is the slack of the frames below it.
BelowInv(s) ==
  /\ s \in [1..Len(stack) -> Nat] /\ s[1] = 0
  /\ \A k \in 1..(Len(stack) - 1) :
       /\ s[k + 1] = s[k] + Slack(stack[k].shares)
       /\ stack[k + 1].shares.remaining <= stack[k].shares.entry

\* What was done and what may still be done stay within the allowance.
LedgerInv ==
  IF stack = <<>> THEN work <= limits.readBack
  ELSE \E s : BelowInv(s) /\ work + s[Len(stack)] + Top.shares.remaining <= limits.readBack

TypeOK ==
  /\ limits \in LimitRecords /\ stack \in Seq(Frames) /\ work \in Nat

ReadInv == TypeOK /\ FramesInv /\ LedgerInv

-----------------------------------------------------------------------------
(***************************************************************************)
(* A step that changes the topmost frame only.                             *)
(***************************************************************************)
LEMMA TopIs ==
  ASSUME ReadInv, stack # <<>>
  PROVE  /\ Len(stack) \in Nat \ {0} /\ Len(stack) \in DOMAIN stack /\ DOMAIN stack = 1..Len(stack)
         /\ Top \in Frames /\ Sound(Top.shares) /\ Shaped(Top)
         /\ Promised(Top, Top.shares.remaining)
<1>1. /\ Len(stack) \in Nat \ {0} /\ Len(stack) \in DOMAIN stack /\ DOMAIN stack = 1..Len(stack)
      /\ stack[Len(stack)] \in Frames
  BY DEF ReadInv, TypeOK
<1>. QED BY <1>1 DEF ReadInv, FramesInv, Left, Top

LEMMA ExceptLast ==
  ASSUME NEW V, NEW s \in Seq(V), s # <<>>, NEW g \in V
  PROVE  LET t == [s EXCEPT ![Len(s)] = g] IN
         /\ t \in Seq(V) /\ Len(t) = Len(s) /\ t # <<>> /\ DOMAIN t = 1..Len(s)
         /\ t[Len(s)] = g /\ \A k \in 1..Len(s) : k # Len(s) => t[k] = s[k]
<1>. DEFINE t == [s EXCEPT ![Len(s)] = g]
<1>1. Len(s) \in Nat /\ Len(s) \in 1..Len(s) /\ DOMAIN s = 1..Len(s)
  OBVIOUS
<1>2. t \in [1..Len(s) -> V]
  BY <1>1
<1>3. t[Len(s)] = g /\ \A k \in 1..Len(s) : k # Len(s) => t[k] = s[k]
  BY <1>1
<1>4. t \in Seq(V) /\ Len(t) = Len(s)
  <2>. HIDE DEF t
  <2>. QED BY <1>1, <1>2
<1>5. t # <<>> /\ DOMAIN t = 1..Len(s)
  <2>. HIDE DEF t
  <2>. QED BY <1>1, <1>2, <1>4
<1>. HIDE DEF t
<1>6. /\ t \in Seq(V) /\ Len(t) = Len(s) /\ t # <<>> /\ DOMAIN t = 1..Len(s)
      /\ t[Len(s)] = g /\ \A k \in 1..Len(s) : k # Len(s) => t[k] = s[k]
  BY <1>3, <1>4, <1>5
<1>. QED BY <1>6, Zenon DEF t

LEMMA UnderKeeps ==
  ASSUME ReadInv, stack # <<>>, NEW g \in Frames, Sound(g.shares), Shaped(g),
         Promised(g, g.shares.remaining), stack' = Under(g), limits' = limits,
         NEW n \in Nat, work' = work + n, n + g.shares.remaining <= Top.shares.remaining
  PROVE  ReadInv' /\ work <= work'
<1>. DEFINE N == Len(stack)
<1>1. /\ N \in Nat \ {0} /\ N \in DOMAIN stack /\ DOMAIN stack = 1..N
      /\ Top \in Frames /\ Sound(Top.shares)
  BY TopIs
<1>2. /\ stack' \in Seq(Frames) /\ Len(stack') = N /\ stack' # <<>> /\ DOMAIN stack' = 1..N
      /\ stack'[N] = g /\ \A k \in 1..N : k # N => stack'[k] = stack[k]
  <2>1. stack \in Seq(Frames) /\ stack' = [stack EXCEPT ![Len(stack)] = g]
    BY DEF Under, ReadInv, TypeOK
  <2>2. LET t == [stack EXCEPT ![Len(stack)] = g] IN
        /\ t \in Seq(Frames) /\ Len(t) = N /\ t # <<>> /\ DOMAIN t = 1..N
        /\ t[N] = g /\ \A k \in 1..N : k # N => t[k] = stack[k]
    BY <2>1, ExceptLast
  <2>. QED BY <2>1, <2>2, Zenon
<1>. HIDE DEF N
<1>3. TypeOK'
  BY <1>1, <1>2 DEF ReadInv, TypeOK
<1>4. FramesInv'
  <2>. SUFFICES ASSUME NEW k \in 1..N
                PROVE  Sound(stack'[k].shares) /\ Shaped(stack'[k]) /\ Promised(stack'[k], Left(k)')
    BY <1>2 DEF FramesInv
  <2>1. CASE k = N
    <3>1. Left(k)' = g.shares.remaining
      BY <1>2, <2>1 DEF Left
    <3>. QED BY <1>2, <2>1, <3>1
  <2>2. CASE k # N
    <3>1. Left(k)' = Left(k) /\ stack'[k] = stack[k]
      BY <1>2, <2>2 DEF Left, N
    <3>2. Sound(stack[k].shares) /\ Shaped(stack[k]) /\ Promised(stack[k], Left(k))
      BY <1>1, <2>2 DEF ReadInv, FramesInv
    <3>. QED BY <3>1, <3>2
  <2>. QED BY <2>1, <2>2
<1>5. LedgerInv'
  <2>1. PICK s : BelowInv(s) /\ work + s[N] + Top.shares.remaining <= limits.readBack
    BY DEF ReadInv, LedgerInv, N
  <2>2. s \in [1..N -> Nat] /\ s[N] \in Nat
    BY <1>1, <2>1 DEF BelowInv, N
  <2>3. /\ Top.shares.remaining \in Nat /\ g.shares.remaining \in Nat /\ work \in Nat
        /\ limits.readBack \in Nat
    BY <1>1 DEF Sound, Budgets, ReadInv, TypeOK, LimitRecords
  <2>4. BelowInv(s)'
    <3>1. /\ s \in [1..N -> Nat] /\ s[1] = 0
          /\ \A k \in 1..(N - 1) : /\ s[k + 1] = s[k] + Slack(stack[k].shares)
                                   /\ stack[k + 1].shares.remaining <= stack[k].shares.entry
      BY <2>1 DEF BelowInv, N
    <3>2. SUFFICES ASSUME NEW k \in 1..(N - 1)
                   PROVE  /\ s[k + 1] = s[k] + Slack(stack'[k].shares)
                          /\ stack'[k + 1].shares.remaining <= stack'[k].shares.entry
      BY <1>2, <3>1 DEF BelowInv
    <3>3. k # N /\ k \in 1..N /\ k + 1 \in 1..N /\ stack'[k] = stack[k]
      BY <1>1, <1>2
    <3>4. CASE k + 1 # N
      BY <1>2, <3>1, <3>3, <3>4
    <3>5. CASE k + 1 = N
      <4>1. stack'[k + 1].shares.remaining = g.shares.remaining
            /\ stack[k + 1].shares.remaining = Top.shares.remaining
        BY <1>2, <3>5 DEF Top, N
      <4>2. stack[k].shares.entry \in Nat
        BY <1>1, <3>3 DEF ReadInv, FramesInv, Sound, Budgets
      <4>. QED BY <2>3, <3>1, <3>3, <4>1, <4>2, SMTT(40)
    <3>. QED BY <3>4, <3>5
  <2>5. Top' = g
    BY <1>2 DEF Top
  <2>6. work' + s[N] + Top'.shares.remaining <= limits'.readBack
    <3>. DEFINE R == Top.shares.remaining
                T == g.shares.remaining
    <3>1. work' = work + n /\ limits' = limits /\ n + T <= R /\ R \in Nat /\ T \in Nat
      BY <2>3
    <3>. HIDE DEF R, T
    <3>2. work + s[N] + R <= limits.readBack
      BY <2>1 DEF R
    <3>3. work' + s[N] + T <= limits.readBack
      BY <2>2, <2>3, <3>1, <3>2
    <3>. QED BY <2>5, <3>1, <3>3 DEF T
  <2>. QED BY <1>2, <2>4, <2>6 DEF LedgerInv
<1>6. work <= work'
  BY DEF ReadInv, TypeOK
<1>. QED BY <1>3, <1>4, <1>5, <1>6 DEF ReadInv

-----------------------------------------------------------------------------
(***************************************************************************)
(* A nested reading begins, and one returns.                               *)
(***************************************************************************)
\* The shape is a matter of the round and of the directories.
LEMMA SameShape ==
  ASSUME NEW f, Shaped(f), NEW g, g.round = f.round, g.streams = f.streams, g.dirs = f.dirs,
         g.data = f.data
  PROVE  Shaped(g)
BY DEF Shaped, StreamsLast, Placed

LEMMA NewFrameIs ==
  ASSUME NEW data \in Data, NEW depth \in Nat, NEW path \in Seq(STRING), NEW total \in Nat
  PROVE  LET h == NewFrame(data, depth, path, total) IN
         /\ h \in Frames /\ Sound(h.shares) /\ h.shares.remaining = total /\ h.phase = "open"
         /\ Shaped(h)
<1>. DEFINE h == NewFrame(data, depth, path, total)
<1>1. /\ <<>> \in Seq(Places) /\ <<>> \in Seq(Knowns) /\ <<>> \in Seq(Blockings)
      /\ <<>> \in Seq(Nat) /\ <<>> \in Seq(Knowns \cup Blockings)
  OBVIOUS
<1>2. <<>> \in UNION {[S -> Sizes] : S \in SUBSET Nat}
  <2>1. <<>> \in [{} -> Sizes] /\ {} \in SUBSET Nat
    OBVIOUS
  <2>. QED BY <2>1
<1>3. NewBudget(total) \in Budgets
  BY DEF NewBudget, Budgets
<1>4. h \in Frames
  <2>. HIDE DEF Places, Knowns, Blockings, Sizes
  <2>. QED BY <1>1, <1>2, <1>3, Zenon DEF NewFrame, Frames
<1>5. h.shares = NewBudget(total) /\ h.phase = "open" /\ h.round = <<>> /\ h.dirs = <<>>
  BY Zenon DEF NewFrame
<1>6. Sound(h.shares) /\ h.shares.remaining = total
  BY <1>5 DEF Sound, Budgets, NewBudget
<1>7. Shaped(h)
  BY <1>5 DEF Shaped, StreamsLast, Placed
<1>. QED BY <1>4, <1>5, <1>6, <1>7, Zenon

LEMMA PushKeeps ==
  ASSUME ReadInv, stack # <<>>, NEW g \in Frames, Sound(g.shares), Shaped(g),
         Promised(g, Slack(g.shares)),
         NEW h \in Frames, Sound(h.shares), h.shares.remaining = g.shares.entry,
         h.phase # "round", Shaped(h),
         stack' = Append(Under(g), h), limits' = limits,
         NEW n \in Nat, work' = work + n, n + g.shares.remaining <= Top.shares.remaining
  PROVE  ReadInv' /\ work <= work'
<1>. DEFINE N == Len(stack)
<1>1. /\ N \in Nat \ {0} /\ N \in DOMAIN stack /\ DOMAIN stack = 1..N
      /\ Top \in Frames /\ Sound(Top.shares)
  BY TopIs
<1>2. /\ stack' \in Seq(Frames) /\ Len(stack') = N + 1 /\ stack' # <<>> /\ DOMAIN stack' = 1..(N + 1)
      /\ stack'[N + 1] = h /\ stack'[N] = g /\ \A k \in 1..N : k # N => stack'[k] = stack[k]
  <2>. DEFINE t == [stack EXCEPT ![Len(stack)] = g]
  <2>1. stack \in Seq(Frames) /\ stack' = Append(t, h)
    BY DEF Under, ReadInv, TypeOK
  <2>2. /\ t \in Seq(Frames) /\ Len(t) = N /\ t # <<>> /\ DOMAIN t = 1..N
        /\ t[N] = g /\ \A k \in 1..N : k # N => t[k] = stack[k]
    <3>1. LET u == [stack EXCEPT ![Len(stack)] = g] IN
          /\ u \in Seq(Frames) /\ Len(u) = N /\ u # <<>> /\ DOMAIN u = 1..N
          /\ u[N] = g /\ \A k \in 1..N : k # N => u[k] = stack[k]
      BY <2>1, ExceptLast
    <3>. QED BY <3>1, Zenon
  <2>. HIDE DEF t, N
  <2>3. /\ Append(t, h) \in Seq(Frames) /\ Len(Append(t, h)) = N + 1
        /\ Append(t, h)[N + 1] = h /\ \A k \in 1..N : Append(t, h)[k] = t[k]
    BY <1>1, <2>2
  <2>4. stack' # <<>> /\ DOMAIN stack' = 1..(N + 1)
    BY <1>1, <2>1, <2>3
  <2>. QED BY <1>1, <2>1, <2>2, <2>3, <2>4
<1>. HIDE DEF N
<1>3. TypeOK'
  BY <1>1, <1>2 DEF ReadInv, TypeOK
<1>4. FramesInv'
  <2>. SUFFICES ASSUME NEW k \in 1..(N + 1)
                PROVE  Sound(stack'[k].shares) /\ Shaped(stack'[k]) /\ Promised(stack'[k], Left(k)')
    BY <1>2 DEF FramesInv
  <2>1. CASE k = N + 1
    BY <1>2, <2>1 DEF Promised
  <2>2. CASE k = N
    <3>1. Left(k)' = Slack(g.shares) /\ stack'[k] = g
      BY <1>1, <1>2, <2>2 DEF Left
    <3>. QED BY <3>1
  <2>3. CASE k # N /\ k # N + 1
    <3>0. k \in 1..N
      BY <1>1, <2>3
    <3>1. Left(k)' = Left(k) /\ stack'[k] = stack[k]
      BY <1>2, <2>3, <3>0 DEF Left, N
    <3>2. Sound(stack[k].shares) /\ Shaped(stack[k]) /\ Promised(stack[k], Left(k))
      BY <1>1, <3>0 DEF ReadInv, FramesInv
    <3>. QED BY <3>1, <3>2
  <2>. QED BY <2>1, <2>2, <2>3
<1>5. LedgerInv'
  <2>1. PICK s : BelowInv(s) /\ work + s[N] + Top.shares.remaining <= limits.readBack
    BY DEF ReadInv, LedgerInv, N
  <2>2. /\ s \in [1..N -> Nat] /\ s[1] = 0 /\ s[N] \in Nat
        /\ \A k \in 1..(N - 1) : /\ s[k + 1] = s[k] + Slack(stack[k].shares)
                                 /\ stack[k + 1].shares.remaining <= stack[k].shares.entry
    BY <1>1, <2>1 DEF BelowInv, N
  <2>. DEFINE R == Top.shares.remaining
              T == g.shares.remaining
              E == g.shares.entry
  <2>3. /\ R \in Nat /\ T \in Nat /\ E \in Nat /\ E <= T /\ work \in Nat /\ limits.readBack \in Nat
        /\ Slack(g.shares) = T - E /\ n + T <= R /\ work' = work + n /\ limits' = limits
        /\ h.shares.remaining = E
    BY <1>1 DEF Sound, Budgets, ReadInv, TypeOK, LimitRecords, Slack
  <2>4. work + s[N] + R <= limits.readBack
    BY <2>1
  <2>5. PICK u : /\ u \in [1..(N + 1) -> Nat] /\ u[N + 1] = s[N] + (T - E)
                 /\ \A k \in 1..N : u[k] = s[k]
    <3>. DEFINE w == [k \in 1..(N + 1) |-> IF k = N + 1 THEN s[N] + (T - E) ELSE s[k]]
    <3>. HIDE DEF R, T, E
    <3>1. /\ w \in [1..(N + 1) -> Nat] /\ w[N + 1] = s[N] + (T - E)
          /\ \A k \in 1..N : w[k] = s[k]
      BY <1>1, <2>2, <2>3
    <3>. HIDE DEF w
    <3>. QED BY <3>1
  <2>6. BelowInv(u)'
    <3>1. u[1] = 0 /\ (N + 1) - 1 = N
      BY <1>1, <2>2, <2>5
    <3>2. SUFFICES ASSUME NEW k \in 1..N
                   PROVE  /\ u[k + 1] = u[k] + Slack(stack'[k].shares)
                          /\ stack'[k + 1].shares.remaining <= stack'[k].shares.entry
      BY <1>2, <2>5, <3>1 DEF BelowInv
    <3>3. CASE k = N
      <4>1. u[k] = s[N] /\ u[k + 1] = s[N] + (T - E) /\ stack'[k] = g /\ stack'[k + 1] = h
        BY <1>1, <1>2, <2>5, <3>3
      <4>. QED BY <2>3, <4>1
    <3>4. CASE k # N
      <4>1. /\ k \in 1..(N - 1) /\ k + 1 \in 1..N /\ stack'[k] = stack[k]
            /\ u[k] = s[k] /\ u[k + 1] = s[k + 1]
        BY <1>1, <1>2, <2>5, <3>4
      <4>2. CASE k + 1 # N
        BY <1>2, <2>2, <4>1, <4>2
      <4>3. CASE k + 1 = N
        <5>1. stack'[k + 1].shares.remaining = T /\ stack[k + 1].shares.remaining = R
          BY <1>2, <4>3 DEF Top, N
        <5>2. stack[k].shares.entry \in Nat
          BY <1>1, <4>1 DEF ReadInv, FramesInv, Sound, Budgets
        <5>. HIDE DEF T, R, E
        <5>. QED BY <2>2, <2>3, <4>1, <5>1, <5>2, SMTT(40)
      <4>. QED BY <4>2, <4>3
    <3>. QED BY <3>3, <3>4
  <2>7. Top' = h /\ Len(stack') = N + 1
    BY <1>2 DEF Top
  <2>. HIDE DEF R, T, E
  <2>8. work' + u[N + 1] + E <= limits'.readBack
    <3>. DEFINE x == s[N]
                L == limits.readBack
    <3>1. x \in Nat /\ work + x + R <= L /\ u[N + 1] = x + (T - E) /\ L \in Nat
      BY <2>2, <2>3, <2>4, <2>5
    <3>2. limits'.readBack = L
      BY <2>3
    <3>. HIDE DEF x, L
    <3>3. (work + n) + (x + (T - E)) + E <= L
      BY <2>3, <3>1
    <3>. QED BY <2>3, <3>1, <3>2, <3>3
  <2>9. work' + u[Len(stack')] + Top'.shares.remaining <= limits'.readBack
    BY <2>3, <2>7, <2>8
  <2>. QED BY <1>2, <2>6, <2>9 DEF LedgerInv
<1>6. work <= work'
  BY DEF ReadInv, TypeOK
<1>. QED BY <1>3, <1>4, <1>5, <1>6 DEF ReadInv

LEMMA CloseKeeps ==
  ASSUME ReadInv, Close
  PROVE  ReadInv' /\ work <= work'
<1>. DEFINE N == Len(stack)
            below == Front(stack)
            parent == below[Len(below)]
            spent == parent.shares.entry - Top.shares.remaining
<1>0. stack # <<>> /\ limits' = limits /\ work' = work
      /\ stack' = IF below = <<>> THEN below
                  ELSE [below EXCEPT ![Len(below)].shares = Charge(@, spent)]
  BY DEF Close
<1>1. /\ N \in Nat \ {0} /\ N \in DOMAIN stack /\ DOMAIN stack = 1..N
      /\ Top \in Frames /\ Sound(Top.shares) /\ stack \in Seq(Frames)
  BY <1>0, TopIs DEF ReadInv, TypeOK
<1>2. /\ below \in Seq(Frames) /\ Len(below) = N - 1 /\ \A k \in 1..(N - 1) : below[k] = stack[k]
  BY <1>1 DEF Front
<1>3. PICK s : BelowInv(s) /\ work + s[N] + Top.shares.remaining <= limits.readBack
  BY <1>0 DEF ReadInv, LedgerInv
<1>4. /\ s \in [1..N -> Nat] /\ s[1] = 0 /\ s[N] \in Nat
      /\ \A k \in 1..(N - 1) : /\ s[k + 1] = s[k] + Slack(stack[k].shares)
                               /\ stack[k + 1].shares.remaining <= stack[k].shares.entry
  BY <1>1, <1>3 DEF BelowInv
<1>. HIDE DEF N
<1>. DEFINE R == Top.shares.remaining
<1>5. R \in Nat /\ work \in Nat /\ limits.readBack \in Nat /\ limits \in LimitRecords
  BY <1>1 DEF Sound, Budgets, ReadInv, TypeOK, LimitRecords
<1>6. CASE below = <<>>
  <2>1. stack' = <<>> /\ stack' \in Seq(Frames)
    BY <1>0, <1>6
  <2>. HIDE DEF R
  <2>2. work + s[N] + R <= limits.readBack
    BY <1>3 DEF R
  <2>3. work' <= limits'.readBack
    BY <1>0, <1>4, <1>5, <2>2
  <2>4. work <= work'
    BY <1>0, <1>5
  <2>. QED BY <1>0, <1>5, <2>1, <2>3, <2>4 DEF ReadInv, TypeOK, FramesInv, LedgerInv
<1>7. CASE below # <<>>
  <2>. DEFINE M == N - 1
  <2>1. M \in Nat \ {0} /\ M \in 1..N /\ M # N /\ Len(below) = M /\ M \in 1..(N - 1) /\ M + 1 = N
    <3>1. Len(below) = M /\ Len(below) # 0 /\ N \in Nat \ {0}
      <4>. HIDE DEF below
      <4>. QED BY <1>1, <1>2, <1>7
    <3>. HIDE DEF below
    <3>2. M # 0
      BY <3>1
    <3>. QED BY <3>1, <3>2
  <2>2. parent = stack[M] /\ parent \in Frames /\ Sound(parent.shares) /\ Shaped(parent)
        /\ Promised(parent, Slack(parent.shares))
    <3>1. parent = stack[M] /\ M \in DOMAIN stack /\ stack[M] \in Frames
      <4>. HIDE DEF below, M
      <4>. QED BY <1>1, <1>2, <2>1
    <3>2. Left(M) = Slack(stack[M].shares)
      BY <2>1 DEF Left, N
    <3>. HIDE DEF M, parent
    <3>. QED BY <3>1, <3>2 DEF ReadInv, FramesInv
  <2>3. Top.shares.remaining <= parent.shares.entry /\ s[N] = s[M] + Slack(parent.shares)
    <3>1. Top = stack[M + 1] /\ s[N] = s[M + 1]
      BY <2>1 DEF Top, N
    <3>. HIDE DEF M, parent
    <3>. QED BY <1>4, <2>1, <2>2, <3>1
  <2>4. parent.shares.entry \in Nat /\ parent.shares.remaining \in Nat
        /\ spent \in Nat /\ spent <= parent.shares.entry
    <3>. DEFINE e == parent.shares.entry
    <3>1. e \in Nat /\ parent.shares.remaining \in Nat
      <4>. HIDE DEF parent
      <4>. QED BY <2>2 DEF Sound, Budgets
    <3>2. spent = e - R /\ R <= e
      BY <2>3
    <3>. HIDE DEF e, R, spent
    <3>3. spent \in Nat /\ spent <= e
      BY <1>5, <3>1, <3>2
    <3>. QED BY <3>1, <3>3 DEF e
  <2>. DEFINE c == Charge(parent.shares, spent)
              g == [parent EXCEPT !.shares = c]
  <2>5. /\ Sound(c) /\ c.remaining = Slack(parent.shares) + R /\ c.entry = R
        /\ Slack(c) = Slack(parent.shares)
    <3>. HIDE DEF parent
    <3>1. Sound(c) /\ c.remaining = parent.shares.remaining - spent
          /\ c.entry = parent.shares.entry - spent
      <4>. HIDE DEF spent
      <4>. QED BY <2>2, <2>4, ChargeWithin
    <3>. HIDE DEF c
    <3>. QED BY <1>5, <2>4, <3>1 DEF Slack
  <2>6. stack' = [below EXCEPT ![Len(below)] = g]
    BY <1>0, <1>7
  <2>. HIDE DEF c, below, parent, spent
  <2>7. /\ g \in Frames /\ g.shares = c /\ Shaped(g) /\ g.phase = parent.phase
        /\ g.round = parent.round /\ g.streams = parent.streams /\ g.promise = parent.promise
    <3>1. c \in Budgets
      BY <2>5 DEF Sound
    <3>2. /\ g.shares = c /\ g.phase = parent.phase
          /\ g.round = parent.round /\ g.streams = parent.streams /\ g.promise = parent.promise
          /\ g.dirs = parent.dirs /\ g.data = parent.data
      BY <2>2 DEF Frames
    <3>3. g \in Frames
      BY <2>2, <3>1, ZenonT(60) DEF Frames
    <3>. HIDE DEF g
    <3>4. Shaped(g)
      BY <2>2, <3>2, SameShape
    <3>. QED BY <3>2, <3>3, <3>4
  <2>. HIDE DEF g
  <2>8. /\ stack' \in Seq(Frames) /\ Len(stack') = M /\ stack' # <<>> /\ DOMAIN stack' = 1..M
        /\ stack'[M] = g /\ \A k \in 1..M : k # M => stack'[k] = stack[k]
    <3>1. LET t == [below EXCEPT ![Len(below)] = g] IN
          /\ t \in Seq(Frames) /\ Len(t) = Len(below) /\ t # <<>> /\ DOMAIN t = 1..Len(below)
          /\ t[Len(below)] = g /\ \A k \in 1..Len(below) : k # Len(below) => t[k] = below[k]
      BY <1>2, <1>7, <2>7, ExceptLast
    <3>. QED BY <1>2, <2>1, <2>6, <3>1, Zenon
  <2>9. Promised(g, c.remaining)
    <3>1. c.remaining \in Nat /\ Slack(parent.shares) \in Int /\ Slack(parent.shares) <= c.remaining
      BY <1>5, <2>4, <2>5 DEF Sound, Budgets, Slack
    <3>2. parent.promise * Len(parent.round) \in Nat
      <4>1. parent.promise \in Nat /\ Len(parent.round) \in Nat
        BY <2>2, SMTT(40) DEF Frames
      <4>. QED BY <4>1, TimesMonotone
    <3>. DEFINE x == parent.promise * Len(parent.round)
    <3>3. Promised(g, c.remaining) <=>
            (parent.phase = "round" /\ Len(parent.round) > parent.streams
               /\ parent.promise >= EntryCost => x <= c.remaining)
      BY <2>7, Zenon DEF Promised
    <3>4. parent.phase = "round" /\ Len(parent.round) > parent.streams
               /\ parent.promise >= EntryCost => x <= Slack(parent.shares)
      BY <2>2, Zenon DEF Promised
    <3>. HIDE DEF x
    <3>5. x <= Slack(parent.shares) => x <= c.remaining
      BY <3>1, <3>2 DEF x
    <3>. QED BY <3>3, <3>4, <3>5
  <2>10. TypeOK'
    BY <1>0, <1>5, <2>8 DEF ReadInv, TypeOK
  <2>11. FramesInv'
    <3>. SUFFICES ASSUME NEW k \in 1..M
                  PROVE  Sound(stack'[k].shares) /\ Shaped(stack'[k]) /\ Promised(stack'[k], Left(k)')
      BY <2>8 DEF FramesInv
    <3>1. CASE k = M
      <4>1. Left(k)' = c.remaining /\ stack'[k] = g
        BY <2>7, <2>8, <3>1 DEF Left
      <4>. QED BY <2>5, <2>7, <2>9, <4>1
    <3>2. CASE k # M
      <4>1. k # N /\ k \in 1..N
        BY <1>1, <2>1
      <4>2. Left(k)' = Left(k) /\ stack'[k] = stack[k]
        BY <2>8, <3>2, <4>1 DEF Left, N
      <4>3. Sound(stack[k].shares) /\ Shaped(stack[k]) /\ Promised(stack[k], Left(k))
        BY <1>1, <4>1 DEF ReadInv, FramesInv
      <4>. QED BY <4>2, <4>3
    <3>. QED BY <3>1, <3>2
  <2>12. LedgerInv'
    <3>1. PICK u : /\ u \in [1..M -> Nat] /\ u[1] = 0
                   /\ \A k \in 1..M : u[k] = s[k] /\ s[k] \in Nat
      <4>. DEFINE w == [k \in 1..M |-> s[k]]
      <4>1. 1 \in 1..M /\ \A k \in 1..M : k \in 1..N
        BY <2>1
      <4>. HIDE DEF M
      <4>2. w \in [1..M -> Nat] /\ w[1] = 0 /\ \A k \in 1..M : w[k] = s[k] /\ s[k] \in Nat
        BY <1>4, <4>1
      <4>. HIDE DEF w
      <4>. QED BY <4>2
    <3>2. BelowInv(u)'
      <4>. SUFFICES ASSUME NEW k \in 1..(M - 1)
                    PROVE  /\ u[k + 1] = u[k] + Slack(stack'[k].shares)
                           /\ stack'[k + 1].shares.remaining <= stack'[k].shares.entry
        BY <2>8, <3>1 DEF BelowInv
      <4>1. /\ k \in 1..(N - 1) /\ k \in 1..M /\ k + 1 \in 1..M /\ k # M /\ stack'[k] = stack[k]
            /\ u[k] = s[k] /\ u[k + 1] = s[k + 1]
        BY <1>1, <2>1, <2>8, <3>1
      <4>2. CASE k + 1 # M
        BY <1>4, <2>8, <4>1, <4>2
      <4>3. CASE k + 1 = M
        <5>1. stack'[k + 1].shares = c /\ stack[k + 1].shares = parent.shares
          BY <2>2, <2>7, <2>8, <4>3
        <5>2. c.remaining <= parent.shares.remaining /\ c.remaining \in Nat
          BY <1>5, <2>3, <2>4, <2>5 DEF Slack, Sound, Budgets
        <5>3. stack[k].shares.entry \in Nat
          BY <1>1, <4>1 DEF ReadInv, FramesInv, Sound, Budgets
        <5>4. parent.shares.remaining <= stack[k].shares.entry
          BY <1>4, <4>1, <5>1
        <5>. QED BY <1>4, <2>4, <4>1, <5>1, <5>2, <5>3, <5>4
      <4>. QED BY <4>2, <4>3
    <3>3. Top'.shares = c /\ Len(stack') = M
      BY <2>7, <2>8 DEF Top
    <3>4. Slack(parent.shares) \in Int
      BY <2>4 DEF Slack
    <3>5. work + s[N] + R <= limits.readBack
      BY <1>3
    <3>. HIDE DEF R, M
    <3>6. s[M] \in Nat /\ u[M] = s[M]
      BY <2>1, <3>1
    <3>7. work + u[M] + c.remaining <= limits.readBack
      BY <1>4, <1>5, <2>3, <2>5, <3>4, <3>5, <3>6
    <3>. QED BY <1>0, <2>8, <3>2, <3>3, <3>7 DEF LedgerInv
  <2>13. work <= work'
    BY <1>0, <1>5
  <2>. QED BY <2>10, <2>11, <2>12, <2>13 DEF ReadInv
<1>. QED BY <1>6, <1>7

-----------------------------------------------------------------------------
(***************************************************************************)
(* What the reader reads off the data.                                     *)
(***************************************************************************)
LEMMA NearestIn ==
  ASSUME NEW n \in Nat, NEW S \in SUBSET (1..n), S # {}
  PROVE  Nearest(S) \in S
<1>. DEFINE T == {x \in 0..n : n - x \in S}
<1>1. T \in SUBSET Nat /\ T # {}
  <2>1. PICK p \in S : p \in 1..n
    OBVIOUS
  <2>2. n - p \in 0..n /\ n - (n - p) = p
    BY <2>1
  <2>3. n - p \in T
    BY <2>1, <2>2
  <2>4. T \in SUBSET Nat
    OBVIOUS
  <2>. HIDE DEF T
  <2>. QED BY <2>3, <2>4
<1>2. PICK x \in T : \A y \in T : x <= y
  <2>. HIDE DEF T
  <2>. QED BY <1>1, Least
<1>3. ASSUME NEW q \in S PROVE q <= n - x
  <2>1. q \in 1..n /\ n - q \in 0..n /\ n - (n - q) = q
    OBVIOUS
  <2>2. n - q \in T
    BY <2>1
  <2>. QED BY <1>2, <2>1, <2>2
<1>4. n - x \in S
  OBVIOUS
<1>. QED BY <1>3, <1>4, Zenon DEF Nearest

LEMMA EndIs ==
  ASSUME NEW d \in Data, FindEnd(d) # 0
  PROVE  FindEnd(d) \in DOMAIN d /\ d[FindEnd(d)].u = "end"
<1>1. Len(d) \in Nat /\ DOMAIN d = 1..Len(d)
  BY DEF Data
<1>. DEFINE E == EndCandidates(d)
            X == {p \in E : CommentEnd(d, p) = Len(d)}
<1>2. X \in SUBSET E /\ E \in SUBSET (1..Len(d)) /\ \A p \in E : p \in DOMAIN d /\ d[p].u = "end"
  BY <1>1 DEF EndCandidates
<1>3. FindEnd(d) = IF X # {} THEN Nearest(X) ELSE IF E # {} THEN Nearest(E) ELSE 0
  BY Zenon DEF FindEnd
<1>. HIDE DEF E, X
<1>4. (X # {} => Nearest(X) \in X) /\ (E # {} => Nearest(E) \in E)
  <2>1. X \in SUBSET (1..Len(d))
    BY <1>2
  <2>. QED BY <1>1, <1>2, <2>1, NearestIn
<1>5. FindEnd(d) \in E
  BY <1>2, <1>3, <1>4
<1>. QED BY <1>2, <1>5

LEMMA RecordIs ==
  ASSUME NEW d \in Data, FindEnd(d) # 0, RecordOf(d, FindEnd(d)) # 0
  PROVE  LET r == RecordOf(d, FindEnd(d)) IN
         /\ r \in DOMAIN d /\ r \in Nat
         /\ d[r].entries \in Nat /\ d[r].size \in Nat /\ d[r].start \in Nat
<1>. DEFINE p == FindEnd(d)
            r == RecordOf(d, p)
<1>1. p \in DOMAIN d /\ d[p].u = "end"
  BY EndIs
<1>2. r \in DOMAIN d /\ d[r].u \in {"end", "end64"}
  <2>. HIDE DEF p
  <2>1. r = p \/ IsA(d, r, "end64")
    BY Zenon DEF RecordOf, p
  <2>. HIDE DEF r
  <2>. QED BY <1>1, <2>1 DEF IsA
<1>3. d[r] \in Units /\ r \in Nat
  <2>. HIDE DEF r
  <2>. QED BY <1>2 DEF Data
<1>. HIDE DEF r, p
<1>4. d[r].entries \in Nat /\ d[r].size \in Nat /\ d[r].start \in Nat
  BY <1>2, <1>3, UnitsAssumption
<1>. QED BY <1>2, <1>3, <1>4 DEF r, p

LEMMA StartsIn ==
  ASSUME NEW d \in Data, NEW r \in Nat, d[r].size \in Nat, d[r].start \in Nat
  PROVE  Starts(d, r) \in Seq(Places)
<1>. DEFINE actual == r - d[r].size
            delta == actual - d[r].start
            At(p, shift) == IF IsA(d, p, "central") THEN <<[at |-> p, delta |-> shift]>> ELSE <<>>
<1>1. ASSUME NEW p, NEW shift \in Nat PROVE At(p, shift) \in Seq(Places)
  <2>1. CASE IsA(d, p, "central")
    <3>1. p \in Nat
      BY <2>1 DEF IsA, Data
    <3>2. [at |-> p, delta |-> shift] \in Places
      BY <3>1 DEF Places
    <3>. QED BY <2>1, <3>2
  <2>2. CASE ~IsA(d, p, "central")
    BY <2>2
  <2>. QED BY <2>1, <2>2
<1>2. Starts(d, r) = IF actual >= 1 /\ delta = 0 THEN At(actual, 0)
                     ELSE (IF actual >= 1 /\ delta > 0 THEN At(actual, delta) ELSE <<>>)
                          \o At(d[r].start, 0)
  BY Zenon DEF Starts
<1>3. delta \in Int
  OBVIOUS
<1>. HIDE DEF actual, delta, At
<1>4. At(actual, 0) \in Seq(Places) /\ At(d[r].start, 0) \in Seq(Places)
  BY <1>1
<1>5. (IF actual >= 1 /\ delta > 0 THEN At(actual, delta) ELSE <<>>) \in Seq(Places)
  <2>1. CASE delta > 0
    <3>1. delta \in Nat
      BY <1>3, <2>1
    <3>2. At(actual, delta) \in Seq(Places)
      BY <1>1, <3>1
    <3>. QED BY <2>1, <3>2
  <2>2. CASE ~(delta > 0)
    BY <2>2
  <2>. QED BY <2>1, <2>2
<1>. QED BY <1>2, <1>4, <1>5

\* A field that refers to the Zip64 extra field is what that holds.
LEMMA WidenedIs ==
  ASSUME NEW n \in Nat, NEW values \in [1..n -> Nat], NEW extra \in Seq(Nat), NEW i \in 1..n
  PROVE  Widened(values, extra)[i] \in Nat
<1>. DEFINE T == {j \in 1..i : values[j] = Wide}
            k == Cardinality(T)
<1>1. Widened(values, extra)[i] = IF values[i] = Wide /\ k <= Len(extra) THEN extra[k] ELSE values[i]
  BY DEF Widened
<1>2. ASSUME values[i] = Wide PROVE k \in Nat /\ k >= 1
  <2>1. IsFiniteSet(1..i)
    <3>1. 1 \in Int /\ i \in Int
      OBVIOUS
    <3>. QED BY <3>1, FS_Interval
  <2>2. T \in SUBSET (1..i) /\ i \in T
    BY <1>2
  <2>. HIDE DEF T
  <2>3. IsFiniteSet(T)
    BY <2>1, <2>2, FS_Subset
  <2>4. Cardinality(T) \in Nat /\ Cardinality(T) # 0
    BY <2>2, <2>3, FS_CardinalityType, FS_EmptySet
  <2>. QED BY <2>4
<1>. HIDE DEF k
<1>3. values[i] \in Nat
  OBVIOUS
<1>. QED BY <1>1, <1>2, <1>3

LEMMA LocalIs ==
  ASSUME NEW d \in Data, NEW p, IsA(d, p, "local")
  PROVE  LocalAt(d, p) \in Locals /\ p \in Nat \ {0}
<1>1. d[p] \in Units /\ d[p].u = "local" /\ p \in Nat \ {0}
  BY DEF IsA, Data
<1>2. d[p] \in Locals
  BY <1>1, UnitsAssumption
<1>. DEFINE v == Widened(<<d[p].usize, d[p].csize>>, d[p].extra)
<1>3. v[1] \in Nat /\ v[2] \in Nat
  <2>1. /\ <<d[p].usize, d[p].csize>> \in [1..2 -> Nat] /\ d[p].extra \in Seq(Nat)
        /\ 1 \in 1..2 /\ 2 \in 1..2 /\ 2 \in Nat
    BY <1>2 DEF Locals
  <2>. QED BY <2>1, WidenedIs
<1>4. LocalAt(d, p) = [d[p] EXCEPT !.usize = v[1], !.csize = v[2]]
  BY Zenon DEF LocalAt
<1>. HIDE DEF v
<1>. QED BY <1>1, <1>2, <1>3, <1>4 DEF Locals

LEMMA CentralIs ==
  ASSUME NEW d \in Data, NEW p, IsA(d, p, "central")
  PROVE  CentralAt(d, p) \in Centrals
<1>1. d[p] \in Units /\ d[p].u = "central"
  BY DEF IsA, Data
<1>2. d[p] \in Centrals
  BY <1>1, UnitsAssumption
<1>. DEFINE v == Widened(<<d[p].usize, d[p].csize, d[p].header>>, d[p].extra)
<1>3. v[1] \in Nat /\ v[2] \in Nat /\ v[3] \in Nat
  <2>1. /\ <<d[p].usize, d[p].csize, d[p].header>> \in [1..3 -> Nat] /\ d[p].extra \in Seq(Nat)
        /\ 1 \in 1..3 /\ 2 \in 1..3 /\ 3 \in 1..3 /\ 3 \in Nat
    BY <1>2 DEF Centrals
  <2>. QED BY <2>1, WidenedIs
<1>4. CentralAt(d, p) = [d[p] EXCEPT !.usize = v[1], !.csize = v[2], !.header = v[3]]
  BY Zenon DEF CentralAt
<1>. HIDE DEF v
<1>. QED BY <1>2, <1>3, <1>4 DEF Centrals

LEMMA FromLocalIs ==
  ASSUME NEW p \in Nat, NEW l \in Locals
  PROVE  /\ FromLocal(p, l) \in Knowns
         /\ l.method \in {DEFLATE, BZIP2} =>
              [FromLocal(p, l) EXCEPT !.extent = Stream, !.crc = NoCrc] \in Blockings
<1>1. p + 1 \in Nat \ {0} /\ NoCrc \in Int /\ <<>> \in Seq(STRING) /\ (l.extra # <<>>) \in BOOLEAN
  BY DEF NoCrc
<1>. QED BY <1>1 DEF FromLocal, Locals, Knowns, Blockings

LEMMA EnqueueIn ==
  ASSUME NEW queue \in Seq(Knowns), NEW i \in Knowns, NEW usize \in Nat
  PROVE  Enqueue(queue, i, usize) \in Seq(Knowns)
<1>1. [i EXCEPT !.extent = usize] \in Knowns
  BY DEF Knowns
<1>. DEFINE t == IF i.extent # Stream /\ i.method = STORED /\ i.extent # usize
                 THEN <<[i EXCEPT !.extent = usize]>> ELSE <<>>
<1>2. t \in Seq(Knowns) /\ <<i>> \in Seq(Knowns)
  <2>. DEFINE j == [i EXCEPT !.extent = usize]
  <2>1. j \in Knowns
    BY <1>1
  <2>2. t = <<j>> \/ t = <<>>
    OBVIOUS
  <2>. HIDE DEF j, t
  <2>3. <<j>> \in Seq(Knowns) /\ <<i>> \in Seq(Knowns) /\ <<>> \in Seq(Knowns)
    <3>. HIDE DEF Knowns
    <3>. QED BY <2>1
  <2>. QED BY <2>2, <2>3, Zenon
<1>3. Enqueue(queue, i, usize) = queue \o <<i>> \o t
  BY Zenon DEF Enqueue
<1>. HIDE DEF t
<1>. QED BY <1>2, <1>3

\* The search for a stored member's end costs what it searches.
LEMMA StoredEndIs ==
  ASSUME NEW d \in Data, NEW start \in Nat, NEW zip64, NEW limit \in Nat
  PROVE  LET e == FindStoredEnd(d, start, zip64, limit) IN
         /\ e.size \in Nat \cup {-1} /\ e.crc \in Int
         /\ e.scanned \in Nat /\ e.scanned <= limit
<1>. DEFINE rest == AtMost(Monus(Len(d) + 1, start), limit)
            Size(p) == IF IsA(d, p, "fields") /\ (zip64 => d[p].wide) THEN d[p].size ELSE Junk
            hits == {n \in 0..(rest - 1) : /\ IsA(d, start + n, "descriptor")
                                           /\ Size(start + n + 1) = n}
            n == CHOOSE m \in hits : \A k \in hits : m <= k
            e == FindStoredEnd(d, start, zip64, limit)
<1>. SUFFICES /\ e.size \in Nat \cup {-1} /\ e.crc \in Int
              /\ e.scanned \in Nat /\ e.scanned <= limit
  BY Zenon
<1>1. Len(d) \in Nat
  BY DEF Data
<1>2. rest \in Nat /\ rest <= limit
  BY <1>1 DEF AtMost, Monus
<1>3. CASE hits = {}
  <2>1. e.size = -1 /\ e.crc = NoCrc /\ e.scanned = rest
    BY <1>3, Zenon DEF FindStoredEnd
  <2>. HIDE DEF e, rest
  <2>. QED BY <1>2, <2>1 DEF NoCrc
<1>4. CASE hits # {}
  <2>1. e.size = n /\ e.crc = d[start + n + 1].crc /\ e.scanned = n + 1
    BY <1>4, Zenon DEF FindStoredEnd
  <2>2. n \in hits
    <3>1. hits \in SUBSET Nat
      <4>. HIDE DEF rest, Size
      <4>. QED BY <1>2
    <3>. HIDE DEF hits
    <3>. QED BY <1>4, <3>1, FirstIn
  <2>3. n \in 0..(rest - 1) /\ Size(start + n + 1) = n
    <3>. HIDE DEF rest, Size, n
    <3>. QED BY <2>2
  <2>. HIDE DEF n, e, rest, hits
  <2>4. n \in Nat /\ n + 1 <= rest
    BY <1>2, <2>3
  <2>. DEFINE q == start + n + 1
  <2>5. IsA(d, q, "fields")
    BY <2>3, <2>4 DEF Junk
  <2>. HIDE DEF q
  <2>6. d[q] \in Units /\ d[q].u = "fields"
    BY <2>5 DEF IsA, Data
  <2>7. d[q].crc \in Int
    BY <2>6, UnitsAssumption
  <2>. QED BY <1>2, <2>1, <2>4, <2>7 DEF q
<1>. QED BY <1>3, <1>4

LEMMA SkipIs ==
  ASSUME NEW d, NEW p \in Nat, NEW zip64
  PROVE  SkipDescriptor(d, p, zip64) \in Nat
<1>. DEFINE base == IF IsA(d, p, "descriptor") THEN p + 1 ELSE p
            After(wide) == base + IF wide THEN 2 ELSE 1
<1>1. base \in Nat
  OBVIOUS
<1>2. \A wide : After(wide) \in Nat
  <2>. HIDE DEF base
  <2>. TAKE wide
  <2>1. CASE wide
    BY <1>1, <2>1
  <2>2. CASE ~wide
    BY <1>1, <2>2
  <2>. QED BY <2>1, <2>2
<1>3. SkipDescriptor(d, p, zip64) \in {After(zip64), After(~zip64)}
  BY Zenon DEF SkipDescriptor
<1>. HIDE DEF After
<1>. QED BY <1>2, <1>3

-----------------------------------------------------------------------------
(***************************************************************************)
(* The steps of the reader.                                                *)
(***************************************************************************)
\* A step that spends nothing of the topmost frame's shares.
LEMMA FreeKeeps ==
  ASSUME ReadInv, stack # <<>>, NEW g \in Frames, g.shares = Top.shares, Shaped(g),
         g.phase # "round", stack' = Under(g), limits' = limits, work' = work
  PROVE  ReadInv' /\ work <= work'
<1>1. Sound(g.shares) /\ g.shares.remaining \in Nat /\ work \in Nat
  BY TopIs DEF Sound, Budgets, ReadInv, TypeOK
<1>2. Promised(g, g.shares.remaining)
  BY DEF Promised
<1>3. 0 \in Nat /\ work' = work + 0 /\ 0 + g.shares.remaining <= Top.shares.remaining
  BY <1>1
<1>. QED BY <1>1, <1>2, <1>3, UnderKeeps

LEMMA OpenKeeps ==
  ASSUME ReadInv, Open
  PROVE  ReadInv' /\ work <= work'
<1>. DEFINE f == Top
            d == f.data
            p == FindEnd(d)
            r == IF p = 0 THEN 0 ELSE RecordOf(d, p)
            empty == r # 0 /\ d[r].entries = 0 /\ d[r].size = 0
            dirs == IF r = 0 \/ empty THEN <<>> ELSE Starts(d, r)
            locals == {q \in DOMAIN d : d[q].u = "local"}
            at == IF dirs = <<>> THEN 0 ELSE dirs[1].at
            left == IF dirs = <<>> THEN 0 ELSE d[r].entries
            walks == IF locals = {} THEN <<>>
                     ELSE <<CHOOSE q \in locals : \A o \in locals : q <= o>>
            g == [f EXCEPT !.phase = "central", !.dirs = dirs, !.at = at, !.left = left,
                           !.walks = walks]
<1>1. stack # <<>> /\ stack' = Under(g) /\ limits' = limits /\ work' = work
  BY Zenon DEF Open
<1>2. f \in Frames /\ Shaped(f) /\ d \in Data
  BY <1>1, TopIs DEF Frames
<1>3. /\ dirs \in Seq(Places) /\ left \in Nat
      /\ dirs # <<>> => p # 0 /\ RecordOf(d, p) # 0
  <2>1. CASE r = 0 \/ empty
    BY <2>1
  <2>2. CASE ~(r = 0 \/ empty)
    <3>1. p # 0 /\ r = RecordOf(d, p) /\ r # 0 /\ dirs = Starts(d, r)
      BY <2>2
    <3>2. r \in Nat /\ d[r].entries \in Nat /\ d[r].size \in Nat /\ d[r].start \in Nat
      <4>. HIDE DEF d, r
      <4>. QED BY <1>2, <3>1, RecordIs
    <3>. HIDE DEF d, r, p
    <3>3. Starts(d, r) \in Seq(Places)
      BY <1>2, <3>2, StartsIn
    <3>. QED BY <3>1, <3>2, <3>3
  <2>. QED BY <2>1, <2>2
<1>4. at \in Nat
  <2>. HIDE DEF dirs
  <2>1. CASE dirs = <<>>
    BY <2>1
  <2>2. CASE dirs # <<>>
    <3>1. dirs[1] \in Places
      BY <1>3, <2>2
    <3>. QED BY <2>2, <3>1 DEF Places
  <2>. QED BY <2>1, <2>2
<1>5. walks \in Seq(Nat)
  <2>1. locals \in SUBSET Nat
    BY <1>2 DEF Data
  <2>. HIDE DEF locals
  <2>2. CASE locals # {}
    <3>. DEFINE m == CHOOSE q \in locals : \A o \in locals : q <= o
    <3>1. m \in Nat /\ walks = <<m>>
      BY <2>1, <2>2, FirstIn
    <3>. HIDE DEF m, walks
    <3>. QED BY <3>1
  <2>3. CASE locals = {}
    BY <2>3
  <2>. QED BY <2>2, <2>3
<1>. HIDE DEF dirs, at, left, walks
<1>6. /\ g \in Frames /\ g.shares = f.shares /\ g.phase = "central" /\ g.round = f.round
      /\ g.streams = f.streams /\ g.dirs = dirs /\ g.data = d
  <2>. HIDE DEF f
  <2>. QED BY <1>2, <1>3, <1>4, <1>5 DEF Frames
<1>. HIDE DEF g
<1>7. Shaped(g)
  BY <1>2, <1>3, <1>6 DEF Shaped, StreamsLast, Placed
<1>. QED BY <1>1, <1>6, <1>7, FreeKeeps

LEMMA EndRoundKeeps ==
  ASSUME ReadInv, EndRound
  PROVE  ReadInv' /\ work <= work'
<1>. DEFINE f == Top
            g == [f EXCEPT !.phase = "walk"]
<1>1. stack # <<>> /\ stack' = Under(g) /\ limits' = limits /\ work' = work
  BY DEF EndRound
<1>2. f \in Frames /\ Shaped(f)
  BY <1>1, TopIs
<1>3. /\ g \in Frames /\ g.shares = f.shares /\ g.phase = "walk" /\ g.round = f.round
      /\ g.streams = f.streams /\ g.dirs = f.dirs /\ g.data = f.data
  <2>. HIDE DEF f
  <2>. QED BY <1>2 DEF Frames
<1>. HIDE DEF g
<1>4. Shaped(g)
  BY <1>2, <1>3, SameShape
<1>. QED BY <1>1, <1>3, <1>4, FreeKeeps

\* The next place of the directory, or the walk.
LEMMA NextDirectoryIs ==
  ASSUME NEW f \in Frames, Shaped(f)
  PROVE  LET g == NextDirectory(f) IN
         /\ g \in Frames /\ g.shares = f.shares /\ Shaped(g)
         /\ f.phase # "round" => g.phase # "round"
<1>. DEFINE r == RecordOf(f.data, FindEnd(f.data))
            g == NextDirectory(f)
<1>0. f.dirs \in Seq(Places) /\ f.data \in Data
  BY DEF Frames
<1>1. CASE Len(f.dirs) <= 1
  <2>1. g = [f EXCEPT !.phase = "walk", !.dirs = <<>>]
    BY <1>1 DEF NextDirectory
  <2>. HIDE DEF g
  <2>2. /\ g \in Frames /\ g.shares = f.shares /\ g.phase = "walk" /\ g.round = f.round
        /\ g.streams = f.streams /\ g.dirs = <<>>
    <3>1. <<>> \in Seq(Places)
      OBVIOUS
    <3>. QED BY <2>1, <3>1 DEF Frames
  <2>3. Shaped(g)
    BY <2>2 DEF Shaped, StreamsLast, Placed
  <2>. QED BY <2>2, <2>3 DEF g
<1>2. CASE ~(Len(f.dirs) <= 1)
  <2>1. g = [f EXCEPT !.dirs = Tail(f.dirs), !.at = f.dirs[2].at, !.left = f.data[r].entries]
    BY <1>2 DEF NextDirectory
  <2>2. f.dirs # <<>> /\ Tail(f.dirs) \in Seq(Places) /\ f.dirs[2].at \in Nat
    <3>1. f.dirs[2] \in Places /\ f.dirs # <<>>
      BY <1>0, <1>2
    <3>2. Tail(f.dirs) \in Seq(Places)
      BY <1>0, <3>1
    <3>. QED BY <3>1, <3>2 DEF Places
  <2>3. FindEnd(f.data) # 0 /\ r # 0
    BY <2>2 DEF Shaped, Placed
  <2>4. f.data[r].entries \in Nat
    BY <1>0, <2>3, RecordIs
  <2>. HIDE DEF g
  <2>5. /\ g \in Frames /\ g.shares = f.shares /\ g.phase = f.phase /\ g.round = f.round
        /\ g.streams = f.streams /\ g.data = f.data
    <3>. HIDE DEF r
    <3>. QED BY <2>1, <2>2, <2>4 DEF Frames
  <2>6. Shaped(g)
    BY <2>3, <2>5 DEF Shaped, StreamsLast, Placed
  <2>. QED BY <2>5, <2>6 DEF g
<1>. QED BY <1>1, <1>2

\* An entry of the directory: two readings of its member at most.
LEMMA EntryReadingsAre ==
  ASSUME NEW f \in Frames, f.dirs # <<>>, NEW entry \in Centrals
  PROVE  LET g == EntryReadings(f, entry).frame IN
         /\ g \in Frames /\ g.shares = f.shares /\ g.phase = f.phase /\ g.round = f.round
         /\ g.streams = f.streams /\ g.dirs = f.dirs /\ g.data = f.data
         /\ g.at = f.at /\ g.left = f.left
<1>. DEFINE header == entry.header + f.dirs[1].delta
            local == LocalAt(f.data, header)
            item == [FromLocal(header, local) EXCEPT
                       !.name = entry.name, !.method = entry.method, !.enc = entry.enc,
                       !.extent = entry.csize, !.crc = entry.crc]
            own == IF local.stream
                   THEN [FromLocal(header, local) EXCEPT !.extent = entry.csize,
                                                         !.crc = entry.crc]
                   ELSE FromLocal(header, local)
            first == Enqueue(f.queue, item, entry.usize)
            sizes == [csize |-> entry.csize, usize |-> entry.usize, crc |-> entry.crc]
            other == IF local.stream THEN entry.usize ELSE local.usize
            readings == [q \in DOMAIN f.byHeader \cup {header} |->
                           IF q \in DOMAIN f.byHeader THEN f.byHeader[q] ELSE sizes]
            queue == IF Differs(local, entry) THEN Enqueue(first, own, other) ELSE first
            g == EntryReadings(f, entry).frame
<1>. SUFFICES /\ g \in Frames /\ g.shares = f.shares /\ g.phase = f.phase /\ g.round = f.round
              /\ g.streams = f.streams /\ g.dirs = f.dirs /\ g.data = f.data
              /\ g.at = f.at /\ g.left = f.left
  BY Zenon
<1>1. CASE ~IsA(f.data, header, "local")
  <2>1. g = f
    BY <1>1, Zenon DEF EntryReadings
  <2>. QED BY <2>1
<1>2. CASE IsA(f.data, header, "local")
  <2>1. g = [f EXCEPT !.byHeader = readings, !.queue = queue]
    BY <1>2 DEF EntryReadings
  <2>2. /\ f.data \in Data /\ f.queue \in Seq(Knowns)
        /\ f.byHeader \in UNION {[S -> Sizes] : S \in SUBSET Nat}
    BY DEF Frames
  <2>3. local \in Locals /\ header \in Nat
    <3>. HIDE DEF header
    <3>. QED BY <1>2, <2>2, LocalIs
  <2>. HIDE DEF local, header
  <2>4. FromLocal(header, local) \in Knowns
    BY <2>3, FromLocalIs
  <2>5. item \in Knowns /\ own \in Knowns /\ other \in Nat /\ entry.usize \in Nat
    <3>1. /\ entry.name \in STRING /\ entry.method \in Nat /\ entry.enc \in BOOLEAN
          /\ entry.csize \in Nat /\ entry.usize \in Nat /\ entry.crc \in Int
          /\ local.usize \in Nat
      BY <2>3 DEF Centrals, Locals
    <3>. QED BY <2>4, <3>1 DEF Knowns
  <2>. HIDE DEF item, own, other
  <2>6. queue \in Seq(Knowns)
    <3>1. first \in Seq(Knowns)
      BY <2>2, <2>5, EnqueueIn
    <3>. HIDE DEF first
    <3>2. Enqueue(first, own, other) \in Seq(Knowns)
      BY <2>5, <3>1, EnqueueIn
    <3>. QED BY <3>1, <3>2
  <2>7. readings \in UNION {[S -> Sizes] : S \in SUBSET Nat}
    <3>1. sizes \in Sizes
      BY DEF Centrals, Sizes
    <3>. HIDE DEF sizes
    <3>2. PICK S \in SUBSET Nat : f.byHeader \in [S -> Sizes]
      BY <2>2
    <3>3. readings \in [S \cup {header} -> Sizes]
      BY <3>1, <3>2
    <3>4. S \cup {header} \in SUBSET Nat
      BY <2>3
    <3>. HIDE DEF readings
    <3>. QED BY <3>3, <3>4
  <2>. HIDE DEF readings, queue, g
  <2>. QED BY <2>1, <2>6, <2>7 DEF Frames
<1>. QED BY <1>1, <1>2

LEMMA CentralKeeps ==
  ASSUME ReadInv, CentralEntry
  PROVE  ReadInv' /\ work <= work'
<1>. DEFINE f == Top
<1>1. stack # <<>> /\ f.phase = "central" /\ limits' = limits /\ work' = work
  BY DEF CentralEntry
<1>2. f \in Frames /\ Shaped(f)
  BY <1>1, TopIs
<1>3. PICK g : /\ stack' = Under(g) /\ g \in Frames /\ g.shares = f.shares /\ Shaped(g)
               /\ g.phase # "round"
  <2>. DEFINE r == EntryReadings(f, CentralAt(f.data, f.at))
  <2>1. \/ stack' = Under(NextDirectory(f))
        \/ stack' = Under([f EXCEPT !.phase = "walk", !.dirs = <<>>])
        \/ /\ f.dirs # <<>> /\ f.left > 0 /\ IsA(f.data, f.at, "central")
           /\ stack' = Under([r.frame EXCEPT !.at = @ + 1, !.left = @ - 1])
    BY Zenon DEF CentralEntry
  <2>. HIDE DEF f
  <2>2. CASE stack' = Under(NextDirectory(f))
    <3>. DEFINE g == NextDirectory(f)
    <3>1. g \in Frames /\ g.shares = f.shares /\ Shaped(g) /\ g.phase # "round"
      BY <1>1, <1>2, NextDirectoryIs
    <3>. HIDE DEF g
    <3>. QED BY <2>2, <3>1 DEF g
  <2>3. CASE stack' = Under([f EXCEPT !.phase = "walk", !.dirs = <<>>])
    <3>. DEFINE g == [f EXCEPT !.phase = "walk", !.dirs = <<>>]
    <3>1. /\ g \in Frames /\ g.shares = f.shares /\ g.phase = "walk" /\ g.round = f.round
          /\ g.streams = f.streams /\ g.dirs = <<>>
      <4>1. <<>> \in Seq(Places)
        OBVIOUS
      <4>. QED BY <1>2, <4>1 DEF Frames
    <3>. HIDE DEF g
    <3>2. Shaped(g)
      BY <1>2, <3>1 DEF Shaped, StreamsLast, Placed
    <3>. QED BY <2>3, <3>1, <3>2 DEF g
  <2>4. CASE /\ f.dirs # <<>> /\ f.left > 0 /\ IsA(f.data, f.at, "central")
             /\ stack' = Under([r.frame EXCEPT !.at = @ + 1, !.left = @ - 1])
    <3>. DEFINE h == r.frame
                g == [h EXCEPT !.at = @ + 1, !.left = @ - 1]
    <3>1. CentralAt(f.data, f.at) \in Centrals
      BY <1>2, <2>4, CentralIs DEF Frames
    <3>2. /\ h \in Frames /\ h.shares = f.shares /\ h.phase = f.phase /\ h.round = f.round
          /\ h.streams = f.streams /\ h.dirs = f.dirs /\ h.data = f.data
          /\ h.at = f.at /\ h.left = f.left
      BY <1>2, <2>4, <3>1, EntryReadingsAre
    <3>. HIDE DEF h
    <3>3. h.at + 1 \in Nat /\ h.left - 1 \in Nat
      <4>1. f.at \in Nat /\ f.left \in Nat
        BY <1>2 DEF Frames
      <4>. QED BY <2>4, <3>2, <4>1
    <3>4. /\ g \in Frames /\ g.shares = h.shares /\ g.phase = h.phase /\ g.round = h.round
          /\ g.streams = h.streams /\ g.dirs = h.dirs /\ g.data = h.data
      BY <3>2, <3>3 DEF Frames
    <3>5. stack' = Under(g)
      BY <2>4 DEF h
    <3>. HIDE DEF g
    <3>6. Shaped(g)
      BY <1>2, <3>2, <3>4, SameShape
    <3>. QED BY <1>1, <3>2, <3>4, <3>5, <3>6
  <2>. QED BY <2>1, <2>2, <2>3, <2>4
<1>. QED BY <1>1, <1>3, FreeKeeps

\* One header of the walk, read.
LEMMA ReadingIs ==
  ASSUME NEW f \in Frames, IsA(f.data, f.pos, "local")
  PROVE  LET local == LocalAt(f.data, f.pos)
             r == Reading(f, local)
         IN /\ r.scanned \in Nat /\ r.scanned <= f.shares.remaining
            /\ r.extent # -1 => r.item \in Knowns /\ r.extent \in Nat /\ r.usize \in Nat
            /\ Blocks(f, local) =>
                 r.scanned = 0 /\ [r.item EXCEPT !.extent = Stream, !.crc = NoCrc] \in Blockings
<1>. DEFINE local == LocalAt(f.data, f.pos)
            r == Reading(f, local)
            p == f.pos
            item == FromLocal(p, local)
            known == p \in DOMAIN f.byHeader
            sizes == f.byHeader[p]
            search == FindStoredEnd(f.data, p + 1, local.extra # <<>>, f.shares.remaining)
            Unknown == [item |-> item, extent |-> -1, usize |-> 0, scanned |-> 0]
<1>. SUFFICES /\ r.scanned \in Nat /\ r.scanned <= f.shares.remaining
              /\ r.extent # -1 => r.item \in Knowns /\ r.extent \in Nat /\ r.usize \in Nat
              /\ Blocks(f, local) =>
                 r.scanned = 0 /\ [r.item EXCEPT !.extent = Stream, !.crc = NoCrc] \in Blockings
  BY Zenon
<1>1. /\ f.data \in Data /\ f.shares.remaining \in Nat
      /\ f.byHeader \in UNION {[S -> Sizes] : S \in SUBSET Nat}
  BY DEF Frames, Budgets
<1>2. local \in Locals /\ p \in Nat
  <2>. HIDE DEF p
  <2>1. IsA(f.data, p, "local")
    BY DEF p
  <2>. QED BY <1>1, <2>1, LocalIs DEF p
<1>3. /\ item \in Knowns
      /\ local.method \in {DEFLATE, BZIP2} =>
           [item EXCEPT !.extent = Stream, !.crc = NoCrc] \in Blockings
  <2>. HIDE DEF local, p
  <2>. QED BY <1>2, FromLocalIs
<1>4. /\ local.csize \in Nat /\ local.usize \in Nat /\ item.extent = local.csize
      /\ local.method \in Nat /\ local.stream \in BOOLEAN
  <2>. HIDE DEF local, p
  <2>. QED BY <1>2 DEF Locals, FromLocal
<1>5. known => sizes.csize \in Nat /\ sizes.usize \in Nat /\ sizes.crc \in Int
  <2>. HIDE DEF p
  <2>1. known => sizes \in Sizes
    BY <1>1
  <2>. HIDE DEF sizes
  <2>. QED BY <2>1 DEF Sizes
<1>6. /\ search.size \in Nat \cup {-1} /\ search.crc \in Int
      /\ search.scanned \in Nat /\ search.scanned <= f.shares.remaining
  <2>1. p + 1 \in Nat
    BY <1>2
  <2>. HIDE DEF local, p
  <2>. QED BY <1>1, <2>1, StoredEndIs
<1>7. /\ ~local.stream => r = [Unknown EXCEPT !.extent = local.csize, !.usize = local.usize]
      /\ local.stream /\ known =>
           r = [Unknown EXCEPT !.item.verify = local.method \in {DEFLATE, BZIP2},
                         !.item.crc = sizes.crc, !.item.extent = sizes.csize,
                         !.extent = sizes.csize, !.usize = sizes.usize]
      /\ local.stream /\ ~known /\ local.method = STORED =>
           r = [Unknown EXCEPT !.item.crc = search.crc, !.item.extent = search.size,
                         !.extent = search.size, !.usize = search.size,
                         !.scanned = search.scanned]
      /\ local.stream /\ ~known /\ local.method # STORED => r = Unknown
  BY DEF Reading
<1>8. Blocks(f, local) => local.stream /\ ~known /\ local.method # STORED
                          /\ local.method \in {DEFLATE, BZIP2}
  BY DEF Blocks, Decodable
<1>. HIDE DEF r, known, sizes, search, item, local
<1>9. CASE ~local.stream
  <2>1. r.item = item /\ r.extent = local.csize /\ r.usize = local.usize /\ r.scanned = 0
    BY <1>7, <1>9
  <2>2. ~Blocks(f, local)
    BY <1>8, <1>9
  <2>. HIDE DEF Unknown, p
  <2>. QED BY <1>1, <1>3, <1>4, <2>1, <2>2
<1>10. CASE local.stream /\ known
  <2>. DEFINE v == local.method \in {DEFLATE, BZIP2}
              j == [item EXCEPT !.verify = v, !.crc = sizes.crc, !.extent = sizes.csize]
  <2>1. j \in Knowns
    <3>1. v \in BOOLEAN
      OBVIOUS
    <3>. HIDE DEF v
    <3>. QED BY <1>3, <1>5, <1>10, <3>1 DEF Knowns
  <2>2. r.item = j /\ r.extent = sizes.csize /\ r.usize = sizes.usize /\ r.scanned = 0
    <3>1. r = [Unknown EXCEPT !.item.verify = v, !.item.crc = sizes.crc,
                         !.item.extent = sizes.csize,
                         !.extent = sizes.csize, !.usize = sizes.usize]
      BY <1>7, <1>10
    <3>. HIDE DEF v
    <3>. QED BY <3>1
  <2>. QED BY <1>1, <1>5, <1>8, <1>10, <2>1, <2>2
<1>11. CASE local.stream /\ ~known /\ local.method = STORED
  <2>1. search.size # -1 => [item EXCEPT !.crc = search.crc, !.extent = search.size] \in Knowns
    BY <1>3, <1>6 DEF Knowns
  <2>2. /\ r.item = [item EXCEPT !.crc = search.crc, !.extent = search.size]
        /\ r.extent = search.size /\ r.usize = search.size /\ r.scanned = search.scanned
    BY <1>7, <1>11
  <2>. QED BY <1>6, <1>8, <1>11, <2>1, <2>2
<1>12. CASE local.stream /\ ~known /\ local.method # STORED
  <2>1. r.item = item /\ r.extent = -1 /\ r.scanned = 0
    BY <1>7, <1>12
  <2>. QED BY <1>1, <1>3, <1>8, <2>1
<1>. QED BY <1>4, <1>9, <1>10, <1>11, <1>12

\* Two frames that differ in what they have found or still look for.
Alike(g, f) ==
  /\ g.phase = f.phase /\ g.round = f.round /\ g.streams = f.streams /\ g.dirs = f.dirs
  /\ g.data = f.data

LEMMA WalkKeeps ==
  ASSUME ReadInv, Walk
  PROVE  ReadInv' /\ work <= work'
<1>. DEFINE pos == IF Top.pos = 0 THEN Top.walks[Len(Top.walks)] ELSE Top.pos
            walks == IF Top.pos = 0 THEN Front(Top.walks) ELSE Top.walks
            f == [Top EXCEPT !.pos = pos, !.walks = walks]
            seen == [f EXCEPT !.walked = @ \cup {f.pos}]
            local == LocalAt(f.data, f.pos)
            r == Reading(f, local)
            charged == [seen EXCEPT !.shares = Charge(@, r.scanned)]
            end == f.pos + 1 + r.extent
            block == [r.item EXCEPT !.extent = Stream, !.crc = NoCrc]
            blocked == WalkEnds([seen EXCEPT !.blocked = Append(@, block)])
            next == IF local.stream THEN SkipDescriptor(f.data, end, local.extra # <<>>)
                    ELSE end
            on == [charged EXCEPT !.queue = Enqueue(@, r.item, r.usize), !.pos = next]
<1>1. stack # <<>> /\ Top.phase = "walk" /\ (Top.pos # 0 \/ Top.walks # <<>>) /\ limits' = limits
  BY DEF Walk
<1>2. \/ stack' = Under(WalkEnds(seen)) /\ work' = work
      \/ /\ IsA(f.data, f.pos, "local") /\ work' = work + r.scanned
         /\ \/ Blocks(f, local) /\ stack' = Under(blocked)
            \/ r.extent = -1 /\ stack' = Under(WalkEnds(charged))
            \/ r.extent # -1 /\ stack' = Under(on)
  BY Zenon DEF Walk
<1>3. Top \in Frames /\ Shaped(Top) /\ Sound(Top.shares) /\ work \in Nat
  BY <1>1, TopIs DEF ReadInv, TypeOK
<1>4. pos \in Nat /\ walks \in Seq(Nat)
  <2>1. Top.walks \in Seq(Nat) /\ Top.pos \in Nat
    BY <1>3 DEF Frames
  <2>. DEFINE w == Top.walks
  <2>2. CASE Top.pos = 0
    <3>1. w \in Seq(Nat) /\ w # <<>>
      BY <1>1, <2>1, <2>2
    <3>2. pos = w[Len(w)] /\ walks = Front(w)
      BY <2>2
    <3>. HIDE DEF w, pos, walks
    <3>. QED BY <3>1, <3>2 DEF Front
  <2>3. CASE Top.pos # 0
    BY <2>1, <2>3
  <2>. QED BY <2>2, <2>3
<1>. HIDE DEF pos, walks
<1>5. f \in Frames /\ Alike(f, Top) /\ f.shares = Top.shares
  <2>. HIDE DEF Top
  <2>. QED BY <1>3, <1>4 DEF Frames, Alike
<1>. HIDE DEF f
<1>6. seen \in Frames /\ Alike(seen, f) /\ seen.shares = f.shares
  BY <1>5 DEF Frames, Alike
<1>. HIDE DEF seen
<1>7. Sound(f.shares) /\ f.shares.remaining \in Nat /\ f.shares \in Budgets
  BY <1>3, <1>5 DEF Sound, Budgets
<1>8. CASE stack' = Under(WalkEnds(seen)) /\ work' = work
  <2>. DEFINE g == WalkEnds(seen)
  <2>1. g \in Frames /\ Alike(g, seen) /\ g.shares = seen.shares
    BY <1>6 DEF Frames, Alike, WalkEnds
  <2>. HIDE DEF g
  <2>2. Shaped(g) /\ g.phase # "round"
    BY <1>1, <1>3, <1>5, <1>6, <2>1, SameShape DEF Alike
  <2>3. g.shares = Top.shares /\ stack' = Under(g)
    BY <1>5, <1>6, <1>8, <2>1 DEF g
  <2>. QED BY <1>1, <1>8, <2>1, <2>2, <2>3, FreeKeeps
<1>9. CASE /\ IsA(f.data, f.pos, "local") /\ work' = work + r.scanned
           /\ \/ Blocks(f, local) /\ stack' = Under(blocked)
              \/ r.extent = -1 /\ stack' = Under(WalkEnds(charged))
              \/ r.extent # -1 /\ stack' = Under(on)
  <2>1. /\ r.scanned \in Nat /\ r.scanned <= f.shares.remaining
        /\ r.extent # -1 => r.item \in Knowns /\ r.extent \in Nat /\ r.usize \in Nat
        /\ Blocks(f, local) => r.scanned = 0 /\ block \in Blockings
    BY <1>5, <1>9, ReadingIs
  <2>. HIDE DEF r
  <2>2. /\ Sound(Charge(f.shares, r.scanned))
        /\ Charge(f.shares, r.scanned).remaining = f.shares.remaining - r.scanned
    <3>1. Sound(Charge(f.shares, r.scanned))
          /\ Charge(f.shares, r.scanned).remaining = Monus(f.shares.remaining, r.scanned)
      BY <1>7, <2>1, ChargeSound
    <3>. QED BY <1>7, <2>1, <3>1 DEF Monus
  <2>3. /\ charged \in Frames /\ Alike(charged, seen) /\ Sound(charged.shares)
        /\ charged.shares.remaining + r.scanned = f.shares.remaining
    <3>. DEFINE c == Charge(seen.shares, r.scanned)
    <3>1. c \in Budgets /\ Sound(c) /\ c.remaining + r.scanned = f.shares.remaining
      BY <1>6, <1>7, <2>1, <2>2 DEF Sound
    <3>2. charged = [seen EXCEPT !.shares = c]
      OBVIOUS
    <3>. HIDE DEF c, charged
    <3>3. charged \in Frames /\ Alike(charged, seen) /\ charged.shares = c
      BY <1>6, <3>1, <3>2 DEF Frames, Alike
    <3>. QED BY <3>1, <3>3
  <2>. HIDE DEF charged
  <2>4. PICK g : /\ stack' = Under(g) /\ g \in Frames /\ Alike(g, seen) /\ Sound(g.shares)
                 /\ g.shares.remaining + r.scanned = f.shares.remaining
    <3>1. CASE Blocks(f, local) /\ stack' = Under(blocked)
      <4>. DEFINE q == Append(seen.blocked, block)
      <4>1. q \in Seq(Blockings) /\ blocked = WalkEnds([seen EXCEPT !.blocked = q])
        <5>1. seen.blocked \in Seq(Blockings) /\ block \in Blockings
          BY <1>6, <2>1, <3>1 DEF Frames
        <5>. HIDE DEF block
        <5>. QED BY <5>1
      <4>. HIDE DEF q, blocked
      <4>2. blocked \in Frames /\ Alike(blocked, seen) /\ blocked.shares = seen.shares
        BY <1>6, <4>1 DEF Frames, Alike, WalkEnds
      <4>3. blocked.shares.remaining + r.scanned = f.shares.remaining
        BY <1>6, <1>7, <2>1, <3>1, <4>2
      <4>. QED BY <1>6, <1>7, <3>1, <4>2, <4>3
    <3>2. CASE stack' = Under(WalkEnds(charged))
      <4>. DEFINE g == WalkEnds(charged)
      <4>1. g \in Frames /\ Alike(g, charged) /\ g.shares = charged.shares
        BY <2>3 DEF Frames, Alike, WalkEnds
      <4>2. stack' = Under(g)
        BY <3>2
      <4>. HIDE DEF g
      <4>3. Alike(g, seen)
        BY <2>3, <4>1 DEF Alike
      <4>. QED BY <2>3, <4>1, <4>2, <4>3
    <3>3. CASE r.extent # -1 /\ stack' = Under(on)
      <4>. DEFINE q == Enqueue(charged.queue, r.item, r.usize)
      <4>1. q \in Seq(Knowns)
        BY <2>1, <2>3, <3>3, EnqueueIn DEF Frames
      <4>2. next \in Nat
        <5>1. f.pos \in Nat /\ r.extent \in Nat
          BY <1>5, <2>1, <3>3 DEF Frames
        <5>2. end \in Nat
          BY <5>1
        <5>. HIDE DEF end
        <5>. QED BY <5>2, SkipIs
      <4>. HIDE DEF next
      <4>3. on = [charged EXCEPT !.queue = q, !.pos = next]
        OBVIOUS
      <4>. HIDE DEF q, on
      <4>4. on \in Frames /\ Alike(on, charged) /\ on.shares = charged.shares
        BY <2>3, <4>1, <4>2, <4>3 DEF Frames, Alike
      <4>5. Alike(on, seen)
        BY <2>3, <4>4 DEF Alike
      <4>. QED BY <2>3, <3>3, <4>4, <4>5
    <3>. HIDE DEF blocked, on
    <3>. QED BY <1>9, <3>1, <3>2, <3>3
  <2>5. Shaped(g) /\ g.phase # "round" /\ Promised(g, g.shares.remaining)
    <3>1. Shaped(g) /\ g.phase # "round"
      BY <1>1, <1>3, <1>5, <1>6, <2>4, SameShape DEF Alike
    <3>. QED BY <3>1 DEF Promised
  <2>6. r.scanned + g.shares.remaining <= Top.shares.remaining
    <3>1. g.shares.remaining \in Nat
      BY <2>4 DEF Sound, Budgets
    <3>. QED BY <1>5, <1>7, <2>1, <2>4, <3>1
  <2>. QED BY <1>1, <1>9, <2>1, <2>4, <2>5, <2>6, UnderKeeps
<1>. QED BY <1>2, <1>8, <1>9

LEMMA StartRoundKeeps ==
  ASSUME ReadInv, StartRound
  PROVE  ReadInv' /\ work <= work'
<1>. DEFINE f == Top
            known == Sorted(Dedup(f.queue, f.done), f.data)
            streams == Dedup(f.blocked, f.done)
            round == known \o streams
            promise == f.shares.remaining \div Len(round)
            g == [f EXCEPT !.phase = "round", !.queue = <<>>, !.blocked = <<>>,
                           !.round = round, !.streams = Len(streams), !.promise = promise]
<1>1. stack # <<>> /\ round # <<>> /\ stack' = Under(g) /\ limits' = limits /\ work' = work
  BY Zenon DEF StartRound
<1>2. f \in Frames /\ Shaped(f) /\ Sound(f.shares) /\ work \in Nat
  BY <1>1, TopIs DEF ReadInv, TypeOK
<1>3. known \in Seq(Knowns) /\ streams \in Seq(Blockings)
  <2>1. f.queue \in Seq(Knowns) /\ f.blocked \in Seq(Blockings)
    BY <1>2 DEF Frames
  <2>. HIDE DEF f, Knowns, Blockings
  <2>2. Dedup(f.queue, f.done) \in Seq(Knowns) /\ Dedup(f.blocked, f.done) \in Seq(Blockings)
    BY <2>1, DedupIn DEF Sort
  <2>. QED BY <2>2, SortedIn
<1>. HIDE DEF known, streams
<1>4. /\ round \in Seq(Knowns \cup Blockings) /\ Len(streams) \in Nat /\ Len(round) \in Nat
      /\ Len(round) = Len(known) + Len(streams) /\ Len(known) \in Nat
      /\ \A n \in DOMAIN round :
           round[n] \in IF Len(round) - n < Len(streams) THEN Blockings ELSE Knowns
  <2>. HIDE DEF Knowns, Blockings
  <2>1. /\ known \in Seq(Knowns \cup Blockings) /\ streams \in Seq(Knowns \cup Blockings)
        /\ Len(streams) \in Nat /\ Len(known) \in Nat
    BY <1>3
  <2>2. /\ round \in Seq(Knowns \cup Blockings) /\ Len(round) = Len(known) + Len(streams)
    BY <2>1
  <2>3. ASSUME NEW n \in DOMAIN round
        PROVE  round[n] \in IF Len(round) - n < Len(streams) THEN Blockings ELSE Knowns
    <3>1. n \in 1..(Len(known) + Len(streams))
      BY <2>2
    <3>2. CASE n <= Len(known)
      <4>1. round[n] = known[n] /\ n \in 1..Len(known) /\ ~(Len(round) - n < Len(streams))
        BY <2>1, <2>2, <3>1, <3>2
      <4>2. known[n] \in Knowns
        BY <1>3, <4>1
      <4>. HIDE DEF round
      <4>. QED BY <4>1, <4>2
    <3>3. CASE ~(n <= Len(known))
      <4>1. /\ round[n] = streams[n - Len(known)] /\ n - Len(known) \in 1..Len(streams)
            /\ Len(round) - n < Len(streams)
        BY <2>1, <2>2, <3>1, <3>3
      <4>2. streams[n - Len(known)] \in Blockings
        BY <1>3, <4>1
      <4>. HIDE DEF round
      <4>. QED BY <4>1, <4>2
    <3>. QED BY <3>2, <3>3
  <2>. QED BY <2>1, <2>2, <2>3
<1>5. Len(round) >= 1
  <2>. HIDE DEF round
  <2>. QED BY <1>1, <1>4
<1>. HIDE DEF round
<1>6. promise \in Nat /\ promise * Len(round) <= f.shares.remaining
  <2>1. f.shares.remaining \in Nat
    BY <1>2 DEF Sound, Budgets
  <2>. HIDE DEF f
  <2>2. promise \in Nat /\ Len(round) * promise <= f.shares.remaining
    BY <1>4, <1>5, <2>1, Quotient
  <2>. HIDE DEF promise
  <2>. QED BY <1>4, <2>2
<1>. HIDE DEF promise
<1>7. /\ g \in Frames /\ g.shares = f.shares /\ g.round = round /\ g.streams = Len(streams)
      /\ g.dirs = f.dirs /\ g.data = f.data /\ g.promise = promise
  <2>1. <<>> \in Seq(Knowns) /\ <<>> \in Seq(Blockings)
    <3>. HIDE DEF Knowns, Blockings
    <3>. QED OBVIOUS
  <2>. HIDE DEF f
  <2>. QED BY <1>2, <1>4, <1>6, <2>1 DEF Frames
<1>. HIDE DEF g
<1>8. Shaped(g)
  BY <1>2, <1>4, <1>7 DEF Shaped, StreamsLast, Placed
<1>9. Promised(g, g.shares.remaining)
  BY <1>6, <1>7 DEF Promised
<1>10. 0 \in Nat /\ work' = work + 0 /\ 0 + g.shares.remaining <= Top.shares.remaining
  BY <1>1, <1>2, <1>7 DEF Sound, Budgets
<1>. QED BY <1>1, <1>2, <1>7, <1>8, <1>9, <1>10, UnderKeeps

\* When one of n equal parts is used up, n - 1 of them are left.
LEMMA PartsLeft ==
  ASSUME NEW total \in Nat, NEW e \in Nat, NEW p \in Nat, NEW n \in Nat \ {0},
         p <= e, n * e <= total
  PROVE  p * (n - 1) \in Nat /\ p * (n - 1) <= total - e
<1>1. n - 1 \in Nat
  OBVIOUS
<1>2. p * (n - 1) \in Nat /\ e * (n - 1) \in Nat /\ p * (n - 1) <= e * (n - 1)
  BY <1>1, TimesMonotone
<1>3. e * (n - 1) = n * e - e /\ n * e \in Nat
  OBVIOUS
<1>. QED BY <1>2, <1>3

\* The member a round takes next, and the budget it starts with: whatever it
\* costs, the promise to the others is not of it.
LEMMA NextMember ==
  ASSUME NEW f \in Frames, Sound(f.shares), Shaped(f), Promised(f, f.shares.remaining),
         f.phase = "round", f.round # <<>>
  PROVE  LET i == Head(f.round)
             b == Charge(Share(f), EntryCost)
         IN /\ i \in Knowns \cup Blockings /\ Tail(f.round) \in Seq(Knowns \cup Blockings)
            /\ Sound(b) /\ b.remaining <= f.shares.remaining
            /\ i \in Blockings => 2 * b.entry <= b.remaining
            /\ \A g : g.round = Tail(f.round) /\ g.streams = f.streams /\ g.dirs = f.dirs
                      /\ g.data = f.data /\ g.promise = f.promise =>
                 /\ Shaped(g)
                 /\ \A left \in Nat : Slack(b) <= left => Promised(g, left)
            /\ \A g : g.round = Tail(f.round) /\ g.streams = f.streams
                      /\ g.promise = f.promise /\ i \in Blockings =>
                 \A left \in Nat : Promised(g, left)
<1>. DEFINE n == Len(f.round)
            i == Head(f.round)
            S == Share(f)
            b == Charge(S, EntryCost)
            R == f.shares.remaining
            p == f.promise
<1>1. /\ f.round \in Seq(Knowns \cup Blockings) /\ f.streams \in Nat /\ p \in Nat /\ R \in Nat
  BY DEF Frames, Sound, Budgets
<1>2. /\ n \in Nat \ {0} /\ DOMAIN f.round = 1..n /\ 1 \in 1..n /\ i = f.round[1]
      /\ Tail(f.round) \in Seq(Knowns \cup Blockings) /\ Len(Tail(f.round)) = n - 1
      /\ \A k \in 1..(n - 1) : Tail(f.round)[k] = f.round[k + 1]
      /\ DOMAIN Tail(f.round) = 1..(n - 1)
  <2>. HIDE DEF Knowns, Blockings
  <2>. QED BY <1>1
<1>3. \A k \in 1..n : f.round[k] \in IF n - k < f.streams THEN Blockings ELSE Knowns
  BY <1>2 DEF Shaped, StreamsLast
<1>4. i \in IF n - 1 < f.streams THEN Blockings ELSE Knowns
  BY <1>2, <1>3
<1>5. Knowns \cap Blockings = {}
  BY DEF Knowns, Blockings, Stream
<1>6. (i \in Blockings => n <= f.streams) /\ i \in Knowns \cup Blockings
  <2>. HIDE DEF i, n
  <2>1. CASE n - 1 < f.streams
    BY <1>1, <1>2, <1>4, <2>1
  <2>2. CASE ~(n - 1 < f.streams)
    <3>1. i \in Knowns
      BY <1>4, <2>2
    <3>. QED BY <1>5, <3>1
  <2>. QED BY <2>1, <2>2
<1>7. /\ Sound(S) /\ S.remaining = R
      /\ n <= f.streams => 2 * S.entry <= S.remaining
      /\ ~(n <= f.streams) => /\ n * S.entry <= R
                              /\ \A q \in Nat : n * q <= R => q <= S.entry
  <2>. HIDE DEF n
  <2>. QED BY <1>1, <1>2, ShareSound DEF n
<1>8. /\ Sound(b) /\ b.remaining <= R /\ b.remaining = Monus(R, EntryCost)
      /\ b.entry = Monus(S.entry, EntryCost)
  <2>1. EntryCost \in Nat
    BY ZipAssumption
  <2>. HIDE DEF S, R
  <2>. QED BY <1>7, <2>1, ChargeSound
<1>. HIDE DEF b, S, i, n, R, p
<1>9. /\ S.entry \in Nat /\ S.entry <= R /\ EntryCost \in Nat /\ b.entry \in Nat
      /\ b.remaining \in Nat /\ b.entry <= b.remaining
  BY <1>7, <1>8, ZipAssumption DEF Sound, Budgets
<1>10. i \in Blockings => 2 * b.entry <= b.remaining
  BY <1>1, <1>6, <1>7, <1>8, <1>9 DEF Monus
<1>11. ASSUME n > f.streams, p >= EntryCost
       PROVE  p * (n - 1) \in Nat /\ p * (n - 1) <= Slack(b)
  <2>1. ~(n <= f.streams)
    BY <1>1, <1>2, <1>11
  <2>2. p * n <= R
    BY <1>11 DEF Promised, n, p, R
  <2>3. p <= S.entry
    <3>1. n * p <= R
      BY <1>1, <1>2, <2>2
    <3>. QED BY <1>1, <1>7, <2>1, <3>1
  <2>4. p * (n - 1) \in Nat /\ p * (n - 1) <= R - S.entry
    BY <1>1, <1>2, <1>7, <1>9, <2>1, <2>3, PartsLeft
  <2>5. Slack(b) = R - S.entry
    <3>1. EntryCost <= S.entry
      BY <1>1, <1>9, <1>11, <2>3
    <3>2. b.remaining = R - EntryCost /\ b.entry = S.entry - EntryCost
      BY <1>1, <1>8, <1>9, <3>1 DEF Monus
    <3>. QED BY <1>1, <1>9, <3>2 DEF Slack
  <2>. QED BY <2>4, <2>5
<1>12. ASSUME NEW g, g.round = Tail(f.round), g.streams = f.streams, g.dirs = f.dirs,
              g.data = f.data
       PROVE  Shaped(g)
  <2>1. ASSUME NEW k \in 1..(n - 1)
        PROVE  g.round[k] \in IF (n - 1) - k < g.streams THEN Blockings ELSE Knowns
    <3>1. k + 1 \in 1..n /\ n - (k + 1) = (n - 1) - k
      BY <1>2
    <3>2. f.round[k + 1] \in IF n - (k + 1) < f.streams THEN Blockings ELSE Knowns
      BY <1>3, <3>1
    <3>3. g.round[k] = f.round[k + 1]
      BY <1>2, <1>12
    <3>. QED BY <1>12, <3>1, <3>2, <3>3, Zenon
  <2>2. StreamsLast(g)
    BY <1>2, <1>12, <2>1 DEF StreamsLast
  <2>. QED BY <1>12, <2>2 DEF Shaped, Placed
<1>13. ASSUME NEW g, g.round = Tail(f.round), g.streams = f.streams, g.promise = f.promise,
              g.phase = "round" /\ Len(g.round) > g.streams /\ g.promise >= EntryCost
       PROVE  /\ n > f.streams /\ p >= EntryCost
              /\ g.promise * Len(g.round) = p * (n - 1)
  <2>1. Len(g.round) = n - 1 /\ g.promise = p
    BY <1>2, <1>13 DEF p
  <2>. QED BY <1>1, <1>2, <1>13, <2>1
<1>14. ASSUME NEW g, g.round = Tail(f.round), g.streams = f.streams, g.promise = f.promise,
              NEW left \in Nat, Slack(b) <= left
       PROVE  Promised(g, left)
  <2>1. SUFFICES ASSUME g.phase = "round" /\ Len(g.round) > g.streams /\ g.promise >= EntryCost
                 PROVE  g.promise * Len(g.round) <= left
    BY Zenon DEF Promised
  <2>2. n > f.streams /\ p >= EntryCost /\ g.promise * Len(g.round) = p * (n - 1)
    BY <1>13, <1>14, <2>1, Zenon
  <2>3. p * (n - 1) \in Nat /\ p * (n - 1) <= Slack(b)
    BY <1>11, <2>2
  <2>. DEFINE x == p * (n - 1)
  <2>. HIDE DEF x
  <2>4. x <= left
    BY <1>9, <1>14, <2>3 DEF Slack, x
  <2>. QED BY <2>2, <2>4 DEF x
<1>15. ASSUME NEW g, g.round = Tail(f.round), g.streams = f.streams, g.promise = f.promise,
              i \in Blockings, NEW left \in Nat
       PROVE  Promised(g, left)
  <2>1. SUFFICES ASSUME g.phase = "round" /\ Len(g.round) > g.streams /\ g.promise >= EntryCost
                 PROVE  FALSE
    BY Zenon DEF Promised
  <2>2. n > f.streams
    BY <1>13, <1>15, <2>1, Zenon
  <2>. QED BY <1>1, <1>2, <1>6, <1>15, <2>2
<1>. QED BY <1>2, <1>6, <1>8, <1>10, <1>12, <1>14, <1>15, Zenon DEF b, S, i, R

LEMMA MemberKeeps ==
  ASSUME ReadInv, Member
  PROVE  ReadInv' /\ work <= work'
<1>. DEFINE f == Top
            i == Head(f.round)
            label == Append(f.path, i.name)
            b == Charge(Share(f), EntryCost)
            r == Decode(f, i, b)
            v == Visits(f, i, r)
            next == [f EXCEPT !.round = Tail(@), !.done = @ \cup {Key(i)}]
            spanned == [next EXCEPT !.spans = @ \cup {Span(i, r)}]
            early == IF i.extent = Stream THEN next ELSE spanned
            read == [spanned EXCEPT !.shares = v.shares, !.walks = @ \o Resumes(f, i, r)]
            turned == [early EXCEPT !.shares = b]
            nested == NewFrame(r.bytes, f.depth + 1, label, v.shares.entry)
            refused == Encrypted(i) \/ ~Decodable(i.method) \/ r.refused
<1>1. stack # <<>> /\ f.phase = "round" /\ f.round # <<>> /\ limits' = limits
  BY DEF Member
<1>2. \/ refused /\ stack' = Under(turned) /\ work' = work
      \/ ~refused /\ v.reads /\ stack' = Append(Under(read), nested) /\ work' = work + r.cost + v.cost
      \/ ~refused /\ ~v.reads /\ stack' = Under(read) /\ work' = work + r.cost + v.cost
  BY ZenonT(60) DEF Member
<1>3. /\ f \in Frames /\ Sound(f.shares) /\ Shaped(f) /\ Promised(f, f.shares.remaining)
      /\ limits \in LimitRecords /\ work \in Nat
  BY <1>1, TopIs DEF ReadInv, TypeOK
<1>4. /\ i \in Knowns \cup Blockings /\ Tail(f.round) \in Seq(Knowns \cup Blockings)
      /\ Sound(b) /\ b.remaining <= f.shares.remaining
      /\ i \in Blockings => 2 * b.entry <= b.remaining
      /\ \A g : g.round = Tail(f.round) /\ g.streams = f.streams /\ g.dirs = f.dirs
                /\ g.data = f.data /\ g.promise = f.promise =>
           /\ Shaped(g)
           /\ \A left \in Nat : Slack(b) <= left => Promised(g, left)
      /\ \A g : g.round = Tail(f.round) /\ g.streams = f.streams
                /\ g.promise = f.promise /\ i \in Blockings =>
           \A left \in Nat : Promised(g, left)
  <2>. HIDE DEF f
  <2>. QED BY <1>1, <1>3, NextMember
<1>. HIDE DEF b
<1>5. b.remaining \in Nat /\ b.entry \in Nat /\ b.entry <= b.remaining /\ f.shares.remaining \in Nat
  BY <1>3, <1>4 DEF Sound, Budgets
<1>6. /\ Key(i) \in Keys /\ i.start \in Nat /\ i.header \in Nat /\ i.name \in STRING
      /\ i.extent # Stream => i.extent \in Nat
  <2>. HIDE DEF i, f
  <2>1. CASE i \in Knowns
    <3>1. Encrypted(i) \in BOOLEAN
      BY DEF Encrypted
    <3>. QED BY <2>1, <3>1 DEF Key, Keys, Knowns
  <2>2. CASE i \in Blockings
    <3>1. Encrypted(i) \in BOOLEAN
      BY DEF Encrypted
    <3>2. /\ i.start \in Nat /\ i.method \in Nat /\ i.extent = Stream /\ Stream \in Int
          /\ i.header \in Nat /\ i.name \in STRING
      BY <2>2 DEF Blockings, Stream, DEFLATE, BZIP2
    <3>. QED BY <3>1, <3>2 DEF Key, Keys
  <2>. QED BY <1>4, <2>1, <2>2
<1>. HIDE DEF i
<1>7. /\ next \in Frames /\ next.shares = f.shares /\ next.round = Tail(f.round)
      /\ next.streams = f.streams /\ next.dirs = f.dirs /\ next.data = f.data
      /\ next.promise = f.promise /\ next.phase = f.phase
  <2>. DEFINE done == f.done \cup {Key(i)}
              round == Tail(f.round)
  <2>1. done \in SUBSET Keys
    BY <1>3, <1>6 DEF Frames
  <2>2. next = [f EXCEPT !.round = round, !.done = done]
    OBVIOUS
  <2>3. round \in Seq(Knowns \cup Blockings)
    BY <1>4
  <2>. HIDE DEF done, round, f, next
  <2>4. /\ next \in Frames /\ next.shares = f.shares /\ next.round = round
        /\ next.streams = f.streams /\ next.dirs = f.dirs /\ next.data = f.data
        /\ next.promise = f.promise /\ next.phase = f.phase
    BY <1>3, <2>1, <2>2, <2>3 DEF Frames
  <2>. QED BY <2>4 DEF round
<1>. HIDE DEF next
<1>8. ASSUME i.extent # Stream \/ r.used \in Nat
      PROVE  /\ spanned \in Frames /\ spanned.shares = next.shares /\ spanned.round = next.round
             /\ spanned.streams = next.streams /\ spanned.dirs = next.dirs
             /\ spanned.data = next.data /\ spanned.promise = next.promise
             /\ spanned.phase = next.phase /\ spanned.walks = next.walks
  <2>. DEFINE s == Span(i, r)
              spans == next.spans \cup {s}
  <2>. HIDE DEF r
  <2>1. s \in Nat \X Nat
    <3>1. CASE i.extent = Stream
      BY <1>6, <1>8, <3>1 DEF Span
    <3>2. CASE i.extent # Stream
      BY <1>6, <3>2 DEF Span
    <3>. QED BY <3>1, <3>2
  <2>. HIDE DEF s
  <2>2. spans \in SUBSET (Nat \X Nat)
    BY <1>7, <2>1 DEF Frames
  <2>3. spanned = [next EXCEPT !.spans = spans]
    BY DEF s
  <2>. HIDE DEF spans, spanned
  <2>. QED BY <1>7, <2>2, <2>3 DEF Frames
<1>9. CASE refused /\ stack' = Under(turned) /\ work' = work
  <2>1. /\ early \in Frames /\ early.round = Tail(f.round)
        /\ early.streams = f.streams /\ early.dirs = f.dirs /\ early.data = f.data
        /\ early.promise = f.promise /\ early.phase = f.phase
    <3>. HIDE DEF spanned
    <3>1. CASE i.extent = Stream
      BY <1>7, <3>1
    <3>2. CASE i.extent # Stream
      BY <1>7, <1>8, <3>2
    <3>. QED BY <3>1, <3>2
  <2>. HIDE DEF early
  <2>2. /\ turned \in Frames /\ turned.shares = b /\ turned.round = Tail(f.round)
        /\ turned.streams = f.streams /\ turned.dirs = f.dirs /\ turned.data = f.data
        /\ turned.promise = f.promise
    BY <1>4, <2>1 DEF Frames, Sound
  <2>. HIDE DEF turned
  <2>3. Shaped(turned) /\ Promised(turned, turned.shares.remaining)
    <3>1. Slack(b) <= b.remaining
      BY <1>5 DEF Slack
    <3>. QED BY <1>4, <1>5, <2>2, <3>1
  <2>4. 0 \in Nat /\ work' = work + 0 /\ 0 + turned.shares.remaining <= Top.shares.remaining
    BY <1>3, <1>4, <1>5, <1>9, <2>2
  <2>. QED BY <1>1, <1>4, <1>9, <2>2, <2>3, <2>4, UnderKeeps
<1>10. CASE ~refused /\ work' = work + r.cost + v.cost
            /\ (stack' = Under(read) \/ stack' = Append(Under(read), nested))
  <2>1. Paid(b, r) /\ (i \in Knowns => Slack(r.shares) = Slack(b))
    <3>1. Decodable(i.method) /\ ~Decode(f, i, b).refused
      BY <1>10
    <3>2. f.data \in Data
      BY <1>3 DEF Frames
    <3>. HIDE DEF f
    <3>. QED BY <1>3, <1>4, <3>1, <3>2, DecodePays
  <2>. HIDE DEF r
  <2>2. /\ Sound(r.shares) /\ r.bytes \in Data /\ r.used \in Nat /\ r.cost \in Nat
        /\ r.cost + r.shares.remaining <= b.remaining
    BY <2>1 DEF Paid
  <2>3. /\ Sound(v.shares) /\ Slack(v.shares) = Slack(r.shares)
        /\ v.cost \in Nat /\ v.cost + v.shares.remaining <= r.shares.remaining
    BY <1>4, <2>2, VisitsPay
  <2>. HIDE DEF v
  <2>4. /\ r.shares.remaining \in Nat /\ v.shares.remaining \in Nat /\ v.shares.entry \in Nat
        /\ v.shares.entry <= v.shares.remaining /\ v.shares \in Budgets
    BY <2>2, <2>3 DEF Sound, Budgets
  <2>. DEFINE n == r.cost + v.cost
  <2>5. /\ n \in Nat /\ work' = work + n /\ n + v.shares.remaining <= f.shares.remaining
    <3>1. /\ n \in Nat /\ n + v.shares.remaining <= f.shares.remaining
      <4>. DEFINE c == r.cost
                  x == v.cost
                  y == v.shares.remaining
                  z == r.shares.remaining
                  w == b.remaining
                  R == f.shares.remaining
      <4>1. c \in Nat /\ x \in Nat /\ y \in Nat /\ z \in Nat /\ w \in Nat /\ R \in Nat
        BY <1>5, <2>2, <2>3, <2>4
      <4>2. c + z <= w /\ x + y <= z /\ w <= R
        BY <1>4, <2>2, <2>3
      <4>. HIDE DEF c, x, y, z, w, R
      <4>3. c + x \in Nat /\ (c + x) + y <= R
        BY <4>1, <4>2
      <4>. QED BY <4>3 DEF c, x, y, R
    <3>2. work' = work + r.cost + v.cost
      BY <1>10
    <3>. DEFINE x == r.cost
                y == v.cost
    <3>3. x \in Nat /\ y \in Nat /\ work' = work + x + y /\ n = x + y
      BY <2>2, <2>3, <3>2
    <3>. HIDE DEF x, y, n
    <3>4. work' = work + n
      BY <1>3, <3>3
    <3>. QED BY <3>1, <3>4
  <2>. HIDE DEF n
  <2>6. /\ read \in Frames /\ read.shares = v.shares /\ read.round = Tail(f.round)
        /\ read.streams = f.streams /\ read.dirs = f.dirs /\ read.data = f.data
        /\ read.promise = f.promise
    <3>1. /\ spanned \in Frames /\ spanned.round = Tail(f.round)
          /\ spanned.streams = f.streams /\ spanned.dirs = f.dirs /\ spanned.data = f.data
          /\ spanned.promise = f.promise
      BY <1>7, <1>8, <2>2
    <3>. HIDE DEF spanned
    <3>2. Resumes(f, i, r) \in Seq(Nat)
      <4>1. SkipDescriptor(f.data, i.start + r.used, i.zip64) \in Nat
        <5>1. i.start + r.used \in Nat
          BY <1>6, <2>2
        <5>. QED BY <5>1, SkipIs
      <4>. QED BY <4>1 DEF Resumes
    <3>. DEFINE walks == spanned.walks \o Resumes(f, i, r)
    <3>3. walks \in Seq(Nat)
      <4>1. spanned.walks \in Seq(Nat)
        BY <3>1 DEF Frames
      <4>. QED BY <3>2, <4>1
    <3>4. read = [spanned EXCEPT !.shares = v.shares, !.walks = walks]
      OBVIOUS
    <3>. HIDE DEF walks, read
    <3>. QED BY <2>4, <3>1, <3>3, <3>4 DEF Frames
  <2>. HIDE DEF read
  <2>7. Shaped(read)
    BY <1>4, <2>6
  <2>8. /\ Slack(v.shares) \in Nat /\ Slack(v.shares) <= v.shares.remaining
    BY <2>4 DEF Slack
  <2>9. Promised(read, v.shares.remaining) /\ Promised(read, Slack(v.shares))
    <3>1. CASE i \in Knowns
      <4>1. Slack(b) = Slack(v.shares)
        BY <2>1, <2>3, <3>1
      <4>. QED BY <1>4, <2>4, <2>6, <2>8, <4>1
    <3>2. CASE i \in Blockings
      BY <1>4, <2>4, <2>6, <2>8, <3>2
    <3>. QED BY <1>4, <3>1, <3>2
  <2>10. CASE stack' = Under(read)
    BY <1>1, <2>3, <2>5, <2>6, <2>7, <2>9, <2>10, UnderKeeps
  <2>11. CASE stack' = Append(Under(read), nested)
    <3>1. f.depth + 1 \in Nat /\ label \in Seq(STRING)
      <4>1. f.path \in Seq(STRING) /\ f.depth \in Nat
        BY <1>3 DEF Frames
      <4>. QED BY <1>6, <4>1
    <3>. HIDE DEF label
    <3>2. /\ nested \in Frames /\ Sound(nested.shares)
          /\ nested.shares.remaining = v.shares.entry /\ nested.phase = "open" /\ Shaped(nested)
      BY <2>2, <2>4, <3>1, NewFrameIs
    <3>. HIDE DEF nested
    <3>. QED BY <1>1, <2>3, <2>5, <2>6, <2>7, <2>9, <2>11, <3>2, PushKeeps
  <2>. QED BY <1>10, <2>10, <2>11
<1>. HIDE DEF refused, turned, read, nested, r, v
<1>. QED BY <1>2, <1>9, <1>10

LEMMA ReadKeeps ==
  ASSUME ReadInv, ReadNext
  PROVE  /\ ReadInv' /\ work <= work' /\ limits' = limits /\ gaps \subseteq gaps'
         /\ stack # <<>>
<1>1. ReadInv' /\ work <= work'
  BY OpenKeeps, CentralKeeps, WalkKeeps, StartRoundKeeps, MemberKeeps, EndRoundKeeps,
     CloseKeeps DEF ReadNext
<1>2. gaps \subseteq gaps' /\ limits' = limits /\ stack # <<>>
  <2>1. CASE Open
    BY <2>1 DEF Open
  <2>2. CASE CentralEntry
    BY <2>2 DEF CentralEntry
  <2>3. CASE Walk
    BY <2>3 DEF Walk
  <2>4. CASE StartRound
    BY <2>4 DEF StartRound
  <2>5. CASE Member
    BY <2>5 DEF Member
  <2>6. CASE EndRound
    BY <2>6 DEF EndRound
  <2>7. CASE Close
    BY <2>7 DEF Close
  <2>. QED BY <2>1, <2>2, <2>3, <2>4, <2>5, <2>6, <2>7 DEF ReadNext
<1>. QED BY <1>1, <1>2

-----------------------------------------------------------------------------
(***************************************************************************)
(* The file's rules around the reading.                                    *)
(***************************************************************************)
Inv ==
  /\ ReadInv
  /\ file \in Files /\ todo \subseteq Rules
  /\ cache = "unset" => stack = <<>> /\ work = 0
  /\ cache = "reading" => todo # {}
  /\ stack # <<>> => cache = "reading"

LEMMA InitInv == Init => Inv
<1>. SUFFICES ASSUME Init PROVE Inv
  OBVIOUS
<1>1. limits \in LimitRecords
  BY ZipAssumption DEF Init, LimitRecords
<1>2. stack = <<>> /\ work = 0 /\ limits.readBack \in Nat
  BY <1>1 DEF Init, LimitRecords
<1>3. stack \in Seq(Frames) /\ DOMAIN stack = {}
  <2>. HIDE DEF Frames
  <2>. QED BY <1>2
<1>4. ReadInv
  BY <1>1, <1>2, <1>3 DEF ReadInv, TypeOK, FramesInv, LedgerInv
<1>. QED BY <1>2, <1>4 DEF Init, Inv

\* What was done so far is paid for.
WorkIsPaid == work \in Nat /\ limits.readBack \in Nat /\ work <= limits.readBack

LEMMA WorkPaid == ReadInv => WorkIsPaid
<1>. SUFFICES ASSUME ReadInv
              PROVE  work \in Nat /\ limits.readBack \in Nat /\ work <= limits.readBack
  BY DEF WorkIsPaid
<1>1. work \in Nat /\ limits.readBack \in Nat
  BY DEF ReadInv, TypeOK, LimitRecords
<1>2. CASE stack = <<>>
  BY <1>1, <1>2 DEF ReadInv, LedgerInv
<1>3. CASE stack # <<>>
  <2>1. Len(stack) \in Nat \ {0} /\ Top.shares.remaining \in Nat
    BY <1>3, TopIs DEF Sound, Budgets
  <2>2. PICK s : BelowInv(s) /\ work + s[Len(stack)] + Top.shares.remaining <= limits.readBack
    BY <1>3 DEF ReadInv, LedgerInv
  <2>. DEFINE x == s[Len(stack)]
              y == Top.shares.remaining
  <2>3. x \in Nat
    BY <2>1, <2>2 DEF BelowInv
  <2>4. y \in Nat /\ work + x + y <= limits.readBack
    BY <2>1, <2>2
  <2>. HIDE DEF x, y
  <2>. QED BY <1>1, <2>3, <2>4
<1>. QED BY <1>2, <1>3

LEMMA InspectKeeps ==
  ASSUME Inv, NEW r \in Rules, Inspect(r)
  PROVE  Inv' /\ work' = work /\ gaps' = gaps /\ limits' = limits /\ r \in todo
<1>1. /\ r \in todo /\ cache = "unset" /\ stack = <<>> /\ work = 0 /\ ReadInv
      /\ limits' = limits /\ gaps' = gaps /\ work' = work /\ file' = file /\ todo' = todo
      /\ file \in Files /\ todo \subseteq Rules
  BY DEF Inspect, Inv
<1>2. CASE cache' = "none" /\ stack' = stack
  <2>1. ReadInv'
    BY <1>1, <1>2 DEF ReadInv, TypeOK, FramesInv, LedgerInv
  <2>. QED BY <1>1, <1>2, <2>1 DEF Inv
<1>3. CASE cache' = "reading" /\ stack' = <<NewFrame(file.data, 1, <<>>, limits.readBack)>>
  <2>. DEFINE h == NewFrame(file.data, 1, <<>>, limits.readBack)
              L == limits.readBack
  <2>1. L \in Nat /\ limits \in LimitRecords
    BY <1>1 DEF ReadInv, TypeOK, LimitRecords
  <2>2. /\ h \in Frames /\ Sound(h.shares) /\ h.shares.remaining = L /\ h.phase = "open"
        /\ Shaped(h)
    <3>1. file.data \in Data /\ 1 \in Nat /\ <<>> \in Seq(STRING)
      BY <1>1, FilesAssumption DEF Data
    <3>. QED BY <2>1, <3>1, NewFrameIs
  <2>. HIDE DEF h
  <2>3. /\ stack' = <<h>> /\ stack' \in Seq(Frames) /\ Len(stack') = 1 /\ DOMAIN stack' = {1}
        /\ stack'[1] = h /\ stack' # <<>> /\ Top' = h
    <3>1. stack' = <<h>>
      BY <1>3 DEF h
    <3>2. stack' \in Seq(Frames) /\ Len(stack') = 1 /\ DOMAIN stack' = {1}
          /\ stack'[1] = h /\ stack' # <<>>
      <4>. HIDE DEF Frames
      <4>. QED BY <2>2, <3>1
    <3>. QED BY <3>1, <3>2 DEF Top
  <2>4. TypeOK'
    BY <1>1, <2>1, <2>3 DEF TypeOK
  <2>5. FramesInv'
    BY <2>2, <2>3 DEF FramesInv, Promised
  <2>6. LedgerInv'
    <3>1. PICK s : s = [k \in 1..1 |-> 0]
      OBVIOUS
    <3>2. s \in [1..1 -> Nat] /\ s[1] = 0 /\ 1..(1 - 1) = {}
      BY <3>1
    <3>3. BelowInv(s)'
      BY <2>3, <3>2 DEF BelowInv
    <3>4. work' + s[Len(stack')] + Top'.shares.remaining <= limits'.readBack
      <4>1. Top'.shares.remaining = L /\ limits'.readBack = L /\ work' = 0 /\ s[Len(stack')] = 0
        BY <1>1, <2>2, <2>3, <3>2
      <4>. HIDE DEF L
      <4>. QED BY <2>1, <4>1
    <3>. QED BY <2>3, <3>3, <3>4 DEF LedgerInv
  <2>7. ReadInv'
    BY <2>4, <2>5, <2>6 DEF ReadInv
  <2>. QED BY <1>1, <1>3, <2>7 DEF Inv
<1>4. \/ cache' = "none" /\ stack' = stack
      \/ cache' = "reading" /\ stack' = <<NewFrame(file.data, 1, <<>>, limits.readBack)>>
  BY Zenon DEF Inspect
<1>. QED BY <1>2, <1>3, <1>4

\* A step that is not of the reader leaves the reading as it is.
LEMMA ReadInvSame ==
  ASSUME ReadInv, UNCHANGED readVars
  PROVE  ReadInv'
<1>1. limits' = limits /\ stack' = stack /\ work' = work
  BY DEF readVars
<1>. QED BY <1>1 DEF ReadInv, TypeOK, FramesInv, Left, LedgerInv, BelowInv, Top

\* Every step keeps the invariant and is one that MeteredRead allows.
LEMMA NextStep ==
  ASSUME Inv, Next
  PROVE  Inv' /\ (Metered!Read \/ UNCHANGED Metered!vars)
<1>0. work \in Nat /\ limits.readBack \in Nat /\ work <= limits.readBack /\ ReadInv
  BY WorkPaid DEF Inv, WorkIsPaid
<1>1. CASE ReadNext /\ UNCHANGED <<file, cache, todo, outcome>>
  <2>1. /\ ReadInv' /\ work <= work' /\ limits' = limits /\ gaps \subseteq gaps'
        /\ stack # <<>>
    BY <1>0, <1>1, ReadKeeps
  <2>2. cache = "reading" /\ todo # {} /\ todo' = todo /\ cache' = cache /\ file' = file
    BY <1>1, <2>1 DEF Inv
  <2>3. Inv'
    BY <2>1, <2>2 DEF Inv
  <2>4. WorkIsPaid'
    BY <2>1, WorkPaid, PTL
  <2>5. Metered!Read
    BY <1>0, <2>1, <2>2, <2>4 DEF Metered!Read, WorkIsPaid
  <2>. QED BY <2>3, <2>5
<1>2. ASSUME NEW r \in Rules, Inspect(r)
      PROVE  Inv' /\ (Metered!Read \/ UNCHANGED Metered!vars)
  <2>1. Inv' /\ work' = work /\ gaps' = gaps /\ limits' = limits /\ r \in todo
    BY <1>2, InspectKeeps
  <2>2. Metered!Read
    BY <1>0, <2>1 DEF Metered!Read
  <2>. QED BY <2>1, <2>2
<1>3. ASSUME NEW r \in Rules, Evaluate(r)
      PROVE  Inv' /\ (Metered!Read \/ UNCHANGED Metered!vars)
  <2>1. /\ r \in todo /\ cache # "reading" /\ UNCHANGED <<readVars, file, cache>>
        /\ todo' = todo \ {r}
    BY <1>3 DEF Evaluate
  <2>2. ReadInv' /\ work' = work /\ gaps' = gaps /\ limits' = limits /\ stack' = stack
    BY <1>0, <2>1, ReadInvSame DEF readVars
  <2>3. Inv'
    BY <2>1, <2>2 DEF Inv
  <2>4. Metered!Read
    BY <1>0, <2>1, <2>2 DEF Metered!Read
  <2>. QED BY <2>3, <2>4
<1>4. CASE Inspected
  <2>1. cache' = "read" /\ stack = <<>> /\ UNCHANGED <<readVars, file, todo>>
    BY <1>4 DEF Inspected
  <2>2. ReadInv' /\ work' = work /\ gaps' = gaps /\ limits' = limits /\ stack' = stack
    BY <1>0, <2>1, ReadInvSame DEF readVars
  <2>3. Inv'
    BY <2>1, <2>2 DEF Inv
  <2>4. UNCHANGED Metered!vars
    BY <2>1, <2>2 DEF Metered!vars
  <2>. QED BY <2>3, <2>4
<1>5. CASE todo = {} /\ UNCHANGED vars
  <2>1. /\ ReadInv' /\ work' = work /\ gaps' = gaps /\ limits' = limits /\ stack' = stack
        /\ file' = file /\ todo' = todo /\ cache' = cache
    BY <1>0, <1>5, ReadInvSame DEF vars, readVars
  <2>2. Inv' /\ UNCHANGED Metered!vars
    BY <2>1 DEF Inv, Metered!vars
  <2>. QED BY <2>2
<1>. QED BY <1>1, <1>2, <1>3, <1>4, <1>5 DEF Next

LEMMA StutterKeeps ==
  ASSUME Inv, UNCHANGED vars
  PROVE  Inv' /\ UNCHANGED Metered!vars
<1>1. /\ ReadInv' /\ work' = work /\ gaps' = gaps /\ limits' = limits /\ stack' = stack
      /\ file' = file /\ todo' = todo /\ cache' = cache
  BY ReadInvSame DEF vars, readVars, Inv
<1>. QED BY <1>1 DEF Inv, Metered!vars

-----------------------------------------------------------------------------
\* The invariant above holds of every scan of every file.
THEOREM Invariant == Spec => []Inv
<1>1. Inv /\ [Next]_vars => Inv'
  BY NextStep, StutterKeeps
<1>. QED BY InitInv, <1>1, PTL DEF Spec

\* The reading of a zip, of the zips in it and of their members does no more
\* work than the allowance the scan gives it, over all levels and whatever
\* the bytes say, takes back no report of what it did not inspect, and does
\* nothing once the rules are evaluated (zip.rs:1-31, budget.rs:1-45).
THEOREM Refines == Spec => MeteredSpec
<1>1. Init => Metered!Init
  <2>. SUFFICES ASSUME Init PROVE Metered!Init
    OBVIOUS
  <2>1. limits.readBack \in Nat
    BY ZipAssumption DEF Init
  <2>. QED BY <2>1 DEF Init, Metered!Init, Rules
<1>2. Inv /\ [Next]_vars => [Metered!Read]_(Metered!vars)
  BY NextStep, StutterKeeps
<1>. QED BY <1>1, <1>2, Invariant, PTL DEF Spec, MeteredSpec, Metered!Spec

\* A member of a round whose end is known has at least the share the round
\* promised each of its members, whatever the ones before it cost, a zip
\* among them and all that is in it included (budget.rs:34-37,
\* zip.rs:563-571).
THEOREM SharesPromised == Spec => []PromiseKept
<1>1. ReadInv => PromiseKept
  <2>. SUFFICES ASSUME ReadInv, NEW k \in DOMAIN stack, stack[k].phase = "round",
                       Len(stack[k].round) > stack[k].streams, stack[k].promise >= EntryCost
                PROVE  Share(stack[k]).entry >= stack[k].promise
    BY DEF PromiseKept
  <2>. DEFINE f == stack[k]
              n == Len(f.round)
              R == f.shares.remaining
              p == f.promise
  <2>1. f \in Frames /\ Sound(f.shares) /\ Promised(f, Left(k))
    BY DEF ReadInv, TypeOK, FramesInv
  <2>2. n \in Nat /\ f.streams \in Nat /\ p \in Nat /\ R \in Nat /\ f.shares.entry \in Nat
    BY <2>1 DEF Frames, Sound, Budgets
  <2>3. Left(k) \in Int /\ Left(k) <= R
    BY <2>2 DEF Left, Slack
  <2>4. p * n <= Left(k)
    BY <2>1 DEF Promised
  <2>5. n \in Nat \ {0} /\ ~(n <= f.streams)
    BY <2>2
  <2>. DEFINE q == Share(f).entry
  <2>6. q \in Nat /\ \A x \in Nat : n * x <= R => x <= q
    <3>1. Sound(Share(f))
          /\ (~(n <= f.streams) => \A x \in Nat : n * x <= R => x <= q)
      <4>. HIDE DEF f
      <4>. QED BY <2>1, <2>2, <2>5, ShareSound
    <3>. QED BY <2>5, <3>1 DEF Sound, Budgets
  <2>7. n * p <= R
    <3>. HIDE DEF n, p, R
    <3>1. p * n \in Nat /\ n * p = p * n
      BY <2>2
    <3>. QED BY <2>2, <2>3, <2>4, <3>1
  <2>8. p <= q
    BY <2>2, <2>6, <2>7
  <2>. HIDE DEF f, q
  <2>9. q >= p
    BY <2>2, <2>6, <2>8
  <2>. QED BY <2>9 DEF f, q
<1>2. Inv => PromiseKept
  BY <1>1 DEF Inv
<1>. QED BY <1>2, Invariant, PTL

=============================================================================
