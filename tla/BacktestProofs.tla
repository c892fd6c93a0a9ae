-------------------------- MODULE BacktestProofs --------------------------
(***************************************************************************)
(* Proofs about the import of history, for every history, page size, file  *)
(* size and number of refusals, kills and repetitions; and about the       *)
(* labels and the report of the research that reads the directory the      *)
(* import fills.                                                           *)
(***************************************************************************)
EXTENDS Backtest, Lemmas

-----------------------------------------------------------------------------
(***************************************************************************)
(* Pages                                                                   *)
(***************************************************************************)
\* What the server has
LEMMA HistoryType ==
  ASSUME NEW h \in Histories
  PROVE  /\ h \in Seq(Record) /\ Len(h) \in Nat /\ DOMAIN h = 1 .. Len(h)
         /\ \A i \in DOMAIN h : /\ h[i] \in Record
                                /\ h[i].id \in Nat /\ h[i].open \in Nat /\ h[i].close \in Nat
                                /\ h[i].open <= h[i].close
         /\ \A i, j \in DOMAIN h : j < i =>
              /\ h[j].id < h[i].id
              /\ h[j].open = h[i].open \/ h[j].close < h[i].open
              /\ h[j].open <= h[i].open
<1>1. h \in Seq(Record)
  BY HistoricalAssumption
<1>2. Len(h) \in Nat /\ DOMAIN h = 1 .. Len(h) /\ \A i \in DOMAIN h : h[i] \in Record
  BY <1>1
<1>3. \A i \in DOMAIN h : /\ h[i].id \in Nat /\ h[i].open \in Nat /\ h[i].close \in Nat
                          /\ h[i].open <= h[i].close
  BY <1>2, HistoricalAssumption DEF Record
<1>4. ASSUME NEW i \in DOMAIN h, NEW j \in DOMAIN h, j < i
      PROVE  /\ h[j].id < h[i].id
             /\ h[j].open = h[i].open \/ h[j].close < h[i].open
  <2>1. j \in 1 .. i - 1
    BY <1>2, <1>4
  <2> QED BY <2>1, HistoricalAssumption
<1>5. ASSUME NEW i \in DOMAIN h, NEW j \in DOMAIN h, j < i PROVE h[j].open <= h[i].open
  BY <1>3, <1>4, <1>5
<1> QED BY <1>1, <1>2, <1>3, <1>4, <1>5

InRange(r, from) == from <= r.open /\ r.open <= EndTime

\* Record k of the page is record p[k] of the history, and the page is all that
\* is in the range, or the first PageLimit of it.
PageAt(p, page, h, from) ==
  /\ Len(page) \in 0 .. PageLimit
  /\ p \in [1 .. Len(page) -> DOMAIN h]
  /\ \A k \in 1 .. Len(page) : page[k] = h[p[k]] /\ InRange(page[k], from)
  /\ \A k, l \in 1 .. Len(page) : k < l => p[k] < p[l]
  /\ \A i \in DOMAIN h : InRange(h[i], from) =>
       \/ \E k \in 1 .. Len(page) : p[k] = i
       \/ Len(page) = PageLimit /\ p[Len(page)] < i

\* A page is records of the history in range, in order.
LEMMA PageIs ==
  ASSUME NEW h \in Histories, NEW from \in Nat
  PROVE  /\ PageOf(h, from) \in Seq(Record)
         /\ \E p : PageAt(p, PageOf(h, from), h, from)
<1> DEFINE S == {r \in Range(h) : from <= r.open /\ r.open <= EndTime}
           page == PageOf(h, from)
<1>1. PICK all : all = Only(h, S)
  OBVIOUS
<1>2. PICK n : n = Len(h)
  OBVIOUS
<1>3. n \in Nat /\ DOMAIN h = 1 .. n /\ h \in Seq(Record)
  BY <1>2, HistoryType
<1>4. \A i \in 1 .. n : h[i] \in S <=> InRange(h[i], from)
  BY <1>3 DEF Range, InRange
<1> HIDE DEF S
<1>5. PICK p : Picks(p, all, h, S, n)
  BY <1>1, <1>2, <1>3, OnlyPicks
<1>6. all \in Seq(Record)
  BY <1>1, <1>3, OnlyType
<1>7. PICK c \in Nat : c = Len(all)
  BY <1>6
<1>8. PICK m : m = IF c < PageLimit THEN c ELSE PageLimit
  OBVIOUS
<1>9. page = SubSeq(all, 1, m)
  BY <1>1, <1>7, <1>8, Zenon DEF PageOf, S
<1>10. m \in 0 .. PageLimit /\ m \in Nat /\ m <= c /\ (m < PageLimit => m = c)
  BY <1>7, <1>8, HistoricalAssumption
<1>11. \A i \in 1 .. c : all[i] \in Record
  BY <1>6, <1>7
<1> HIDE DEF page
<1>12. page \in Seq(Record) /\ Len(page) = m /\ \A k \in 1 .. m : page[k] = all[k]
  <2>1. \A i \in 1 .. m : all[i] \in Record
    BY <1>7, <1>10, <1>11
  <2>2. 1 \in Int /\ m \in Int
    BY <1>10
  <2>3. page \in Seq(Record) /\ Len(page) = (IF 1 <= m THEN m - 1 + 1 ELSE 0)
        /\ \A k \in 1 .. m - 1 + 1 : page[k] = all[1 + k - 1]
    BY <1>9, <2>1, <2>2, SubSeqProperties
  <2> QED BY <1>10, <2>3
<1>13. /\ p \in [1 .. c -> 1 .. n]
       /\ \A k \in 1 .. c : all[k] = h[p[k]] /\ h[p[k]] \in S
       /\ \A k, l \in 1 .. c : k < l => p[k] < p[l]
       /\ \A i \in 1 .. n : h[i] \in S => \E k \in 1 .. c : p[k] = i
  BY <1>5, <1>7 DEF Picks
<1> DEFINE q == [k \in 1 .. m |-> p[k]]
<1>14. \A k \in 1 .. m : k \in 1 .. c /\ q[k] = p[k] /\ p[k] \in 1 .. n
  BY <1>7, <1>10, <1>13
<1>15. q \in [1 .. m -> 1 .. n]
  BY <1>14
<1> HIDE DEF q
<1>16. \A k \in 1 .. m : page[k] = h[q[k]] /\ InRange(page[k], from)
  BY <1>4, <1>12, <1>13, <1>14, SMTT(40)
<1>17. \A k, l \in 1 .. m : k < l => q[k] < q[l]
  BY <1>13, <1>14
<1>18. ASSUME NEW i \in 1 .. n, InRange(h[i], from)
       PROVE  \/ \E k \in 1 .. m : q[k] = i
              \/ m = PageLimit /\ q[m] < i
  <2>1. PICK k \in 1 .. c : p[k] = i
    BY <1>4, <1>13, <1>18
  <2>2. CASE k <= m
    <3>1. k \in 1 .. m
      BY <1>10, <2>2
    <3> QED BY <1>14, <2>1, <3>1
  <2>3. CASE m < k
    <3>1. m = PageLimit /\ m \in 1 .. m /\ m \in 1 .. c
      BY <1>7, <1>10, <2>3, HistoricalAssumption
    <3> QED BY <1>13, <1>14, <2>1, <2>3, <3>1
  <2> QED BY <1>10, <2>2, <2>3
<1>19. PageAt(q, page, h, from)
  BY <1>3, <1>10, <1>12, <1>15, <1>16, <1>17, <1>18, Zenon DEF PageAt
<1> QED BY <1>12, <1>19 DEF page

-----------------------------------------------------------------------------
(***************************************************************************)
(* What is fetched                                                         *)
(***************************************************************************)
\* Pages that are full end at the multiples of their size.
Cut(k) == \E q \in Nat : k = PageLimit * q

(***************************************************************************)
(* F is what was fetched of h when the next page starts at c: everything   *)
(* before c, in order, but for records with the opening time of the last   *)
(* one of a full page.  A page that is not full is the last one.           *)
(***************************************************************************)
FetchedIs(h, c, F) ==
  /\ c \in Nat /\ F \in Seq(Record)
  /\ \A k \in 1 .. Len(F) : \E i \in DOMAIN h : F[k] = h[i] /\ h[i].open < c
  /\ \A k, l \in 1 .. Len(F) : k < l => F[k].id < F[l].id
  /\ \A i \in DOMAIN h : h[i].open < c /\ h[i].open <= EndTime =>
       \/ \E k \in 1 .. Len(F) : F[k] = h[i]
       \/ \E k \in 1 .. Len(F) : Cut(k) /\ F[k].open = h[i].open
  /\ \/ Cut(Len(F))
     \/ \A i \in DOMAIN h : h[i].open <= EndTime => h[i].open < c

\* Before the first page nothing is fetched.
LEMMA NothingFetched == ASSUME NEW h \in Histories PROVE FetchedIs(h, 0, <<>>)
<1>1. <<>> \in Seq(Record) /\ Len(<<>>) = 0 /\ \A k : k \notin 1 .. 0
  OBVIOUS
<1>2. Cut(0)
  <2>1. 0 = PageLimit * 0
    BY HistoricalAssumption
  <2> QED BY <2>1 DEF Cut
<1>3. \A i \in DOMAIN h : ~(h[i].open < 0)
  BY HistoryType
<1> QED BY <1>1, <1>2, <1>3, Zenon DEF FetchedIs

\* One more page keeps it so.
LEMMA PageFollows ==
  ASSUME NEW h \in Histories, NEW c, NEW F, FetchedIs(h, c, F), PageOf(h, c) # <<>>
  PROVE  FetchedIs(h, NextStart(PageOf(h, c)), F \o PageOf(h, c))
<1>1. PICK page : page = PageOf(h, c)
  OBVIOUS
<1>2. c \in Nat /\ F \in Seq(Record)
  BY DEF FetchedIs
<1>3. page \in Seq(Record) /\ page # <<>> /\ \E p : PageAt(p, page, h, c)
  BY <1>1, <1>2, PageIs
<1>4. PICK p : PageAt(p, page, h, c)
  BY <1>3
<1>5. PICK m \in Nat \ {0}, n \in Nat : m = Len(page) /\ n = Len(F)
  BY <1>2, <1>3, EmptySeq
<1>6. PICK G : G = F \o page
  OBVIOUS
<1>7. /\ G \in Seq(Record) /\ Len(G) = n + m
      /\ \A k \in 1 .. n : k \in 1 .. n + m /\ G[k] = F[k]
      /\ \A k \in 1 .. m : n + k \in 1 .. n + m /\ G[n + k] = page[k]
  BY <1>2, <1>3, <1>5, <1>6, ConcatProperties
<1>8. /\ m <= PageLimit
      /\ \A k \in 1 .. m : /\ p[k] \in DOMAIN h /\ page[k] = h[p[k]]
                           /\ c <= page[k].open /\ page[k].open <= EndTime
      /\ \A k, l \in 1 .. m : k < l => p[k] < p[l]
      /\ \A i \in DOMAIN h : c <= h[i].open /\ h[i].open <= EndTime =>
           (\E k \in 1 .. m : p[k] = i) \/ (m = PageLimit /\ p[m] < i)
  BY <1>4, <1>5 DEF PageAt, InRange
<1>9. \A k \in 1 .. n + m : k \in 1 .. n \/ \E j \in 1 .. m : k = n + j
  <2> TAKE k \in 1 .. n + m
  <2>1. k \in 1 .. n \/ (k - n \in 1 .. m /\ k = n + (k - n))
    OBVIOUS
  <2> QED BY <2>1
<1>10. m \in 1 .. m
  OBVIOUS
<1>11. PICK d : d = NextStart(page)
  OBVIOUS
<1>12. d = h[p[m]].close + 1 /\ d \in Nat /\ h[p[m]].open < d /\ c <= d
  <2>1. d = page[m].close + 1
    BY <1>5, <1>11 DEF NextStart, Last
  <2>2. page[m] = h[p[m]] /\ p[m] \in DOMAIN h /\ c <= h[p[m]].open
    BY <1>8, <1>10
  <2>3. /\ h[p[m]].open \in Nat /\ h[p[m]].close \in Nat
        /\ h[p[m]].open <= h[p[m]].close
    BY <2>2, HistoryType
  <2> QED BY <1>2, <2>1, <2>2, <2>3
<1>13. /\ \A k \in 1 .. n : \E i \in DOMAIN h : F[k] = h[i] /\ h[i].open < c
       /\ \A k, l \in 1 .. n : k < l => F[k].id < F[l].id
       /\ \A i \in DOMAIN h : h[i].open < c /\ h[i].open <= EndTime =>
            \/ \E k \in 1 .. n : F[k] = h[i]
            \/ \E k \in 1 .. n : Cut(k) /\ F[k].open = h[i].open
       /\ \/ Cut(n)
          \/ \A i \in DOMAIN h : h[i].open <= EndTime => h[i].open < c
  BY <1>5, Zenon DEF FetchedIs
\* The pages before this one were full: there was something left.
<1>14. Cut(n)
  <2>1. p[m] \in DOMAIN h /\ c <= h[p[m]].open /\ h[p[m]].open <= EndTime
    BY <1>8, <1>10
  <2>2. h[p[m]].open \in Nat
    BY <2>1, HistoryType
  <2>3. ~(h[p[m]].open < c)
    BY <1>2, <2>1, <2>2
  <2> QED BY <1>13, <2>1, <2>3
<1>15. m = PageLimit => Cut(n + m)
  <2> HAVE m = PageLimit
  <2>1. PICK q \in Nat : n = PageLimit * q
    BY <1>14 DEF Cut
  <2>2. PageLimit \in Nat
    BY HistoricalAssumption
  <2>3. PageLimit * (q + 1) = PageLimit * q + PageLimit
    BY <2>2
  <2>4. n + m = PageLimit * (q + 1) /\ q + 1 \in Nat
    BY <2>1, <2>2, <2>3
  <2> QED BY <2>4 DEF Cut
<1>16. ASSUME NEW k \in 1 .. n + m
       PROVE  \E i \in DOMAIN h : G[k] = h[i] /\ h[i].open < d
  <2>1. CASE k \in 1 .. n
    <3>1. PICK i \in DOMAIN h : F[k] = h[i] /\ h[i].open < c
      BY <1>13, <2>1
    <3>2. h[i].open \in Nat
      BY HistoryType
    <3> QED BY <1>2, <1>7, <1>12, <2>1, <3>1, <3>2
  <2>2. CASE k \notin 1 .. n
    <3>1. PICK j \in 1 .. m : k = n + j
      BY <1>9, <2>2
    <3>2. G[k] = h[p[j]] /\ p[j] \in DOMAIN h
      BY <1>7, <1>8, <3>1
    <3>3. h[p[j]].open <= h[p[m]].open
      <4>1. p[m] \in DOMAIN h /\ h[p[m]].open \in Nat /\ h[p[j]].open \in Nat
        BY <1>8, <1>10, <3>2, HistoryType
      <4>2. CASE j = m
        BY <4>1, <4>2
      <4>3. CASE j # m
        <5>1. j < m
          BY <4>3
        <5>2. p[j] < p[m]
          BY <1>8, <1>10, <5>1
        <5> QED BY <3>2, <4>1, <5>2, HistoryType
      <4> QED BY <4>2, <4>3
    <3>4. h[p[j]].open < d
      <4>1. p[m] \in DOMAIN h /\ h[p[m]].open \in Nat /\ h[p[j]].open \in Nat
        BY <1>8, <1>10, <3>2, HistoryType
      <4> QED BY <1>12, <3>3, <4>1
    <3> QED BY <3>2, <3>4
  <2> QED BY <2>1, <2>2
<1>17. ASSUME NEW k \in 1 .. n + m, NEW l \in 1 .. n + m, k < l
       PROVE  G[k].id < G[l].id
  <2>1. CASE l \in 1 .. n
    <3>1. k \in 1 .. n
      BY <1>17, <2>1
    <3> QED BY <1>7, <1>13, <1>17, <2>1, <3>1
  <2>2. CASE l \notin 1 .. n
    <3>1. PICK j \in 1 .. m : l = n + j
      BY <1>9, <2>2
    <3>2. G[l] = h[p[j]] /\ p[j] \in DOMAIN h /\ c <= h[p[j]].open
      BY <1>7, <1>8, <3>1
    <3>3. CASE k \in 1 .. n
      <4>1. PICK i \in DOMAIN h : F[k] = h[i] /\ h[i].open < c
        BY <1>13, <3>3
      <4>2. i \in Nat /\ p[j] \in Nat /\ h[i].open \in Nat /\ h[p[j]].open \in Nat
        BY <3>2, HistoryType
      <4>3. ~(p[j] < i) /\ p[j] # i
        <5>1. h[i].open < h[p[j]].open
          BY <1>2, <3>2, <4>1, <4>2
        <5>2. p[j] < i => h[p[j]].open <= h[i].open
          BY <3>2, HistoryType
        <5> QED BY <4>2, <5>1, <5>2
      <4>4. i < p[j]
        BY <4>2, <4>3
      <4>5. h[i].id < h[p[j]].id
        BY <3>2, <4>4, HistoryType
      <4> QED BY <1>7, <3>2, <3>3, <4>1, <4>5
    <3>4. CASE k \notin 1 .. n
      <4>1. PICK a \in 1 .. m : k = n + a
        BY <1>9, <3>4
      <4>2. a < j
        BY <1>17, <3>1, <4>1
      <4>3. p[a] < p[j] /\ G[k] = h[p[a]] /\ p[a] \in DOMAIN h
        BY <1>7, <1>8, <4>1, <4>2
      <4> QED BY <3>2, <4>3, HistoryType
    <3> QED BY <3>3, <3>4
  <2> QED BY <2>1, <2>2
<1>18. ASSUME NEW i \in DOMAIN h, h[i].open < d, h[i].open <= EndTime
       PROVE  \/ \E k \in 1 .. n + m : G[k] = h[i]
              \/ \E k \in 1 .. n + m : Cut(k) /\ G[k].open = h[i].open
  <2>1. CASE h[i].open < c
    <3>1. CASE \E k \in 1 .. n : F[k] = h[i]
      BY <1>7, <3>1
    <3>2. CASE \E k \in 1 .. n : Cut(k) /\ F[k].open = h[i].open
      BY <1>7, <3>2
    <3> QED BY <1>13, <1>18, <2>1, <3>1, <3>2
  <2>2. CASE ~(h[i].open < c)
    <3>1. h[i].open \in Nat /\ i \in Nat
      BY HistoryType
    <3>2. c <= h[i].open
      BY <1>2, <2>2, <3>1
    <3>3. CASE \E k \in 1 .. m : p[k] = i
      <4>1. PICK k \in 1 .. m : p[k] = i
        BY <3>3
      <4>2. G[n + k] = h[i] /\ n + k \in 1 .. n + m
        BY <1>7, <1>8, <4>1
      <4> QED BY <4>2
    <3>4. CASE m = PageLimit /\ p[m] < i
      <4>1. p[m] \in DOMAIN h /\ G[n + m] = h[p[m]] /\ n + m \in 1 .. n + m
        BY <1>7, <1>8, <1>10
      <4>2. /\ h[p[m]].open = h[i].open \/ h[p[m]].close < h[i].open
            /\ h[p[m]].close \in Nat
        BY <3>4, <4>1, HistoryType
      <4>3. h[p[m]].open = h[i].open
        BY <1>12, <1>18, <3>1, <4>2
      <4> QED BY <1>15, <3>4, <4>1, <4>3
    <3> QED BY <1>8, <1>18, <3>2, <3>3, <3>4
  <2> QED BY <2>1, <2>2
<1>19. \/ Cut(n + m)
       \/ \A i \in DOMAIN h : h[i].open <= EndTime => h[i].open < d
  <2>1. SUFFICES ASSUME m # PageLimit, NEW i \in DOMAIN h, h[i].open <= EndTime
                 PROVE  h[i].open < d
    BY <1>15
  <2>2. h[i].open \in Nat
    BY HistoryType
  <2>3. CASE h[i].open < c
    BY <1>2, <1>12, <2>2, <2>3
  <2>4. CASE ~(h[i].open < c)
    <3>1. c <= h[i].open
      BY <1>2, <2>2, <2>4
    <3>2. PICK k \in 1 .. m : p[k] = i
      BY <1>8, <2>1, <3>1
    <3>3. n + k \in 1 .. n + m /\ G[n + k] = h[i]
      BY <1>7, <1>8, <3>2
    <3>4. PICK j \in DOMAIN h : h[i] = h[j] /\ h[j].open < d
      BY <1>16, <3>3
    <3> QED BY <3>4
  <2> QED BY <2>3, <2>4
<1>20. FetchedIs(h, d, G)
  BY <1>7, <1>12, <1>16, <1>17, <1>18, <1>19, ZenonT(60) DEF FetchedIs
<1> QED BY <1>1, <1>6, <1>11, <1>20, Zenon
-----------------------------------------------------------------------------
(***************************************************************************)
(* One import fetches what another does                                    *)
(***************************************************************************)
NoneLeft(h, c) == c >= EndTime \/ PageOf(h, c) = <<>>

\* f[k] is cursor and events after k pages.
Fetches(f, h, n) ==
  /\ f[0] = [cursor |-> 0, fetched |-> <<>>]
  /\ \A k \in 1 .. n :
       /\ ~NoneLeft(h, f[k - 1].cursor)
       /\ f[k] = [cursor |-> NextStart(PageOf(h, f[k - 1].cursor)),
                  fetched |-> f[k - 1].fetched \o PageOf(h, f[k - 1].cursor)]

Reaches(h, c, F) ==
  \E n \in Nat : \E f : Fetches(f, h, n) /\ f[n] = [cursor |-> c, fetched |-> F]

\* The first page is reached.
LEMMA ReachesFirst == ASSUME NEW h PROVE Reaches(h, 0, <<>>)
<1> DEFINE f == [k \in {0} |-> [cursor |-> 0, fetched |-> <<>>]]
<1>1. f[0] = [cursor |-> 0, fetched |-> <<>>]
  OBVIOUS
<1>2. 0 \in Nat /\ \A k : k \notin 1 .. 0
  OBVIOUS
<1> HIDE DEF f
<1>3. Fetches(f, h, 0)
  BY <1>1, <1>2, Zenon DEF Fetches
<1> QED BY <1>1, <1>2, <1>3 DEF Reaches

\* From a page that is reached, and not the last, the next one is reached.
LEMMA ReachesNext ==
  ASSUME NEW h, NEW c, NEW F, Reaches(h, c, F), ~NoneLeft(h, c)
  PROVE  Reaches(h, NextStart(PageOf(h, c)), F \o PageOf(h, c))
<1>0. PICK n \in Nat : \E f : Fetches(f, h, n) /\ f[n] = [cursor |-> c, fetched |-> F]
  BY DEF Reaches
<1>1. PICK f : Fetches(f, h, n) /\ f[n] = [cursor |-> c, fetched |-> F]
  BY <1>0
<1>2. PICK d, G : d = NextStart(PageOf(h, c)) /\ G = F \o PageOf(h, c)
  OBVIOUS
<1> DEFINE g == [k \in 0 .. n + 1 |-> IF k = n + 1 THEN [cursor |-> d, fetched |-> G] ELSE f[k]]
<1>3. /\ g[n + 1] = [cursor |-> d, fetched |-> G]
      /\ \A k \in 0 .. n : g[k] = f[k]
      /\ 0 \in 0 .. n /\ n \in 0 .. n
  OBVIOUS
<1> HIDE DEF g
<1>4. g[0] = [cursor |-> 0, fetched |-> <<>>]
  BY <1>1, <1>3, Zenon DEF Fetches
<1>5. ASSUME NEW k \in 1 .. n + 1
      PROVE  /\ ~NoneLeft(h, g[k - 1].cursor)
             /\ g[k] = [cursor |-> NextStart(PageOf(h, g[k - 1].cursor)),
                        fetched |-> g[k - 1].fetched \o PageOf(h, g[k - 1].cursor)]
  <2>1. CASE k = n + 1
    <3>1. k - 1 = n
      BY <2>1
    <3>2. g[k - 1] = [cursor |-> c, fetched |-> F]
      BY <1>1, <1>3, <3>1, Zenon
    <3>3. g[k - 1].cursor = c /\ g[k - 1].fetched = F
      BY <3>2
    <3> QED BY <1>2, <1>3, <2>1, <3>3, Zenon
  <2>2. CASE k # n + 1
    <3>1. k \in 1 .. n /\ k \in 0 .. n /\ k - 1 \in 0 .. n
      BY <2>2
    <3>2. g[k] = f[k] /\ g[k - 1] = f[k - 1]
      BY <1>3, <3>1, Zenon
    <3> QED BY <1>1, <3>1, <3>2, Zenon DEF Fetches
  <2> QED BY <2>1, <2>2
<1>6. Fetches(g, h, n + 1)
  BY <1>4, <1>5, Zenon DEF Fetches
<1>7. n + 1 \in Nat
  BY <1>1
<1> QED BY <1>2, <1>3, <1>6, <1>7, Zenon DEF Reaches

\* Two runs agree as far as both go.
LEMMA RunsAgree ==
  ASSUME NEW h, NEW n \in Nat, NEW f, Fetches(f, h, n), NEW g, Fetches(g, h, n)
  PROVE  f[n] = g[n]
<1> DEFINE T == {k \in 0 .. n : f[k] # g[k]}
<1>1. SUFFICES ASSUME T # {} PROVE FALSE
  OBVIOUS
<1>2. T \subseteq Nat
  OBVIOUS
<1>3. PICK k \in T : \A j \in T : k <= j
  <2> HIDE DEF T
  <2> QED BY <1>1, <1>2, LeastElement
<1>4. f[0] = g[0]
  BY Zenon DEF Fetches
<1>5. k \in 1 .. n /\ k - 1 \notin T /\ k - 1 \in 0 .. n
  <2>1. k # 0
    BY <1>3, <1>4
  <2> QED BY <1>3, <2>1
<1>6. f[k - 1] = g[k - 1] /\ f[k] # g[k]
  BY <1>3, <1>5
<1> HIDE DEF T
<1> QED BY <1>5, <1>6, Zenon DEF Fetches

\* A run that is over is as long as any other.
LEMMA NoLongerRun ==
  ASSUME NEW h, NEW n \in Nat, NEW f, Fetches(f, h, n), NoneLeft(h, f[n].cursor),
         NEW m \in Nat, NEW g, Fetches(g, h, m)
  PROVE  m <= n
<1>0. SUFFICES ASSUME n < m PROVE FALSE
  OBVIOUS
<1>1. n + 1 \in 1 .. m /\ n + 1 - 1 = n /\ \A k \in 1 .. n : k \in 1 .. m
  BY <1>0
<1>2. Fetches(g, h, n)
  BY <1>1, Zenon DEF Fetches
<1>3. f[n] = g[n]
  BY <1>2, RunsAgree
<1>4. PICK k \in 1 .. m : k - 1 = n
  BY <1>1
<1>5. ~NoneLeft(h, g[k - 1].cursor)
  BY <1>4, Zenon DEF Fetches
<1> QED BY <1>3, <1>4, <1>5, Zenon

\* Every import of a history ends with the same records.
LEMMA OneEnd ==
  ASSUME NEW h, NEW c, NEW F, Reaches(h, c, F), NoneLeft(h, c),
         NEW d, NEW G, Reaches(h, d, G), NoneLeft(h, d)
  PROVE  F = G
<1>0. PICK n \in Nat : \E f : Fetches(f, h, n) /\ f[n] = [cursor |-> c, fetched |-> F]
  BY DEF Reaches
<1>1. PICK f : Fetches(f, h, n) /\ f[n] = [cursor |-> c, fetched |-> F]
  BY <1>0
<1>00. PICK m \in Nat : \E g : Fetches(g, h, m) /\ g[m] = [cursor |-> d, fetched |-> G]
  BY DEF Reaches
<1>2. PICK g : Fetches(g, h, m) /\ g[m] = [cursor |-> d, fetched |-> G]
  BY <1>00
<1>3. f[n].cursor = c /\ f[n].fetched = F /\ g[m].cursor = d /\ g[m].fetched = G
  BY <1>1, <1>2
<1>4. m <= n
  <2>1. Fetches(f, h, n) /\ NoneLeft(h, f[n].cursor) /\ Fetches(g, h, m)
    BY <1>1, <1>2, <1>3, Zenon
  <2> QED BY <2>1, NoLongerRun
<1>5. n <= m
  <2>1. Fetches(g, h, m) /\ NoneLeft(h, g[m].cursor) /\ Fetches(f, h, n)
    BY <1>1, <1>2, <1>3, Zenon
  <2> QED BY <2>1, NoLongerRun
<1>6. n = m
  BY <1>4, <1>5
<1>7. f[n] = g[n]
  BY <1>1, <1>2, <1>6, RunsAgree
<1> QED BY <1>3, <1>6, <1>7, Zenon

-----------------------------------------------------------------------------
(***************************************************************************)
(* Batches                                                                 *)
(***************************************************************************)
\* Where batch k ends
EndOf(F, k) == IF Len(F) < k * FileBatch THEN Len(F) ELSE k * FileBatch

\* The ends of the batches are ascending.
LEMMA Batches ==
  /\ \A k \in Nat : k * FileBatch \in Nat
  /\ \A k \in Nat : (k + 1) * FileBatch = k * FileBatch + FileBatch
  /\ \A j, k \in Nat : j < k => j * FileBatch < k * FileBatch
  /\ FileBatch \in Nat \ {0}
  /\ 0 * FileBatch = 0 /\ 1 * FileBatch = FileBatch
<1>1. FileBatch \in Nat \ {0}
  BY HistoricalAssumption
<1>2. \A k \in Nat : k * FileBatch \in Nat
  BY <1>1
<1>3. \A k \in Nat : (k + 1) * FileBatch = k * FileBatch + FileBatch
  BY <1>1
<1>4. \A j, d \in Nat : (j + d) * FileBatch = j * FileBatch + d * FileBatch
  BY <1>1
<1>5. ASSUME NEW j \in Nat, NEW k \in Nat, j < k PROVE j * FileBatch < k * FileBatch
  <2>1. PICK d \in Nat : k = (j + d) + 1
    <3>1. k - j - 1 \in Nat /\ k = (j + (k - j - 1)) + 1
      BY <1>5
    <3> QED BY <3>1
  <2>2. k * FileBatch = j * FileBatch + d * FileBatch + FileBatch
    <3>1. j + d \in Nat
      OBVIOUS
    <3> QED BY <1>3, <1>4, <2>1, <3>1
  <2>3. PICK x \in Nat, y \in Nat : x = j * FileBatch /\ y = d * FileBatch
    BY <1>2
  <2> QED BY <1>1, <2>2, <2>3
<1>6. 0 * FileBatch = 0 /\ 1 * FileBatch = FileBatch
  BY <1>1
<1> QED BY <1>1, <1>2, <1>3, <1>5, <1>6

\* A batch is the slice of the records between two ends.
LEMMA BatchIs ==
  ASSUME NEW F \in Seq(Record), NEW k \in Nat
  PROVE  /\ BatchOf(F, k + 1) = SubSeq(F, k * FileBatch + 1, EndOf(F, k + 1))
         /\ BatchOf(F, k + 1) \in Seq(Record)
         /\ BatchOf(F, k + 1) = <<>> <=> Len(F) <= k * FileBatch
<1>1. PICK x \in Nat, y \in Nat, n \in Nat :
        x = k * FileBatch /\ y = (k + 1) * FileBatch /\ n = Len(F)
  <2>1. k + 1 \in Nat /\ Len(F) \in Nat
    OBVIOUS
  <2>2. k * FileBatch \in Nat /\ (k + 1) * FileBatch \in Nat
    BY <2>1, Batches
  <2> QED BY <2>1, <2>2
<1>2. y = x + FileBatch /\ FileBatch \in Nat \ {0}
  BY <1>1, Batches
<1>3. k + 1 - 1 = k
  OBVIOUS
<1>4. PICK z : z = EndOf(F, k + 1)
  OBVIOUS
<1>5. z = IF n < y THEN n ELSE y
  BY <1>1, <1>4 DEF EndOf
<1>6. z \in Nat /\ z <= n /\ (z < x + 1 <=> n <= x)
  BY <1>1, <1>2, <1>5
<1>7. PICK b : b = SubSeq(F, x + 1, z)
  OBVIOUS
<1>8. BatchOf(F, k + 1) = b
  <2>1. PICK j : j = k + 1 /\ j - 1 = k
    BY <1>3
  <2>2. BatchOf(F, j) = SubSeq(F, (j - 1) * FileBatch + 1, EndOf(F, j))
    BY DEF BatchOf, EndOf
  <2> QED BY <1>1, <1>4, <1>7, <2>1, <2>2, Zenon
<1>9. \A i \in x + 1 .. z : F[i] \in Record
  <2>1. \A i \in x + 1 .. z : i \in 1 .. Len(F)
    BY <1>1, <1>6
  <2> QED BY <2>1, ElementOfSeq
<1>10. b \in Seq(Record) /\ Len(b) = IF x + 1 <= z THEN z - (x + 1) + 1 ELSE 0
  BY <1>6, <1>7, <1>9, SubSeqProperties
<1>11. b = <<>> <=> n <= x
  <2>1. b = <<>> <=> Len(b) = 0
    BY <1>10, EmptySeq
  <2>2. Len(b) = 0 <=> n <= x
    BY <1>6, <1>10
  <2> QED BY <2>1, <2>2
<1> QED BY <1>1, <1>4, <1>7, <1>8, <1>10, <1>11, Zenon

\* Files that hold the batches of F, every one of them, hold F.
LEMMA FilesFlatten ==
  ASSUME NEW F \in Seq(Record), NEW s, NEW N \in Nat, N = Len(s),
         N = 0 => s = <<>>,
         \A k \in 1 .. N : s[k] = BatchOf(F, k) /\ s[k] # <<>>,
         BatchOf(F, N + 1) = <<>>
  PROVE  FlattenSeq(s) = F
<1>1. PICK L \in Nat : L = Len(F)
  OBVIOUS
<1>2. L <= N * FileBatch
  BY <1>1, BatchIs
<1>3. CASE N = 0
  <2>1. L = 0
    BY <1>1, <1>2, <1>3, Batches
  <2>2. F = <<>>
    BY <1>1, <2>1, EmptySeq
  <2>3. FlattenSeq(s) = s
    BY <1>3 DEF FlattenSeq
  <2> QED BY <1>3, <2>2, <2>3
<1>4. CASE N # 0
  <2> DEFINE Rec(f) == f = [i \in 1 .. N |-> IF i = 1 THEN s[i] ELSE f[i - 1] \o s[i]]
             R == CHOOSE f : Rec(f)
             Upto(i) == SubSeq(F, 1, EndOf(F, i))
             g == [i \in 1 .. N |-> Upto(i)]
  <2>1. ASSUME NEW i \in 1 .. N
        PROVE  /\ i = 1 => s[i] = Upto(i)
               /\ i # 1 => i - 1 \in 1 .. N /\ Upto(i - 1) \o s[i] = Upto(i)
    <3>1. PICK k \in Nat : k = i - 1 /\ i = k + 1
      <4>1. i - 1 \in Nat
        OBVIOUS
      <4> QED BY <4>1
    <3>2. s[i] = SubSeq(F, k * FileBatch + 1, EndOf(F, i)) /\ ~(L <= k * FileBatch)
      BY <1>1, <3>1, BatchIs, ZenonT(60)
    <3>3. PICK x \in Nat, y \in Nat : x = k * FileBatch /\ y = EndOf(F, i) /\ x <= y /\ y <= L /\ x < L
      <4>1. PICK x \in Nat, z \in Nat : x = k * FileBatch /\ z = i * FileBatch
        BY <3>1, Batches
      <4>2. z = x + FileBatch /\ FileBatch \in Nat \ {0}
        BY <3>1, <4>1, Batches
      <4>3. PICK y : y = EndOf(F, i)
        OBVIOUS
      <4>4. y = IF L < z THEN L ELSE z
        BY <1>1, <4>1, <4>3 DEF EndOf
      <4>5. x < L
        BY <3>2, <4>1
      <4> QED BY <4>1, <4>2, <4>3, <4>4, <4>5
    <3>4. ASSUME i = 1 PROVE s[i] = Upto(i)
      <4>1. k = 0
        BY <3>1, <3>4
      <4>2. k * FileBatch + 1 = 1
        BY <4>1, Batches
      <4> QED BY <3>2, <4>2
    <3>5. ASSUME i # 1 PROVE i - 1 \in 1 .. N /\ Upto(i - 1) \o s[i] = Upto(i)
      <4>1. i - 1 \in 1 .. N
        BY <3>5
      <4>2. EndOf(F, i - 1) = x
        BY <1>1, <3>1, <3>3 DEF EndOf
      <4>3. s[i] = SubSeq(F, x + 1, y) /\ Upto(i) = SubSeq(F, 1, y)
        BY <3>2, <3>3, Zenon
      <4>4. SubSeq(F, 1, x) \o SubSeq(F, x + 1, y) = SubSeq(F, 1, y)
        <5>1. 1 \in 1 .. Len(F) + 1 /\ x \in 1 - 1 .. Len(F) /\ y \in x .. Len(F)
          BY <1>1, <3>3
        <5> QED BY <5>1, ConcatAdjacentSubSeq
      <4> QED BY <4>1, <4>2, <4>3, <4>4, Zenon
    <3> QED BY <3>4, <3>5
  <2>2. \A i \in 1 .. N : g[i] = Upto(i)
    OBVIOUS
  <2> HIDE DEF Upto
  <2> DEFINE q == [i \in 1 .. N |-> IF i = 1 THEN s[i] ELSE g[i - 1] \o s[i]]
  <2>3. \A i \in 1 .. N : /\ i = 1 => q[i] = s[i]
                          /\ i # 1 => q[i] = g[i - 1] \o s[i]
    <3> HIDE DEF g
    <3> QED OBVIOUS
  <2>4. q = [i \in 1 .. N |-> q[i]] /\ g = [i \in 1 .. N |-> g[i]]
    OBVIOUS
  <2>5. ASSUME NEW i \in 1 .. N PROVE q[i] = g[i]
    <3> HIDE DEF g, q
    <3>1. CASE i = 1
      BY <2>1, <2>2, <2>3, <3>1, ZenonT(60)
    <3>2. CASE i # 1
      <4>1. i - 1 \in 1 .. N /\ Upto(i - 1) \o s[i] = Upto(i)
        BY <2>1, <3>2, Zenon
      <4>2. q[i] = g[i - 1] \o s[i]
        BY <2>3, <3>2, Zenon
      <4>3. g[i - 1] = Upto(i - 1)
        BY <2>2, <4>1, Zenon
      <4> QED BY <2>2, <4>1, <4>2, <4>3, Zenon
    <3> QED BY <3>1, <3>2
  <2>6. [i \in 1 .. N |-> q[i]] = [i \in 1 .. N |-> g[i]]
    <3> HIDE DEF g, q
    <3> QED BY <2>5
  <2>7. g = q
    <3> HIDE DEF g, q
    <3> QED BY <2>4, <2>6, Zenon
  <2>8. Rec(g)
    <3> HIDE DEF g
    <3> QED BY <2>7, Zenon
  <2>9. Rec(R)
    BY <2>8
  <2>10. FlattenSeq(s) = R[N]
    BY <1>4 DEF FlattenSeq
  <2> HIDE DEF R
  <2>11. PICK r : r = R
    OBVIOUS
  <2> DEFINE w == [i \in 1 .. N |-> IF i = 1 THEN s[i] ELSE r[i - 1] \o s[i]]
  <2>12. r = w
    BY <2>9, <2>11, Zenon
  <2>13. \A i \in 1 .. N : /\ i = 1 => w[i] = s[i]
                           /\ i # 1 => w[i] = r[i - 1] \o s[i]
    OBVIOUS
  <2> HIDE DEF w, g, q
  <2> DEFINE T == {i \in 1 .. N : r[i] # Upto(i)}
  <2>14. T = {}
    <3>1. SUFFICES ASSUME T # {} PROVE FALSE
      OBVIOUS
    <3>2. T \subseteq Nat
      OBVIOUS
    <3>3. PICK i \in T : \A j \in T : i <= j
      <4> HIDE DEF T
      <4> QED BY <3>1, <3>2, LeastElement
    <3>4. i \in 1 .. N /\ r[i] # Upto(i)
      BY <3>3
    <3>5. CASE i = 1
      BY <2>1, <2>12, <2>13, <3>4, <3>5, Zenon
    <3>6. CASE i # 1
      <4>1. i - 1 \in 1 .. N /\ Upto(i - 1) \o s[i] = Upto(i)
        BY <2>1, <3>4, <3>6, Zenon
      <4>2. ~(i <= i - 1)
        BY <3>4
      <4>3. r[i - 1] = Upto(i - 1)
        BY <3>3, <4>1, <4>2
      <4> QED BY <2>12, <2>13, <3>4, <3>6, <4>1, <4>3, Zenon
    <3> QED BY <3>5, <3>6
  <2>15. N \in 1 .. N
    BY <1>4
  <2>16. r[N] = Upto(N)
    BY <2>14, <2>15
  <2>17. Upto(N) = F
    <3>1. EndOf(F, N) = L
      <4>1. PICK z \in Nat : z = N * FileBatch
        BY Batches
      <4> QED BY <1>1, <1>2, <4>1 DEF EndOf
    <3> QED BY <1>1, <3>1, SubSeqFull DEF Upto
  <2> QED BY <2>10, <2>11, <2>16, <2>17, Zenon
<1> QED BY <1>3, <1>4

-----------------------------------------------------------------------------
(***************************************************************************)
(* The import                                                              *)
(***************************************************************************)
\* No import has left more files than a whole one writes.
NotTooMany(h, fs) ==
  fs # <<>> => \E c, F : /\ Reaches(h, c, F) /\ NoneLeft(h, c)
                         /\ F \in Seq(Record) /\ BatchOf(F, Len(fs)) # <<>>

\* The first n files hold the first n batches of F.
FilesAre(fs, F, n) ==
  /\ fs \in Seq(Seq(Record)) /\ n \in 0 .. Len(fs)
  /\ \A k \in 1 .. n : fs[k] = BatchOf(F, k) /\ fs[k] # <<>>

(***************************************************************************)
(* Files may be left from imports before this one.  That those beyond the  *)
(* last batch of this import cannot be there follows from every import     *)
(* fetching the same.                                                      *)
(***************************************************************************)
ImportInv ==
  /\ history \in Histories
  /\ FetchedIs(history, cursor, fetched)
  /\ Reaches(history, cursor, fetched)
  /\ FilesAre(files, fetched, written)
  /\ NotTooMany(history, files)
  /\ \/ importer \in {"fetching", "failed", "killed"} /\ written = 0
     \/ importer \in {"writing", "done"} /\ created /\ NoneLeft(history, cursor)
  /\ importer = "done" => BatchOf(fetched, written + 1) = <<>>

RecordingInv ==
  /\ importer = "done" /\ history = <<>> /\ created
  /\ \E r \in Recordings : files = Recorded(r)

DirectoryInv == RecordingInv \/ ImportInv

\* Before the first file is written nothing is asked of the directory.
LEMMA NoFiles == ASSUME NEW fs \in Seq(Seq(Record)), NEW F PROVE FilesAre(fs, F, 0)
<1>1. 0 \in 0 .. Len(fs) /\ \A k : k \notin 1 .. 0
  OBVIOUS
<1> QED BY <1>1 DEF FilesAre

\* A command starts.
LEMMA StartsAfresh ==
  ASSUME NEW h \in Histories
  PROVE  FetchedIs(h, 0, <<>>) /\ Reaches(h, 0, <<>>)
  BY NothingFetched, ReachesFirst

\* The directory is right when the system starts.
LEMMA DirectoryStart == Init => DirectoryInv
<1>1. HistoricalInit => ImportInv
  <2> SUFFICES ASSUME HistoricalInit PROVE ImportInv
    OBVIOUS
  <2>1. <<>> \in Seq(Seq(Record))
    OBVIOUS
  <2>2. FilesAre(files, fetched, written)
    BY <2>1, NoFiles DEF HistoricalInit
  <2>3. NotTooMany(history, files)
    BY DEF HistoricalInit, NotTooMany
  <2>4. importer \in {"fetching", "failed", "killed"} /\ written = 0 /\ importer # "done"
    BY DEF HistoricalInit
  <2>5. /\ history \in Histories /\ FetchedIs(history, cursor, fetched)
        /\ Reaches(history, cursor, fetched)
    BY StartsAfresh DEF HistoricalInit
  <2> QED BY <2>2, <2>3, <2>4, <2>5, Zenon DEF ImportInv
<1>2. RecordingInit => RecordingInv
  BY DEF RecordingInit, RecordingInv
<1> QED BY <1>1, <1>2 DEF Init, DirectoryInv

\* Where the import is over
LEMMA OverIs == FetchIsOver <=> NoneLeft(history, cursor)
  BY DEF FetchIsOver, NoneLeft, Page

\* gs is fs with b after the first n, or in place of the one that is there.
Puts(gs, fs, n, b) ==
  /\ gs \in Seq(Seq(Record)) /\ n + 1 \in 1 .. Len(gs) /\ gs # <<>>
  /\ Len(gs) = Len(fs) \/ Len(gs) = n + 1
  /\ gs[n + 1] = b /\ \A k \in 1 .. n : gs[k] = fs[k]

\* Writing a file changes that file only.
LEMMA FilePut ==
  ASSUME NEW fs \in Seq(Seq(Record)), NEW n \in 0 .. Len(fs), NEW b \in Seq(Record)
  PROVE  Puts([k \in DOMAIN fs \cup {n + 1} |-> IF k = n + 1 THEN b ELSE fs[k]], fs, n, b)
<1>0. PICK gs : gs = [k \in DOMAIN fs \cup {n + 1} |-> IF k = n + 1 THEN b ELSE fs[k]]
  OBVIOUS
<1>1. PICK m \in Nat : m = Len(fs) /\ DOMAIN fs = 1 .. m
  OBVIOUS
<1>2. PICK l \in Nat : l = (IF n = m THEN m + 1 ELSE m) /\ n + 1 \in 1 .. l
  BY <1>1
<1>3. DOMAIN fs \cup {n + 1} = 1 .. l
  BY <1>1, <1>2
<1>4. \A k \in 1 .. l : k # n + 1 => k \in 1 .. m
  BY <1>1, <1>2
<1>5. \A k \in 1 .. m : fs[k] \in Seq(Record)
  BY <1>1
<1>6. gs \in [1 .. l -> Seq(Record)]
  BY <1>0, <1>3, <1>4, <1>5
<1>7. gs \in Seq(Seq(Record)) /\ Len(gs) = l
  BY <1>6
<1>8. gs[n + 1] = b /\ \A k \in 1 .. n : gs[k] = fs[k]
  <2>1. \A k \in 1 .. n : k \in DOMAIN fs \cup {n + 1} /\ k # n + 1
    BY <1>1
  <2> QED BY <1>0, <2>1
<1>9. gs # <<>>
  BY <1>2, <1>7
<1>10. (l = m \/ l = n + 1) /\ Len(fs) = m
  BY <1>1, <1>2
<1>11. Len(gs) = Len(fs) \/ Len(gs) = n + 1
  BY <1>7, <1>10
<1>12. n + 1 \in 1 .. Len(gs)
  BY <1>2, <1>7
<1>13. Puts(gs, fs, n, b)
  BY <1>7, <1>8, <1>9, <1>11, <1>12, Zenon DEF Puts
<1> QED BY <1>0, <1>13, Zenon

\* A file for the next batch, of it or cut off, is not one too many.
LEMMA PutStep ==
  ASSUME ImportInv, importer = "writing", Batch(written + 1) # <<>>,
         NEW b \in Seq(Record), PutFile(b)
  PROVE  /\ NotTooMany(history, files') /\ files' \in Seq(Seq(Record))
         /\ b = Batch(written + 1) => FilesAre(files', fetched, written + 1)
<1>1. PICK gs : gs = files'
  OBVIOUS
<1>2. /\ files \in Seq(Seq(Record)) /\ written \in 0 .. Len(files)
      /\ gs = [k \in DOMAIN files \cup {written + 1} |-> IF k = written + 1 THEN b ELSE files[k]]
  BY <1>1 DEF PutFile, ImportInv, FilesAre
<1>3. /\ gs \in Seq(Seq(Record)) /\ written + 1 \in 1 .. Len(gs) /\ gs # <<>>
      /\ Len(gs) = Len(files) \/ Len(gs) = written + 1
      /\ gs[written + 1] = b /\ \A k \in 1 .. written : gs[k] = files[k]
  <2>1. Puts(gs, files, written, b)
    BY <1>2, FilePut
  <2> QED BY <2>1, Zenon DEF Puts
<1>4. /\ Reaches(history, cursor, fetched) /\ NoneLeft(history, cursor)
      /\ fetched \in Seq(Record) /\ BatchOf(fetched, written + 1) # <<>>
      /\ NotTooMany(history, files)
      /\ \A k \in 1 .. written : files[k] = BatchOf(fetched, k) /\ files[k] # <<>>
  BY DEF ImportInv, FetchedIs, Batch, FilesAre
<1>5. NotTooMany(history, gs)
  <2>1. CASE Len(gs) = written + 1
    BY <1>4, <2>1 DEF NotTooMany
  <2>2. CASE Len(gs) = Len(files)
    <3>1. files # <<>>
      BY <1>2, <1>3, <2>2
    <3> QED BY <1>4, <2>2, <3>1 DEF NotTooMany
  <2> QED BY <1>3, <2>1, <2>2
<1>6. ASSUME b = Batch(written + 1) PROVE FilesAre(gs, fetched, written + 1)
  <2>1. \A k \in 1 .. written + 1 : k \in 1 .. written \/ k = written + 1
    BY <1>2
  <2>2. \A k \in 1 .. written + 1 : gs[k] = BatchOf(fetched, k) /\ gs[k] # <<>>
    BY <1>3, <1>4, <1>6, <2>1 DEF Batch
  <2>3. written + 1 \in 0 .. Len(gs)
    BY <1>2, <1>3
  <2> QED BY <1>3, <2>2, <2>3 DEF FilesAre
<1> QED BY <1>1, <1>3, <1>5, <1>6

\* What an import in progress is, and what stays when the process ends
LEMMA AfreshStep ==
  ASSUME ImportInv, Fresh, history' = history, NotTooMany(history', files'),
         files' \in Seq(Seq(Record)), importer' \in {"fetching", "killed"}
  PROVE  ImportInv'
<1>1. history' \in Histories /\ cursor' = 0 /\ fetched' = <<>> /\ written' = 0
  BY DEF ImportInv, Fresh
<1>2. FetchedIs(history', cursor', fetched') /\ Reaches(history', cursor', fetched')
  <2>1. PICK h \in Histories : h = history'
    BY <1>1
  <2> QED BY <1>1, <2>1, StartsAfresh
<1>3. FilesAre(files', fetched', written')
  <2>1. PICK fs \in Seq(Seq(Record)) : fs = files'
    OBVIOUS
  <2> QED BY <1>1, <2>1, NoFiles
<1>4. importer' \in {"fetching", "failed", "killed"} /\ importer' # "done"
  OBVIOUS
<1> QED BY <1>1, <1>2, <1>3, <1>4, Zenon DEF ImportInv

\* Every step of the import keeps the directory right.
LEMMA ImportSteps == ASSUME ImportInv, Import PROVE ImportInv'
<1>1. CASE FetchPage
  <2>1. /\ ~NoneLeft(history, cursor) /\ Page # <<>> /\ importer = "fetching"
        /\ fetched' = fetched \o Page /\ cursor' = NextStart(Page)
        /\ history' = history /\ files' = files /\ written' = written /\ importer' = importer
    BY <1>1, OverIs DEF FetchPage, FetchIsOver
  <2>2. Page = PageOf(history, cursor)
    BY DEF Page
  <2>3. /\ history \in Histories /\ FetchedIs(history, cursor, fetched)
        /\ Reaches(history, cursor, fetched) /\ FilesAre(files, fetched, written)
        /\ NotTooMany(history, files) /\ written = 0
    BY <2>1 DEF ImportInv
  <2>4. FetchedIs(history, NextStart(Page), fetched \o Page)
    BY <2>1, <2>2, <2>3, PageFollows
  <2>5. Reaches(history, NextStart(Page), fetched \o Page)
    BY <2>1, <2>2, <2>3, ReachesNext
  <2>6. FilesAre(files, fetched \o Page, 0)
    BY <2>3, NoFiles DEF FilesAre
  <2>7. importer' \in {"fetching", "failed", "killed"} /\ importer' # "done"
    BY <2>1
  <2> QED BY <2>1, <2>3, <2>4, <2>5, <2>6, <2>7, Zenon DEF ImportInv
<1>2. CASE TooManyRequests
  <2>1. /\ UNCHANGED <<history, cursor, fetched, created, files, written>>
        /\ importer = "fetching" /\ importer' \in {"fetching", "failed"}
    BY <1>2 DEF TooManyRequests, RetryOrBail
  <2> QED BY <2>1 DEF ImportInv
<1>3. CASE HttpError
  BY <1>3 DEF HttpError, ImportInv
<1>4. CASE FetchDone
  BY <1>4, OverIs DEF FetchDone, ImportInv
<1>5. CASE WriteFile
  <2>1. /\ importer = "writing" /\ Batch(written + 1) # <<>> /\ PutFile(Batch(written + 1))
        /\ UNCHANGED <<history, cursor, fetched, created, importer>> /\ written' = written + 1
    BY <1>5 DEF WriteFile
  <2>2. Batch(written + 1) \in Seq(Record)
    BY BatchIs DEF Batch, ImportInv, FetchedIs, FilesAre
  <2>3. NotTooMany(history, files') /\ FilesAre(files', fetched, written + 1)
    BY <2>1, <2>2, PutStep
  <2> QED BY <2>1, <2>3 DEF ImportInv
<1>6. CASE WriteDone
  BY <1>6 DEF WriteDone, ImportInv, Batch
<1>7. CASE Killed
  <2>1. Fresh /\ history' = history /\ importer' = "killed"
    BY <1>7 DEF Killed
  <2>2. NotTooMany(history, files') /\ files' \in Seq(Seq(Record))
    <3>1. CASE UNCHANGED files
      BY <3>1 DEF ImportInv, FilesAre
    <3>2. CASE importer = "writing" /\ Batch(written + 1) # <<>> /\ PutFile(<<>>)
      <4>1. <<>> \in Seq(Record)
        OBVIOUS
      <4> QED BY <3>2, <4>1, PutStep
    <3> QED BY <1>7, <3>1, <3>2 DEF Killed
  <2> QED BY <2>1, <2>2, AfreshStep
<1>8. CASE ImportAgain
  <2>1. Fresh /\ history' = history /\ files' = files /\ importer' = "fetching"
    BY <1>8 DEF ImportAgain
  <2>2. NotTooMany(history, files') /\ files' \in Seq(Seq(Record))
    BY <2>1 DEF ImportInv, FilesAre
  <2> QED BY <2>1, <2>2, AfreshStep
<1> QED BY <1>1, <1>2, <1>3, <1>4, <1>5, <1>6, <1>7, <1>8 DEF Import, ImportStep

\* Every step of the system keeps the directory right.
LEMMA DirectoryStep == DirectoryInv /\ [Next]_vars => DirectoryInv'
<1> SUFFICES ASSUME DirectoryInv, [Next]_vars PROVE DirectoryInv'
  OBVIOUS
<1>1. CASE UNCHANGED historicalVars
  BY <1>1 DEF historicalVars, DirectoryInv, ImportInv, RecordingInv
<1>2. CASE Import
  <2>1. importer # "done"
    BY <1>2 DEF Import, ImportStep, FetchPage, TooManyRequests, HttpError, FetchDone,
                WriteFile, WriteDone, Killed, ImportAgain
  <2> QED BY <1>2, <2>1, ImportSteps DEF DirectoryInv, RecordingInv
<1>3. StartResearch \/ ScanRegimes \/ Analyse \/ Over \/ UNCHANGED vars
        => UNCHANGED historicalVars
  BY DEF StartResearch, ScanRegimes, Analyse, Over, vars
<1> QED BY <1>1, <1>2, <1>3 DEF Next

\* The directory is right in every state.
LEMMA DirectoryAlways == Spec => []DirectoryInv
  BY DirectoryStart, DirectoryStep, PTL DEF Spec

-----------------------------------------------------------------------------
(***************************************************************************)
(* What is read back                                                       *)
(***************************************************************************)
\* A multiple leaves no remainder.
LEMMA CutRemainder == ASSUME NEW k \in Nat, Cut(k) PROVE k % PageLimit = 0
<1>1. PageLimit \in Nat \ {0}
  BY HistoricalAssumption
<1>2. PICK q \in Nat : k = PageLimit * q
  BY DEF Cut
<1>3. PICK e \in Nat, d \in 0 .. PageLimit - 1 : e = k \div PageLimit /\ d = k % PageLimit
  BY <1>1
<1>4. k = PageLimit * e + d
  BY <1>1, <1>3
<1>5. ASSUME NEW i \in Nat, NEW j \in Nat, i < j
      PROVE  PageLimit * i + PageLimit <= PageLimit * j
  <2>1. PICK x \in Nat : j = i + 1 + x
    <3>1. j - i - 1 \in Nat /\ j = i + 1 + (j - i - 1)
      BY <1>5
    <3> QED BY <3>1
  <2>2. PageLimit * j = PageLimit * i + PageLimit + PageLimit * x
    BY <1>1, <2>1
  <2>3. PageLimit * x \in Nat /\ PageLimit * i \in Nat
    BY <1>1
  <2> QED BY <1>1, <2>2, <2>3
<1>6. PICK x \in Nat, y \in Nat : x = PageLimit * q /\ y = PageLimit * e
  <2>1. PageLimit * q \in Nat /\ PageLimit * e \in Nat
    BY <1>1
  <2> QED BY <2>1
<1>7. ~(q < e) /\ ~(e < q)
  <2>1. q < e => x + PageLimit <= y
    BY <1>5, <1>6
  <2>2. e < q => y + PageLimit <= x
    BY <1>5, <1>6
  <2> QED BY <1>1, <1>2, <1>3, <1>4, <1>6, <2>1, <2>2
<1>8. q = e
  BY <1>7
<1>9. x = y
  BY <1>6, <1>8
<1> QED BY <1>2, <1>3, <1>4, <1>6, <1>9

\* A directory with a single file
LEMMA FlattenOne == ASSUME NEW s, Len(s) = 1 PROVE FlattenSeq(s) = s[1]
<1> DEFINE Rec(f) == f = [i \in 1 .. Len(s) |-> IF i = 1 THEN s[i] ELSE f[i - 1] \o s[i]]
           R == CHOOSE f : Rec(f)
           g == [i \in 1 .. Len(s) |-> s[i]]
<1>1. \A i \in 1 .. Len(s) : i = 1
  OBVIOUS
<1>2. [i \in 1 .. Len(s) |-> IF i = 1 THEN s[i] ELSE g[i - 1] \o s[i]]
        = [i \in 1 .. Len(s) |-> s[i]]
  <2> HIDE DEF g
  <2> QED BY <1>1
<1>3. Rec(g)
  BY <1>2, Zenon
<1>4. Rec(R)
  BY <1>3
<1>5. FlattenSeq(s) = R[Len(s)]
  BY DEF FlattenSeq
<1> HIDE DEF R
<1>6. PICK r : r = R
  OBVIOUS
<1> DEFINE w == [i \in 1 .. Len(s) |-> IF i = 1 THEN s[i] ELSE r[i - 1] \o s[i]]
<1>7. r = w
  BY <1>4, <1>6, Zenon
<1>8. w[1] = s[1]
  OBVIOUS
<1> HIDE DEF w
<1> QED BY <1>5, <1>6, <1>7, <1>8

\* An import that is done has left no file but those of its batches.
LEMMA FilesHoldAll ==
  ASSUME ImportInv, importer = "done"
  PROVE  InFiles = fetched /\ Readable
<1>1. /\ Reaches(history, cursor, fetched) /\ NoneLeft(history, cursor) /\ created
      /\ fetched \in Seq(Record) /\ files \in Seq(Seq(Record)) /\ written \in 0 .. Len(files)
      /\ \A k \in 1 .. written : files[k] = BatchOf(fetched, k) /\ files[k] # <<>>
      /\ BatchOf(fetched, written + 1) = <<>>
      /\ NotTooMany(history, files)
  BY DEF ImportInv, FetchedIs, FilesAre
<1>2. PICK N \in Nat, n \in Nat : N = Len(files) /\ n = written /\ n <= N
  BY <1>1
<1>3. Len(fetched) <= n * FileBatch
  BY <1>1, <1>2, BatchIs
<1>4. N = n
  <2>1. SUFFICES ASSUME n < N PROVE FALSE
    BY <1>2
  <2>2. files # <<>>
    BY <1>2, <2>1
  <2>3. PICK c, F : /\ Reaches(history, c, F) /\ NoneLeft(history, c)
                    /\ F \in Seq(Record) /\ BatchOf(F, N) # <<>>
    BY <1>1, <1>2, <2>2, Zenon DEF NotTooMany
  <2>4. F = fetched
    BY <1>1, <2>3, OneEnd
  <2>5. PICK k \in Nat : N = k + 1 /\ n <= k
    <3>1. N - 1 \in Nat /\ N = (N - 1) + 1 /\ n <= N - 1
      BY <2>1
    <3> QED BY <3>1
  <2>6. ~(Len(fetched) <= k * FileBatch)
    BY <1>1, <2>3, <2>4, <2>5, BatchIs
  <2>7. n = k \/ n * FileBatch < k * FileBatch
    BY <2>5, Batches
  <2>8. PICK x \in Nat, y \in Nat : x = n * FileBatch /\ y = k * FileBatch
    BY Batches
  <2>9. Len(fetched) \in Nat
    BY <1>1
  <2> QED BY <1>3, <2>6, <2>7, <2>8, <2>9
<1>5. PICK s : s = [k \in DOMAIN files |-> files[k]]
  OBVIOUS
<1>6. DOMAIN files = 1 .. N
  BY <1>1, <1>2
<1>7. s = files
  BY <1>1, <1>5, <1>6
<1>8. N = Len(s) /\ (N = 0 => s = <<>>)
  BY <1>1, <1>2, <1>7
<1>9. \A k \in 1 .. N : s[k] = BatchOf(fetched, k) /\ s[k] # <<>>
  BY <1>1, <1>2, <1>4, <1>7
<1>10. BatchOf(fetched, N + 1) = <<>>
  BY <1>1, <1>2, <1>4
<1>11. FlattenSeq(s) = fetched
  BY <1>1, <1>8, <1>9, <1>10, FilesFlatten
<1>12. InFiles = fetched
  BY <1>5, <1>11 DEF InFiles
<1>13. Readable
  BY <1>1, <1>6, <1>7, <1>9 DEF Readable
<1> QED BY <1>12, <1>13

\* What is before the end is before the cursor when nothing is left to fetch.
LEMMA NothingLeft ==
  ASSUME NEW h \in Histories, NEW c \in Nat, NoneLeft(h, c),
         NEW i \in DOMAIN h, h[i].open < EndTime
  PROVE  h[i].open < c /\ h[i].open <= EndTime
<1>1. h[i].open \in Nat /\ EndTime \in Nat /\ PageLimit \in Nat \ {0}
  BY HistoryType, HistoricalAssumption
<1>2. CASE c >= EndTime
  BY <1>1, <1>2
<1>3. CASE PageOf(h, c) = <<>>
  <2>1. PICK p : PageAt(p, <<>>, h, c)
    BY <1>3, PageIs
  <2>2. Len(<<>>) = 0 /\ \A k : k \notin 1 .. Len(<<>>)
    OBVIOUS
  <2>3. ~InRange(h[i], c)
    BY <1>1, <2>1, <2>2 DEF PageAt
  <2> QED BY <1>1, <2>3 DEF InRange
<1> QED BY <1>2, <1>3 DEF NoneLeft

\* A finished import has every record but those its pages pass over.
LEMMA ImportedIsComplete ==
  ASSUME ImportInv, importer = "done"
  PROVE  /\ Readable
         /\ \A k, l \in DOMAIN InFiles : k < l => InFiles[k].id < InFiles[l].id
         /\ \A i \in {j \in DOMAIN history : history[j].open < EndTime}
                      \ {j \in DOMAIN history : \E k \in DOMAIN InFiles : InFiles[k] = history[j]} :
              \E k \in {l \in DOMAIN InFiles : l % PageLimit = 0} :
                InFiles[k].open = history[i].open
<1>1. InFiles = fetched /\ Readable
  BY FilesHoldAll
<1>2. /\ history \in Histories /\ FetchedIs(history, cursor, fetched)
      /\ NoneLeft(history, cursor)
  BY DEF ImportInv
<1>3. /\ cursor \in Nat /\ fetched \in Seq(Record) /\ DOMAIN fetched = 1 .. Len(fetched)
      /\ \A k, l \in 1 .. Len(fetched) : k < l => fetched[k].id < fetched[l].id
      /\ \A i \in DOMAIN history : history[i].open < cursor /\ history[i].open <= EndTime =>
           \/ \E k \in 1 .. Len(fetched) : fetched[k] = history[i]
           \/ \E k \in 1 .. Len(fetched) : Cut(k) /\ fetched[k].open = history[i].open
  BY <1>2 DEF FetchedIs
<1>4. ASSUME NEW i \in DOMAIN history, history[i].open < EndTime,
             ~ \E k \in DOMAIN fetched : fetched[k] = history[i]
      PROVE  \E k \in DOMAIN fetched : k % PageLimit = 0 /\ fetched[k].open = history[i].open
  <2>1. history[i].open < cursor /\ history[i].open <= EndTime
    BY <1>2, <1>3, <1>4, NothingLeft
  <2>2. PICK k \in 1 .. Len(fetched) : Cut(k) /\ fetched[k].open = history[i].open
    BY <1>3, <1>4, <2>1
  <2>3. k \in Nat
    OBVIOUS
  <2> QED BY <1>3, <2>2, <2>3, CutRemainder
<1> QED BY <1>1, <1>3, <1>4

\* A recorded directory holds no import at all.
LEMMA RecordedIsComplete ==
  ASSUME RecordingInv
  PROVE  /\ Readable
         /\ \A k, l \in DOMAIN InFiles : k < l => InFiles[k].id < InFiles[l].id
         /\ DOMAIN history = {}
<1>1. PICK r \in Recordings : files = Recorded(r)
  BY DEF RecordingInv
<1>2. PICK n \in Nat \ {0} : DOMAIN r = 1 .. n
  <2>1. r \in Seq(MarketEvent) /\ r # <<>>
    BY BacktestAssumption
  <2>2. DOMAIN r = 1 .. Len(r) /\ Len(r) \in Nat \ {0}
    BY <2>1, EmptySeq
  <2> QED BY <2>2
<1>3. PICK rs : rs = [i \in DOMAIN r |-> [id |-> i, open |-> r[i].ts, close |-> r[i].ts,
                                          event |-> r[i]]]
  OBVIOUS
<1>4. DOMAIN rs = 1 .. n /\ \A i \in 1 .. n : rs[i].id = i
  BY <1>2, <1>3
<1>5. files = <<rs>>
  BY <1>1, <1>3 DEF Recorded
<1>6. DOMAIN files = {1} /\ files[1] = rs
  BY <1>5
<1>7. rs # <<>>
  <2>1. 1 \in DOMAIN rs
    BY <1>2, <1>4
  <2> QED BY <2>1
<1>8. Readable
  BY <1>6, <1>7 DEF Readable, RecordingInv
<1>9. PICK s : s = [k \in DOMAIN files |-> files[k]]
  OBVIOUS
<1>10. s = <<rs>>
  BY <1>5, <1>6, <1>9
<1>11. Len(s) = 1 /\ s[1] = rs
  BY <1>10
<1>12. InFiles = rs
  BY <1>9, <1>11, FlattenOne DEF InFiles
<1>13. DOMAIN history = {}
  BY DEF RecordingInv
<1> QED BY <1>4, <1>8, <1>12, <1>13

(***************************************************************************)
(* However many imports are refused, fail or are killed, maybe within a    *)
(* file, before one runs to its end, the directory reads back as the       *)
(* records of the range, in order and once each, but for those that share  *)
(* the opening time of a full page's last record.                          *)
(* (historical.rs: fetch_binance_klines, fetch_binance_agg_trades;         *)
(* storage.rs: write_events_to_parquet_run)                                *)
(***************************************************************************)
THEOREM TheImportIsComplete == Spec => []ImportIsComplete
<1>1. DirectoryInv => ImportIsComplete
  <2> SUFFICES ASSUME DirectoryInv, importer = "done" PROVE ImportIsComplete
    BY DEF ImportIsComplete
  <2>1. CASE ImportInv
    BY <2>1, ImportedIsComplete, Zenon DEF ImportIsComplete
  <2>2. CASE RecordingInv
    BY <2>2, RecordedIsComplete DEF ImportIsComplete
  <2> QED BY <2>1, <2>2 DEF DirectoryInv
<1> QED BY <1>1, DirectoryAlways, PTL

-----------------------------------------------------------------------------
(***************************************************************************)
(* The loop of label_candidate: what it knows after n samples, g[k] the    *)
(* profit of sample k in price units and d[k] its time after the candidate *)
(***************************************************************************)
Firsts(S) == {j \in S : \A k \in S : j <= k}
Reach(g, n, r) == {k \in 1 .. n : g[k] >= r}
Fall(g, n) == {k \in 1 .. n : g[k] <= -Risk}
TimeOf(d, S) == {d[k] : k \in Firsts(S)}
Up(g, n) == Max({0} \cup {g[k] : k \in 1 .. n})
Down(g, n) == Min({0} \cup {g[k] : k \in 1 .. n})
Hit(g, n, r) == \E k \in Reach(g, n, r) : \A j \in Fall(g, n) : j > k

\* A least element is the only one.
LEMMA FirstIs ==
  ASSUME NEW S, S \subseteq Nat
  PROVE  Firsts(S) = {} <=> S = {}
<1>1. S # {} => \E x \in S : \A y \in S : x <= y
  BY LeastElement
<1> QED BY <1>1 DEF Firsts

\* A later element does not change which is the first.
LEMMA FirstGrows ==
  ASSUME NEW n \in Nat, NEW S, S \subseteq 1 .. n, NEW T
  PROVE  /\ T = S => Firsts(T) = Firsts(S)
         /\ T = S \cup {n + 1} /\ S = {} => Firsts(T) = {n + 1}
         /\ T = S \cup {n + 1} /\ S # {} => Firsts(T) = Firsts(S)
<1>1. ASSUME T = S \cup {n + 1}, S = {} PROVE Firsts(T) = {n + 1}
  BY <1>1 DEF Firsts
<1>2. ASSUME T = S \cup {n + 1}, S # {} PROVE Firsts(T) = Firsts(S)
  <2>1. PICK x \in S : x \in Nat /\ x <= n /\ x \in T
    <3>1. \E x : x \in S
      BY <1>2, Zenon
    <3>2. \A x \in S : x \in Nat /\ x <= n /\ x \in T
      BY <1>2
    <3> QED BY <3>1, <3>2
  <2>2. \A j \in S : j <= n + 1
    OBVIOUS
  <2>3. ASSUME NEW j \in T, \A k \in T : j <= k PROVE j \in S
    <3>1. j <= x /\ (j \in S \/ j = n + 1)
      BY <1>2, <2>1, <2>3
    <3> QED BY <2>1, <3>1
  <2>4. \A j \in S : (\A k \in S : j <= k) <=> (\A k \in T : j <= k)
    BY <1>2, <2>2
  <2>5. S \subseteq T
    BY <1>2
  <2> QED BY <2>3, <2>4, <2>5, Zenon DEF Firsts
<1> QED BY <1>1, <1>2

TimesGrow(d, S, n) ==
  TimeOf(d, S \cup {n + 1}) = IF TimeOf(d, S) = {} THEN {d[n + 1]} ELSE TimeOf(d, S)

\* The time of the first sample that reaches a profit, or a loss
LEMMA TimeWith ==
  ASSUME NEW n \in Nat, NEW S, S \subseteq 1 .. n, NEW d
  PROVE  /\ TimeOf(d, S) = {} <=> S = {}
         /\ TimesGrow(d, S, n)
<1>1. PICK T : T = S \cup {n + 1}
  OBVIOUS
<1>2. TimeOf(d, S) = {} <=> S = {}
  <2>1. S \subseteq Nat
    OBVIOUS
  <2>2. Firsts(S) = {} <=> S = {}
    BY <2>1, FirstIs
  <2> QED BY <2>2 DEF TimeOf
<1>3. CASE S = {}
  <2>1. Firsts(T) = {n + 1}
    BY <1>1, <1>3, FirstGrows
  <2>2. TimeOf(d, T) = {d[n + 1]}
    BY <2>1 DEF TimeOf
  <2>3. TimesGrow(d, S, n)
    BY <1>1, <1>2, <1>3, <2>2 DEF TimesGrow
  <2> QED BY <1>2, <2>3
<1>4. CASE S # {}
  <2>1. Firsts(T) = Firsts(S)
    BY <1>1, <1>4, FirstGrows
  <2>2. TimeOf(d, T) = TimeOf(d, S)
    BY <2>1 DEF TimeOf
  <2>3. TimesGrow(d, S, n)
    BY <1>1, <1>2, <1>4, <2>2 DEF TimesGrow
  <2> QED BY <1>2, <2>3
<1> QED BY <1>3, <1>4

\* One more sample is in the range or not.
LEMMA RangeGrows ==
  ASSUME NEW n \in Nat, NEW g, \A k \in 1 .. n + 1 : g[k] \in Int
  PROVE  /\ Fall(g, n) \subseteq 1 .. n
         /\ Fall(g, n + 1) = IF g[n + 1] <= -Risk THEN Fall(g, n) \cup {n + 1} ELSE Fall(g, n)
         /\ \A r : /\ Reach(g, n, r) \subseteq 1 .. n
                   /\ Reach(g, n + 1, r)
                        = IF g[n + 1] >= r THEN Reach(g, n, r) \cup {n + 1} ELSE Reach(g, n, r)
<1>1. 1 .. n + 1 = (1 .. n) \cup {n + 1}
  OBVIOUS
<1> QED BY <1>1, Zenon DEF Fall, Reach

\* The best and the worst so far
LEMMA UpGrows ==
  ASSUME NEW n \in Nat, NEW g, \A k \in 1 .. n + 1 : g[k] \in Int
  PROVE  /\ Up(g, n) \in Int /\ Up(g, n + 1) = Max({Up(g, n), g[n + 1]})
         /\ Down(g, n) \in Int /\ Down(g, n + 1) = Min({Down(g, n), g[n + 1]})
<1> DEFINE S == {0} \cup {g[k] : k \in 1 .. n}
           T == {0} \cup {g[k] : k \in 1 .. n + 1}
<1>1. T = S \cup {g[n + 1]} /\ 0 \in S /\ g[n + 1] \in Int
  <2>1. 1 .. n + 1 = (1 .. n) \cup {n + 1} /\ n + 1 \in 1 .. n + 1
    OBVIOUS
  <2> QED BY <2>1
<1>2. IsFiniteSet(S) /\ S \subseteq Int
  <2>1. IsFiniteSet(1 .. n)
    BY FS_Interval
  <2>2. IsFiniteSet({g[k] : k \in 1 .. n})
    BY <2>1, FiniteImage
  <2>3. IsFiniteSet(S)
    BY <2>2, FS_AddElement
  <2>4. \A k \in 1 .. n : k \in 1 .. n + 1
    OBVIOUS
  <2> QED BY <2>3, <2>4
<1>3. PICK e \in Int : e = g[n + 1]
  BY <1>1
<1> HIDE DEF S, T
<1>4. PICK x \in Int : x = Max(S) /\ x \in S /\ \A y \in S : y <= x
  BY <1>1, <1>2, GreatestElement
<1>5. PICK z \in Int : z = Min(S) /\ z \in S /\ \A y \in S : z <= y
  BY <1>1, <1>2, LeastOfAll
<1>6. Max(T) = Max({x, e})
  <2> DEFINE U == {x, e}
  <2>1. \E v \in T : /\ \A y \in T : v >= y
                     /\ v \in U /\ \A y \in U : v >= y
    <3>1. CASE x >= e
      BY <1>1, <1>2, <1>3, <1>4, <3>1
    <3>2. CASE ~(x >= e)
      BY <1>1, <1>2, <1>3, <1>4, <3>2
    <3> QED BY <3>1, <3>2
  <2>2. T \subseteq Int /\ U \subseteq Int
    BY <1>1, <1>2
  <2> HIDE DEF U
  <2>3. PICK v \in T : /\ \A y \in T : v >= y
                       /\ v \in U /\ \A y \in U : v >= y
    BY <2>1
  <2>4. \A a \in T : (\A y \in T : a >= y) => a = v
    BY <2>2, <2>3
  <2>5. \A a \in U : (\A y \in U : a >= y) => a = v
    BY <2>2, <2>3
  <2>6. Max(T) = v
    BY <2>3, <2>4, Zenon DEF Max
  <2>7. Max(U) = v
    BY <2>3, <2>5, Zenon DEF Max
  <2> QED BY <2>6, <2>7 DEF U
<1>7. Min(T) = Min({z, e})
  <2> DEFINE U == {z, e}
  <2>1. \E v \in T : /\ \A y \in T : v <= y
                     /\ v \in U /\ \A y \in U : v <= y
    <3>1. CASE z <= e
      BY <1>1, <1>2, <1>3, <1>5, <3>1
    <3>2. CASE ~(z <= e)
      BY <1>1, <1>2, <1>3, <1>5, <3>2
    <3> QED BY <3>1, <3>2
  <2>2. T \subseteq Int /\ U \subseteq Int
    BY <1>1, <1>2
  <2> HIDE DEF U
  <2>3. PICK v \in T : /\ \A y \in T : v <= y
                       /\ v \in U /\ \A y \in U : v <= y
    BY <2>1
  <2>4. \A a \in T : (\A y \in T : a <= y) => a = v
    BY <2>2, <2>3
  <2>5. \A a \in U : (\A y \in U : a <= y) => a = v
    BY <2>2, <2>3
  <2>6. Min(T) = v
    BY <2>3, <2>4, Zenon DEF Min
  <2>7. Min(U) = v
    BY <2>3, <2>5, Zenon DEF Min
  <2> QED BY <2>6, <2>7 DEF U
<1>8. Up(g, n) = x /\ Up(g, n + 1) = Max(T) /\ Down(g, n) = z /\ Down(g, n + 1) = Min(T)
  BY <1>4, <1>5 DEF S, T, Up, Down
<1> QED BY <1>3, <1>6, <1>7, <1>8

(***************************************************************************)
(* The first sample above the target decides whether the target was hit    *)
(* before the stop, and a sample above the target is not below the stop.   *)
(***************************************************************************)
LEMMA HitGrows ==
  ASSUME NEW n \in Nat, NEW g, \A k \in 1 .. n + 1 : g[k] \in Int,
         NEW r \in Nat, r >= Risk
  PROVE  /\ g[n + 1] >= r => (Hit(g, n + 1, r) <=> Hit(g, n, r) \/ Fall(g, n) = {})
         /\ ~(g[n + 1] >= r) => (Hit(g, n + 1, r) <=> Hit(g, n, r))
         /\ Fall(g, n) = {} /\ Reach(g, n, r) # {} => Hit(g, n, r)
<1>1. Risk \in Nat \ {0}
  BY ResearchAssumption
<1>2. g[n + 1] \in Int /\ (g[n + 1] >= r => ~(g[n + 1] <= -Risk))
  BY <1>1
<1>3. PICK R, S, F, G : /\ R = Reach(g, n, r) /\ S = Reach(g, n + 1, r)
                        /\ F = Fall(g, n) /\ G = Fall(g, n + 1)
  OBVIOUS
<1>4. /\ R \subseteq 1 .. n /\ F \subseteq 1 .. n
      /\ S = IF g[n + 1] >= r THEN R \cup {n + 1} ELSE R
      /\ G = IF g[n + 1] <= -Risk THEN F \cup {n + 1} ELSE F
  BY <1>3, RangeGrows, Zenon
<1>5. /\ Hit(g, n, r) <=> \E k \in R : \A j \in F : j > k
      /\ Hit(g, n + 1, r) <=> \E k \in S : \A j \in G : j > k
  BY <1>3, Zenon DEF Hit
<1>6. \A k \in R : n + 1 > k
  BY <1>4
<1>7. ASSUME g[n + 1] >= r
      PROVE  Hit(g, n + 1, r) <=> Hit(g, n, r) \/ F = {}
  <2>1. S = R \cup {n + 1} /\ G = F
    BY <1>2, <1>4, <1>7
  <2>2. (\A j \in F : j > n + 1) <=> F = {}
    BY <1>4
  <2> QED BY <1>5, <2>1, <2>2
<1>8. ASSUME ~(g[n + 1] >= r)
      PROVE  Hit(g, n + 1, r) <=> Hit(g, n, r)
  <2>1. S = R /\ (G = F \/ G = F \cup {n + 1})
    BY <1>4, <1>8
  <2>2. \A k \in R : (\A j \in G : j > k) <=> (\A j \in F : j > k)
    BY <1>6, <2>1
  <2> QED BY <1>5, <2>1, <2>2
<1> QED BY <1>3, <1>5, <1>7, <1>8

\* What the loop knows after n samples
Knows(c, rs, g, d, n) ==
  [candidate |-> c, returns |-> rs, mfe |-> Up(g, n), mae |-> Down(g, n),
   toTarget |-> TimeOf(d, Reach(g, n, Risk)), toStop |-> TimeOf(d, Fall(g, n)),
   hit1 |-> Hit(g, n, Risk), hit2 |-> Hit(g, n, 2 * Risk)]

\* One turn of the loop
LEMMA SeenStep ==
  ASSUME NEW n \in Nat, NEW g, \A k \in 1 .. n + 1 : g[k] \in Int, NEW d,
         NEW c, NEW rs, NEW s, g[n + 1] = Pnl(c, s.price), d[n + 1] = s.ts - c.ts
  PROVE  Seen(c, Knows(c, rs, g, d, n), s) = Knows(c, rs, g, d, n + 1)
<1>1. Risk \in Nat \ {0} /\ 2 * Risk \in Nat /\ Risk >= Risk /\ 2 * Risk >= Risk
  BY ResearchAssumption
<1>2. PICK e \in Int : e = g[n + 1]
  OBVIOUS
<1>3. PICK R, S, F, G : /\ R = Reach(g, n, Risk) /\ S = Reach(g, n + 1, Risk)
                        /\ F = Fall(g, n) /\ G = Fall(g, n + 1)
  OBVIOUS
<1>4. /\ R \subseteq 1 .. n /\ F \subseteq 1 .. n
      /\ S = IF e >= Risk THEN R \cup {n + 1} ELSE R
      /\ G = IF e <= -Risk THEN F \cup {n + 1} ELSE F
  BY <1>2, <1>3, RangeGrows, Zenon
<1>5. /\ TimeOf(d, F) = {} <=> F = {}
      /\ TimeOf(d, R) = {} <=> R = {}
      /\ TimeOf(d, S) = IF TimeOf(d, R) = {} /\ e >= Risk THEN {d[n + 1]} ELSE TimeOf(d, R)
      /\ TimeOf(d, G) = IF TimeOf(d, F) = {} /\ e <= -Risk THEN {d[n + 1]} ELSE TimeOf(d, F)
  <2>1. /\ TimeOf(d, F) = {} <=> F = {}
        /\ TimeOf(d, R) = {} <=> R = {}
    BY <1>4, TimeWith
  <2>2. TimeOf(d, S) = IF TimeOf(d, R) = {} /\ e >= Risk THEN {d[n + 1]} ELSE TimeOf(d, R)
    <3>1. CASE e >= Risk
      <4>1. S = R \cup {n + 1}
        BY <1>4, <3>1, Zenon
      <4>2. TimesGrow(d, R, n)
        BY <1>4, TimeWith
      <4> QED BY <3>1, <4>1, <4>2, Zenon DEF TimesGrow
    <3>2. CASE ~(e >= Risk)
      BY <1>4, <3>2, Zenon
    <3> QED BY <3>1, <3>2
  <2>3. TimeOf(d, G) = IF TimeOf(d, F) = {} /\ e <= -Risk THEN {d[n + 1]} ELSE TimeOf(d, F)
    <3>1. CASE e <= -Risk
      <4>1. G = F \cup {n + 1}
        BY <1>4, <3>1, Zenon
      <4>2. TimesGrow(d, F, n)
        BY <1>4, TimeWith
      <4> QED BY <3>1, <4>1, <4>2, Zenon DEF TimesGrow
    <3>2. CASE ~(e <= -Risk)
      BY <1>4, <3>2, Zenon
    <3> QED BY <3>1, <3>2
  <2> QED BY <2>1, <2>2, <2>3
<1>6. /\ Up(g, n + 1) = Max({Up(g, n), e})
      /\ Down(g, n + 1) = Min({Down(g, n), e})
  BY <1>2, UpGrows
<1>7. Hit(g, n + 1, Risk)
        = IF R = {} /\ e >= Risk THEN F = {} ELSE Hit(g, n, Risk)
  <2>1. /\ e >= Risk => (Hit(g, n + 1, Risk) <=> Hit(g, n, Risk) \/ F = {})
        /\ ~(e >= Risk) => (Hit(g, n + 1, Risk) <=> Hit(g, n, Risk))
        /\ F = {} /\ R # {} => Hit(g, n, Risk)
    BY <1>1, <1>2, <1>3, HitGrows
  <2>2. R = {} => ~Hit(g, n, Risk)
    BY <1>3 DEF Hit
  <2>3. Hit(g, n, Risk) \in BOOLEAN /\ Hit(g, n + 1, Risk) \in BOOLEAN
    BY DEF Hit
  <2> QED BY <2>1, <2>2, <2>3, Zenon
<1>8. Hit(g, n + 1, 2 * Risk) = (Hit(g, n, 2 * Risk) \/ (e >= 2 * Risk /\ F = {}))
  <2>1. /\ e >= 2 * Risk => (Hit(g, n + 1, 2 * Risk) <=> Hit(g, n, 2 * Risk) \/ F = {})
        /\ ~(e >= 2 * Risk) => (Hit(g, n + 1, 2 * Risk) <=> Hit(g, n, 2 * Risk))
    BY <1>1, <1>2, <1>3, HitGrows
  <2>2. Hit(g, n, 2 * Risk) \in BOOLEAN /\ Hit(g, n + 1, 2 * Risk) \in BOOLEAN
    BY DEF Hit
  <2> QED BY <2>1, <2>2, Zenon
<1>9. PICK l : l = Knows(c, rs, g, d, n)
  OBVIOUS
<1>10. /\ l.candidate = c /\ l.returns = rs /\ l.mfe = Up(g, n) /\ l.mae = Down(g, n)
       /\ l.toTarget = TimeOf(d, R) /\ l.toStop = TimeOf(d, F)
       /\ l.hit1 = Hit(g, n, Risk) /\ l.hit2 = Hit(g, n, 2 * Risk)
  BY <1>3, <1>9, Zenon DEF Knows
<1>11. Pnl(c, s.price) = e /\ s.ts - c.ts = d[n + 1]
  BY <1>2
<1>12. Seen(c, l, s) =
         [candidate |-> l.candidate, returns |-> l.returns,
          mfe |-> Max({l.mfe, e}), mae |-> Min({l.mae, e}),
          toTarget |-> IF l.toTarget = {} /\ e >= Risk THEN {d[n + 1]} ELSE l.toTarget,
          toStop |-> IF l.toStop = {} /\ e <= -Risk THEN {d[n + 1]} ELSE l.toStop,
          hit1 |-> IF l.toTarget = {} /\ e >= Risk THEN l.toStop = {} ELSE l.hit1,
          hit2 |-> l.hit2 \/ (e >= 2 * Risk /\ l.toStop = {})]
  BY <1>11, Zenon DEF Seen
<1>13. /\ Max({l.mfe, e}) = Up(g, n + 1) /\ Min({l.mae, e}) = Down(g, n + 1)
       /\ (IF l.toTarget = {} /\ e >= Risk THEN {d[n + 1]} ELSE l.toTarget) = TimeOf(d, S)
       /\ (IF l.toStop = {} /\ e <= -Risk THEN {d[n + 1]} ELSE l.toStop) = TimeOf(d, G)
       /\ (IF l.toTarget = {} /\ e >= Risk THEN l.toStop = {} ELSE l.hit1) = Hit(g, n + 1, Risk)
       /\ (l.hit2 \/ (e >= 2 * Risk /\ l.toStop = {})) = Hit(g, n + 1, 2 * Risk)
  <2>1. Max({l.mfe, e}) = Up(g, n + 1) /\ Min({l.mae, e}) = Down(g, n + 1)
    BY <1>6, <1>10, Zenon
  <2>2. (IF l.toTarget = {} /\ e >= Risk THEN {d[n + 1]} ELSE l.toTarget) = TimeOf(d, S)
    BY <1>5, <1>10, Zenon
  <2>3. (IF l.toStop = {} /\ e <= -Risk THEN {d[n + 1]} ELSE l.toStop) = TimeOf(d, G)
    BY <1>5, <1>10, Zenon
  <2>4. (IF l.toTarget = {} /\ e >= Risk THEN l.toStop = {} ELSE l.hit1) = Hit(g, n + 1, Risk)
    BY <1>5, <1>7, <1>10, Zenon
  <2>5. (l.hit2 \/ (e >= 2 * Risk /\ l.toStop = {})) = Hit(g, n + 1, 2 * Risk)
    BY <1>5, <1>8, <1>10, Zenon
  <2> QED BY <2>1, <2>2, <2>3, <2>4, <2>5
<1> QED BY <1>3, <1>9, <1>10, <1>12, <1>13, Zenon DEF Knows

\* Before the first sample
LEMMA KnowsNothing ==
  ASSUME NEW c, NEW rs, NEW g, NEW d
  PROVE  Knows(c, rs, g, d, 0) =
           [candidate |-> c, returns |-> rs, mfe |-> 0, mae |-> 0,
            toTarget |-> {}, toStop |-> {}, hit1 |-> FALSE, hit2 |-> FALSE]
<1>1. 1 .. 0 = {}
  OBVIOUS
<1>2. Up(g, 0) = 0 /\ Down(g, 0) = 0
  <2>1. {0} \cup {g[k] : k \in 1 .. 0} = {0}
    BY <1>1
  <2>2. Max({0}) = 0 /\ Min({0}) = 0
    <3>1. \A x \in {0} : (\A y \in {0} : x >= y) /\ (\A y \in {0} : x <= y) /\ x = 0
      OBVIOUS
    <3> QED BY <3>1, Zenon DEF Max, Min
  <2> QED BY <2>1, <2>2, Zenon DEF Up, Down
<1>3. TimeOf(d, Fall(g, 0)) = {} /\ \A r : TimeOf(d, Reach(g, 0, r)) = {} /\ ~Hit(g, 0, r)
  <2>1. Fall(g, 0) = {} /\ \A r : Reach(g, 0, r) = {}
    BY <1>1, Zenon DEF Fall, Reach
  <2>2. TimeOf(d, {}) = {}
    BY DEF TimeOf, Firsts
  <2> QED BY <2>1, <2>2, Zenon DEF Hit
<1>4. Hit(g, 0, Risk) = FALSE /\ Hit(g, 0, 2 * Risk) = FALSE
  BY <1>3 DEF Hit
<1> QED BY <1>2, <1>3, <1>4, Zenon DEF Knows

\* The same, its conditions and its result by name
NextSample(n, g, d, c, s) ==
  /\ \A k \in 1 .. n + 1 : g[k] \in Int
  /\ g[n + 1] = Pnl(c, s.price) /\ d[n + 1] = s.ts - c.ts

KnowsNext(n, g, d, c, rs, s) ==
  Seen(c, Knows(c, rs, g, d, n), s) = Knows(c, rs, g, d, n + 1)

\* A sample more: the loop goes from what it knew to what it knows.
LEMMA NextStep ==
  ASSUME NEW n \in Nat, NEW g, NEW d, NEW c, NEW rs, NEW s, NextSample(n, g, d, c, s)
  PROVE  KnowsNext(n, g, d, c, rs, s)
  BY SeenStep DEF NextSample, KnowsNext

\* The loop ends with what the samples W tell, N of them.
ReturnsOf(c, F) == [h \in EarlyReturns \cup {Horizon} |-> ReturnAt(c, F, c.ts + h)]

LoopOver(c, F, W, N, g, d) ==
  /\ W = Only(F, {s \in Range(F) : s.ts <= c.ts + Horizon})
  /\ N = Len(W)
  /\ \A k \in 1 .. N : g[k] = Pnl(c, W[k].price) /\ g[k] \in Int /\ d[k] = W[k].ts - c.ts

\* label_candidate's loop, unfolded: its result is what is known after all samples W.
LEMMA LoopIs ==
  ASSUME NEW c, NEW F, NEW W, NEW N \in Nat, NEW g, NEW d, LoopOver(c, F, W, N, g, d)
  PROVE  LabelCandidate(c, F) = Knows(c, ReturnsOf(c, F), g, d, N)
<1>0. /\ W = Only(F, {s \in Range(F) : s.ts <= c.ts + Horizon}) /\ N = Len(W)
      /\ \A k \in 1 .. N : g[k] = Pnl(c, W[k].price) /\ g[k] \in Int /\ d[k] = W[k].ts - c.ts
  BY DEF LoopOver
<1>1. PICK rs : rs = ReturnsOf(c, F)
  OBVIOUS
<1> DEFINE none == [candidate |-> c, returns |-> rs, mfe |-> 0, mae |-> 0,
                    toTarget |-> {}, toStop |-> {}, hit1 |-> FALSE, hit2 |-> FALSE]
           Body(f) == [n \in 0 .. N |-> IF n > 0 THEN Seen(c, f[n - 1], W[n]) ELSE none]
           Rec(f) == f = Body(f)
           R == CHOOSE f : Rec(f)
           q == [n \in 0 .. N |-> Knows(c, rs, g, d, n)]
<1>2. LabelCandidate(c, F) = R[N]
  BY <1>0, <1>1 DEF LabelCandidate, ReturnsOf
<1>3. Knows(c, rs, g, d, 0) = none
  BY KnowsNothing
<1>4. ASSUME NEW n \in 1 .. N
      PROVE  n - 1 \in 0 .. N /\ n > 0 /\ n \in 0 .. N
             /\ Seen(c, Knows(c, rs, g, d, n - 1), W[n]) = Knows(c, rs, g, d, n)
  <2>1. PICK m \in Nat : m = n - 1 /\ n = m + 1
    OBVIOUS
  <2>2. \A k \in 1 .. m + 1 : g[k] \in Int
    BY <1>0, <2>1
  <2>3. PICK s : s = W[n]
    OBVIOUS
  <2>4. g[m + 1] = Pnl(c, s.price) /\ d[m + 1] = s.ts - c.ts
    BY <1>0, <2>1, <2>3
  <2>6. Seen(c, Knows(c, rs, g, d, m), s) = Knows(c, rs, g, d, m + 1)
    <3>1. NextSample(m, g, d, c, s)
      BY <2>2, <2>4, Zenon DEF NextSample
    <3>2. KnowsNext(m, g, d, c, rs, s)
      BY <3>1, NextStep, Zenon
    <3> QED BY <3>2, Zenon DEF KnowsNext
  <2>5. n - 1 \in 0 .. N /\ n > 0 /\ n \in 0 .. N
    OBVIOUS
  <2> QED BY <2>1, <2>3, <2>5, <2>6, Zenon
<1> HIDE DEF none
<1>5. \A n \in 0 .. N : q[n] = Knows(c, rs, g, d, n)
  OBVIOUS
<1>6. \A n \in 0 .. N : n = 0 \/ n \in 1 .. N
  OBVIOUS
<1>7. ASSUME NEW n \in 0 .. N
      PROVE  Knows(c, rs, g, d, n) = IF n > 0 THEN Seen(c, q[n - 1], W[n]) ELSE none
  <2>1. CASE n = 0
    BY <1>3, <2>1
  <2>2. CASE n \in 1 .. N
    <3> HIDE DEF q
    <3>1. q[n - 1] = Knows(c, rs, g, d, n - 1)
      BY <1>4, <1>5, <2>2, Zenon
    <3> QED BY <1>4, <2>2, <3>1, Zenon
  <2> QED BY <1>6, <2>1, <2>2
<1>8. Rec(q)
  <2>1. [n \in 0 .. N |-> Knows(c, rs, g, d, n)] = Body(q)
    BY <1>7, Zenon
  <2> QED BY <2>1, Zenon
<1>9. Rec(R)
  BY <1>8, Zenon
<1> HIDE DEF R, q
<1>10. PICK f : f = R
  OBVIOUS
<1> DEFINE b == Body(f)
<1>11. f = b
  BY <1>9, <1>10, Zenon
<1>12. \A n \in 0 .. N : b[n] = IF n > 0 THEN Seen(c, f[n - 1], W[n]) ELSE none
  OBVIOUS
<1> HIDE DEF b
<1> DEFINE T == {n \in 0 .. N : f[n] # Knows(c, rs, g, d, n)}
<1>13. T = {}
  <2>1. SUFFICES ASSUME T # {} PROVE FALSE
    OBVIOUS
  <2>2. T \subseteq Nat
    OBVIOUS
  <2>3. PICK n \in T : \A m \in T : n <= m
    <3> HIDE DEF T
    <3> QED BY <2>1, <2>2, LeastElement
  <2>4. n \in 0 .. N /\ f[n] # Knows(c, rs, g, d, n)
    BY <2>3
  <2>5. f[n] = IF n > 0 THEN Seen(c, f[n - 1], W[n]) ELSE none
    BY <1>11, <1>12, <2>4, Zenon
  <2>6. CASE n = 0
    BY <1>3, <2>4, <2>5, <2>6
  <2>7. CASE n \in 1 .. N
    <3>1. ~(n <= n - 1)
      BY <2>7
    <3>2. f[n - 1] = Knows(c, rs, g, d, n - 1)
      BY <1>4, <2>3, <2>7, <3>1, Zenon
    <3> QED BY <1>4, <2>4, <2>5, <2>7, <3>2, Zenon
  <2> QED BY <1>6, <2>4, <2>6, <2>7
<1>14. f[N] = Knows(c, rs, g, d, N)
  <2>1. N \in 0 .. N
    OBVIOUS
  <2> QED BY <1>13, <2>1
<1> QED BY <1>1, <1>2, <1>10, <1>14, Zenon

-----------------------------------------------------------------------------
(***************************************************************************)
(* The samples after a candidate                                           *)
(***************************************************************************)
PriceSample == [ts : Nat, price : Nat]

\* w is what stands at the positions T of ps, in order; w[k] stands at p[k].
Enumerates(p, w, ps, T) ==
  /\ w \in Seq(PriceSample)
  /\ p \in [1 .. Len(w) -> T]
  /\ \A k \in 1 .. Len(w) : w[k] = ps[p[k]]
  /\ \A k, l \in 1 .. Len(w) : k < l => p[k] < p[l]
  /\ \A i \in T : \E k \in 1 .. Len(w) : p[k] = i

Later(ps, ts) == {i \in DOMAIN ps : ts < ps[i].ts}
After(ps, ts) == {i \in DOMAIN ps : ts < ps[i].ts /\ ps[i].ts <= ts + Horizon}

\* A selection is an enumeration of the positions it selects.
LEMMA SelectionOf ==
  ASSUME NEW ps \in Seq(PriceSample), NEW S, NEW T,
         \A i \in DOMAIN ps : i \in T <=> ps[i] \in S, T \subseteq DOMAIN ps
  PROVE  \E p : Enumerates(p, Only(ps, S), ps, T)
<1>1. PICK w : w = Only(ps, S) /\ w \in Seq(PriceSample)
  BY OnlyType
<1>2. PICK p : Picks(p, w, ps, S, Len(ps))
  BY <1>1, OnlyPicks
<1>3. DOMAIN ps = 1 .. Len(ps)
  OBVIOUS
<1>4. Enumerates(p, w, ps, T)
  BY <1>1, <1>2, <1>3 DEF Picks, Enumerates
<1> QED BY <1>1, <1>4

\* The samples after ts, and those within the horizon, are listed in their order in ps.
LEMMA WithinIs ==
  ASSUME NEW ps \in Seq(PriceSample), NEW ts \in Nat,
         NEW F, F = Only(ps, {s \in Range(ps) : s.ts > ts}),
         NEW W, W = Only(F, {s \in Range(F) : s.ts <= ts + Horizon})
  PROVE  /\ \E q : Enumerates(q, F, ps, Later(ps, ts))
         /\ \E p : Enumerates(p, W, ps, After(ps, ts))
<1>1. PICK q : Enumerates(q, F, ps, Later(ps, ts))
  <2> DEFINE S == {s \in Range(ps) : s.ts > ts}
  <2>1. \A i \in DOMAIN ps : i \in Later(ps, ts) <=> ps[i] \in S
    <3>1. \A i \in DOMAIN ps : ps[i] \in Range(ps)
      BY DEF Range
    <3>2. \A i \in DOMAIN ps : ps[i] \in PriceSample
      OBVIOUS
    <3>3. \A i \in DOMAIN ps : ps[i].ts \in Nat
      BY <3>2 DEF PriceSample
    <3> QED BY <3>1, <3>3 DEF Later
  <2>2. Later(ps, ts) \subseteq DOMAIN ps
    BY DEF Later
  <2> HIDE DEF S
  <2>3. \E q : Enumerates(q, Only(ps, S), ps, Later(ps, ts))
    BY <2>1, <2>2, SelectionOf
  <2> QED BY <2>3 DEF S
<1>2. /\ F \in Seq(PriceSample) /\ DOMAIN F = 1 .. Len(F) /\ q \in [1 .. Len(F) -> Later(ps, ts)]
      /\ \A k \in 1 .. Len(F) : F[k] = ps[q[k]]
      /\ \A k, l \in 1 .. Len(F) : k < l => q[k] < q[l]
      /\ \A i \in Later(ps, ts) : \E k \in 1 .. Len(F) : q[k] = i
  <2>1. F \in Seq(PriceSample)
    BY <1>1, Zenon DEF Enumerates
  <2>2. DOMAIN F = 1 .. Len(F)
    BY <2>1
  <2> QED BY <1>1, <2>2, Zenon DEF Enumerates
<1>3. PICK T : T = {k \in DOMAIN F : F[k].ts <= ts + Horizon}
  OBVIOUS
<1>4. PICK p : Enumerates(p, W, F, T)
  <2> DEFINE S == {s \in Range(F) : s.ts <= ts + Horizon}
  <2>1. \A i \in DOMAIN F : i \in T <=> F[i] \in S
    <3>1. \A i \in DOMAIN F : F[i] \in Range(F)
      BY DEF Range
    <3> QED BY <1>3, <3>1
  <2>2. T \subseteq DOMAIN F
    BY <1>3
  <2> HIDE DEF S
  <2>3. \E r : Enumerates(r, Only(F, S), F, T)
    BY <1>2, <2>1, <2>2, SelectionOf
  <2> QED BY <2>3 DEF S
<1>5. /\ W \in Seq(PriceSample) /\ p \in [1 .. Len(W) -> T]
      /\ \A k \in 1 .. Len(W) : W[k] = F[p[k]]
      /\ \A k, l \in 1 .. Len(W) : k < l => p[k] < p[l]
      /\ \A i \in T : \E k \in 1 .. Len(W) : p[k] = i
  BY <1>4 DEF Enumerates
<1>6. PICK m \in Nat, n \in Nat : m = Len(W) /\ n = Len(F) /\ T \subseteq 1 .. n
  <2>1. Len(W) \in Nat /\ Len(F) \in Nat
    BY <1>2, <1>5
  <2> QED BY <1>2, <1>3, <2>1
<1>7. /\ q \in [1 .. n -> Later(ps, ts)] /\ p \in [1 .. m -> T]
      /\ \A k \in 1 .. n : F[k] = ps[q[k]]
      /\ \A k \in 1 .. m : W[k] = F[p[k]]
      /\ \A k, l \in 1 .. n : k < l => q[k] < q[l]
      /\ \A k, l \in 1 .. m : k < l => p[k] < p[l]
  BY <1>2, <1>5, <1>6, Zenon
<1> DEFINE r == [k \in 1 .. m |-> q[p[k]]]
<1>8. \A k \in 1 .. m : p[k] \in 1 .. n /\ p[k] \in T /\ r[k] = q[p[k]]
  BY <1>5, <1>6
<1>9. \A k \in 1 .. m : r[k] \in After(ps, ts)
  BY <1>2, <1>3, <1>6, <1>8 DEF Later, After
<1>10. r \in [1 .. m -> After(ps, ts)]
  BY <1>9
<1> HIDE DEF r
<1>11. \A k \in 1 .. m : W[k] = ps[r[k]]
  BY <1>8, <1>7, Zenon
<1>12. \A k, l \in 1 .. m : k < l => r[k] < r[l]
  <2>1. ASSUME NEW k \in 1 .. m, NEW l \in 1 .. m, k < l PROVE r[k] < r[l]
    <3>1. p[k] < p[l]
      BY <1>7, <2>1, Zenon
    <3>2. p[k] \in 1 .. n /\ p[l] \in 1 .. n
      BY <1>8, Zenon
    <3>3. q[p[k]] < q[p[l]]
      BY <1>7, <3>1, <3>2, Zenon
    <3> QED BY <1>8, <3>3, Zenon
  <2> QED BY <2>1
<1>13. ASSUME NEW i \in After(ps, ts) PROVE \E k \in 1 .. m : r[k] = i
  <2>1. PICK j \in 1 .. n : q[j] = i
    BY <1>2, <1>6 DEF After, Later
  <2>2. F[j].ts <= ts + Horizon /\ j \in DOMAIN F
    BY <1>2, <1>6, <2>1 DEF After
  <2>3. j \in T
    BY <1>3, <2>2
  <2>4. PICK k \in 1 .. m : p[k] = j
    BY <1>5, <1>6, <2>3
  <2> QED BY <1>8, <2>1, <2>4
<1>14. Enumerates(r, W, ps, After(ps, ts))
  BY <1>5, <1>6, <1>10, <1>11, <1>12, <1>13 DEF Enumerates
<1> QED BY <1>1, <1>14

(***************************************************************************)
(* p lists the positions T in order; what is known of the positions of the *)
(* list is known of T.                                                     *)
(***************************************************************************)
Lists(p, n, T) ==
  /\ p \in [1 .. n -> T]
  /\ \A k, l \in 1 .. n : k < l => p[k] < p[l]
  /\ \A i \in T : \E k \in 1 .. n : p[k] = i

InOrderOf(p, n, T) ==
  /\ \A k \in 1 .. n : p[k] \in T /\ p[k] \in Nat
  /\ \A k, l \in 1 .. n : k <= l <=> p[k] <= p[l]
  /\ \A k, l \in 1 .. n : k > l <=> p[k] > p[l]
  /\ \A i \in T : \E k \in 1 .. n : p[k] = i

\* An ascending list of T keeps order both ways.
LEMMA ListOrder ==
  ASSUME NEW n \in Nat, NEW T, T \subseteq Nat, NEW p, Lists(p, n, T)
  PROVE  InOrderOf(p, n, T)
<1>1. \A k \in 1 .. n : p[k] \in T /\ p[k] \in Nat
  BY DEF Lists
<1>2. \A k, l \in 1 .. n : k < l => p[k] < p[l]
  BY DEF Lists
<1>3. \A k, l \in 1 .. n : k = l \/ k < l \/ l < k
  OBVIOUS
<1> QED BY <1>1, <1>2, <1>3, SMTT(40) DEF Lists, InOrderOf

Along(p, n, d, e) == \A k \in 1 .. n : d[k] = e[p[k]]
Chosen(p, n, K, S) == K \subseteq 1 .. n /\ \A k \in 1 .. n : k \in K <=> p[k] \in S

SameTimes(d, K, e, S) == TimeOf(d, K) = TimeOf(e, S)

\* Listing elements leaves the time of the first one as it was.
LEMMA ListedTimes ==
  ASSUME NEW n \in Nat, NEW T, T \subseteq Nat, NEW p, Lists(p, n, T),
         NEW d, NEW e, Along(p, n, d, e), NEW K, NEW S \in SUBSET T, Chosen(p, n, K, S)
  PROVE  SameTimes(d, K, e, S)
<1>0. /\ \A k \in 1 .. n : d[k] = e[p[k]]
      /\ K \subseteq 1 .. n /\ S \subseteq T /\ \A k \in 1 .. n : k \in K <=> p[k] \in S
  BY DEF Along, Chosen
<1>1. /\ \A k \in 1 .. n : p[k] \in T /\ p[k] \in Nat
      /\ \A k, l \in 1 .. n : k <= l <=> p[k] <= p[l]
      /\ \A i \in T : \E k \in 1 .. n : p[k] = i
  <2>1. InOrderOf(p, n, T)
    BY ListOrder, Zenon
  <2> QED BY <2>1, Zenon DEF InOrderOf
<1>2. ASSUME NEW k \in K PROVE k \in Firsts(K) <=> p[k] \in Firsts(S)
  <2>1. p[k] \in S /\ k \in 1 .. n
    BY <1>0
  <2>2. ASSUME k \in Firsts(K), NEW i \in S PROVE p[k] <= i
    <3>1. PICK l \in 1 .. n : p[l] = i
      BY <1>0, <1>1
    <3>2. l \in K
      BY <1>0, <3>1
    <3> QED BY <1>1, <2>1, <2>2, <3>1, <3>2 DEF Firsts
  <2>3. ASSUME p[k] \in Firsts(S), NEW l \in K PROVE k <= l
    BY <1>0, <1>1, <2>1, <2>3 DEF Firsts
  <2> QED BY <2>1, <2>2, <2>3 DEF Firsts
<1>3. \A i \in Firsts(S) : \E k \in Firsts(K) : p[k] = i
  <2>1. ASSUME NEW i \in Firsts(S) PROVE \E k \in Firsts(K) : p[k] = i
    <3>1. i \in S
      BY DEF Firsts
    <3>2. PICK k \in 1 .. n : p[k] = i
      BY <1>0, <1>1, <3>1
    <3> QED BY <1>0, <1>2, <3>1, <3>2
  <2> QED BY <2>1
<1>4. \A k \in Firsts(K) : k \in 1 .. n /\ p[k] \in Firsts(S) /\ d[k] = e[p[k]]
  BY <1>0, <1>2 DEF Firsts
<1> QED BY <1>3, <1>4 DEF TimeOf, SameTimes

TellsOf(g, n, u, T) ==
  /\ Up(g, n) = Max({0} \cup {u[i] : i \in T})
  /\ Down(g, n) = Min({0} \cup {u[i] : i \in T})
  /\ \A r : Hit(g, n, r) <=> \E i \in T : /\ u[i] >= r
                                         /\ \A j \in {x \in T : u[x] <= -Risk} : j > i

\* Listing elements leaves maximum, minimum and what was hit first as they were.
LEMMA ListedValues ==
  ASSUME NEW n \in Nat, NEW T, T \subseteq Nat, NEW p, Lists(p, n, T),
         NEW g, NEW u, Along(p, n, g, u)
  PROVE  TellsOf(g, n, u, T)
<1>0. \A k \in 1 .. n : g[k] = u[p[k]]
  BY DEF Along
<1>1. /\ \A k \in 1 .. n : p[k] \in T /\ p[k] \in Nat
      /\ \A k, l \in 1 .. n : k > l <=> p[k] > p[l]
      /\ \A i \in T : \E k \in 1 .. n : p[k] = i
  <2>1. InOrderOf(p, n, T)
    BY ListOrder, Zenon
  <2> QED BY <2>1, Zenon DEF InOrderOf
<1>2. {g[k] : k \in 1 .. n} = {u[i] : i \in T}
  BY <1>0, <1>1
<1>3. ASSUME NEW r
      PROVE  Hit(g, n, r) <=> \E i \in T : /\ u[i] >= r
                                           /\ \A j \in {x \in T : u[x] <= -Risk} : j > i
  <2>1. \A k \in 1 .. n : (\A j \in Fall(g, n) : j > k)
                            <=> (\A j \in {x \in T : u[x] <= -Risk} : j > p[k])
    <3>1. ASSUME NEW k \in 1 .. n, \A j \in Fall(g, n) : j > k, NEW i \in T, u[i] <= -Risk
          PROVE  i > p[k]
      <4>1. PICK j \in 1 .. n : p[j] = i
        BY <1>1
      <4>2. j \in Fall(g, n)
        BY <1>0, <3>1, <4>1 DEF Fall
      <4> QED BY <1>1, <3>1, <4>1, <4>2
    <3>2. ASSUME NEW k \in 1 .. n, \A j \in {x \in T : u[x] <= -Risk} : j > p[k],
                 NEW j \in Fall(g, n)
          PROVE  j > k
      <4>1. j \in 1 .. n /\ u[p[j]] <= -Risk /\ p[j] \in T
        BY <1>0, <1>1 DEF Fall
      <4> QED BY <1>1, <3>2, <4>1
    <3> QED BY <3>1, <3>2
  <2>2. Hit(g, n, r) <=> \E k \in 1 .. n : g[k] >= r /\ \A j \in Fall(g, n) : j > k
    BY DEF Hit, Reach
  <2>3. Hit(g, n, r) <=> \E k \in 1 .. n : /\ u[p[k]] >= r
                                           /\ \A j \in {x \in T : u[x] <= -Risk} : j > p[k]
    BY <1>0, <2>1, <2>2
  <2> QED BY <1>1, <2>3
<1> QED BY <1>2, <1>3, Zenon DEF Up, Down, TellsOf

(***************************************************************************)
(* A label that is made of the samples of ps after its candidate is true   *)
(* of ps.                                                                  *)
(***************************************************************************)
Made(c, ps) == LabelCandidate(c, Only(ps, {s \in Range(ps) : s.ts > c.ts}))

\* What label_candidate says of the samples after the candidate holds of ps.
LEMMA LabelIsTrue ==
  ASSUME NEW ps \in Seq(PriceSample), NEW c, c.ts \in Nat, c.entry \in Nat,
         \E i \in DOMAIN ps : ps[i] = [ts |-> c.ts, price |-> c.entry]
  PROVE  IsTrueLabel(Made(c, ps), ps) /\ Horizon \in DOMAIN Made(c, ps).returns
<1>1. PICK t \in Nat : t = c.ts
  OBVIOUS
<1>2. PICK F, W : /\ F = Only(ps, {s \in Range(ps) : s.ts > t})
                  /\ W = Only(F, {s \in Range(F) : s.ts <= t + Horizon})
  OBVIOUS
<1>3. PICK q : Enumerates(q, F, ps, Later(ps, t))
  BY <1>2, WithinIs
<1>4. PICK p : Enumerates(p, W, ps, After(ps, t))
  BY <1>2, WithinIs
<1>5. PICK A : A = After(ps, t)
  OBVIOUS
<1>6. PICK N \in Nat : N = Len(W)
  BY <1>4 DEF Enumerates
<1>7. A \subseteq DOMAIN ps /\ DOMAIN ps \subseteq Nat
  BY <1>5 DEF After
<1>8. Lists(p, N, A) /\ \A k \in 1 .. N : W[k] = ps[p[k]]
  BY <1>4, <1>5, <1>6, Zenon DEF Enumerates, Lists
<1>9. \A i \in DOMAIN ps : /\ ps[i].ts \in Nat /\ ps[i].price \in Nat
                           /\ Pnl(c, ps[i].price) \in Int
  <2>1. \A i \in DOMAIN ps : ps[i] \in PriceSample
    OBVIOUS
  <2>2. \A i \in DOMAIN ps : ps[i].ts \in Nat /\ ps[i].price \in Nat
    BY <2>1 DEF PriceSample
  <2>3. \A x \in Nat : Pnl(c, x) \in Int
    BY DEF Pnl
  <2> QED BY <2>2, <2>3
<1> DEFINE u == [i \in DOMAIN ps |-> Pnl(c, ps[i].price)]
           e == [i \in DOMAIN ps |-> ps[i].ts - c.ts]
           g == [k \in 1 .. N |-> u[p[k]]]
           d == [k \in 1 .. N |-> e[p[k]]]
           rs == ReturnsOf(c, F)
<1>10. /\ \A i \in DOMAIN ps : u[i] = Pnl(c, ps[i].price) /\ e[i] = ps[i].ts - c.ts
       /\ \A k \in 1 .. N : g[k] = u[p[k]] /\ d[k] = e[p[k]]
  OBVIOUS
<1>11. \A k \in 1 .. N : p[k] \in A /\ p[k] \in DOMAIN ps
  BY <1>7, <1>8 DEF Lists
<1> HIDE DEF u, e, g, d
<1>12. \A k \in 1 .. N : g[k] = Pnl(c, W[k].price) /\ g[k] \in Int /\ d[k] = W[k].ts - c.ts
  <2>1. TAKE k \in 1 .. N
  <2>2. PICK i : i = p[k]
    OBVIOUS
  <2>3. i \in DOMAIN ps /\ W[k] = ps[i] /\ g[k] = u[i] /\ d[k] = e[i]
    BY <1>8, <1>10, <1>11, <2>2, Zenon
  <2>4. u[i] = Pnl(c, ps[i].price) /\ e[i] = ps[i].ts - c.ts /\ Pnl(c, ps[i].price) \in Int
    BY <1>9, <1>10, <2>3, Zenon
  <2> QED BY <2>3, <2>4, Zenon
<1>13. Made(c, ps) = Knows(c, rs, g, d, N)
  <2>1. W = Only(F, {s \in Range(F) : s.ts <= c.ts + Horizon})
    BY <1>1, <1>2
  <2>2. LabelCandidate(c, F) = Knows(c, rs, g, d, N)
    <3>1. LoopOver(c, F, W, N, g, d)
      BY <1>6, <1>12, <2>1, Zenon DEF LoopOver
    <3> QED BY <3>1, LoopIs
  <2>3. Made(c, ps) = LabelCandidate(c, F)
    BY <1>1, <1>2 DEF Made
  <2> QED BY <2>2, <2>3, Zenon
<1>14. PICK l : l = Made(c, ps)
  OBVIOUS
<1>15. /\ l.candidate = c /\ l.returns = rs /\ l.mfe = Up(g, N) /\ l.mae = Down(g, N)
       /\ l.toTarget = TimeOf(d, Reach(g, N, Risk)) /\ l.toStop = TimeOf(d, Fall(g, N))
       /\ l.hit1 = Hit(g, N, Risk) /\ l.hit2 = Hit(g, N, 2 * Risk)
  <2> HIDE DEF rs
  <2> QED BY <1>13, <1>14 DEF Knows
<1>16. A = {i \in DOMAIN ps : c.ts < ps[i].ts /\ ps[i].ts <= c.ts + Horizon}
  BY <1>1, <1>5 DEF After
<1> DEFINE S(r) == {i \in A : u[i] >= r}
           Z == {i \in A : u[i] <= -Risk}
<1>17. l.toTarget = TimeOf(e, S(Risk))
  <2>1. Reach(g, N, Risk) \subseteq 1 .. N /\ S(Risk) \subseteq A
    BY DEF Reach
  <2>2. \A k \in 1 .. N : k \in Reach(g, N, Risk) <=> p[k] \in S(Risk)
    BY <1>10, <1>11, Zenon DEF Reach
  <2>3. A \subseteq Nat
    BY <1>7
  <2> HIDE DEF S
  <2>4. TimeOf(d, Reach(g, N, Risk)) = TimeOf(e, S(Risk))
    <3>1. PICK K, X : K = Reach(g, N, Risk) /\ X = S(Risk)
      OBVIOUS
    <3>2. Along(p, N, d, e) /\ Chosen(p, N, K, X) /\ X \in SUBSET A
      BY <1>10, <2>1, <2>2, <3>1, Zenon DEF Along, Chosen
    <3>3. SameTimes(d, K, e, X)
      BY <1>8, <2>3, <3>2, ListedTimes
    <3> QED BY <3>1, <3>3, Zenon DEF SameTimes
  <2> QED BY <1>15, <2>4
<1>18. l.toStop = TimeOf(e, Z)
  <2>1. Fall(g, N) \subseteq 1 .. N /\ Z \subseteq A
    BY DEF Fall
  <2>2. \A k \in 1 .. N : k \in Fall(g, N) <=> p[k] \in Z
    BY <1>10, <1>11, Zenon DEF Fall
  <2>3. A \subseteq Nat
    BY <1>7
  <2> HIDE DEF Z
  <2>4. TimeOf(d, Fall(g, N)) = TimeOf(e, Z)
    <3>1. PICK K, X : K = Fall(g, N) /\ X = Z
      OBVIOUS
    <3>2. Along(p, N, d, e) /\ Chosen(p, N, K, X) /\ X \in SUBSET A
      BY <1>10, <2>1, <2>2, <3>1, Zenon DEF Along, Chosen
    <3>3. SameTimes(d, K, e, X)
      BY <1>8, <2>3, <3>2, ListedTimes
    <3> QED BY <3>1, <3>3, Zenon DEF SameTimes
  <2> QED BY <1>15, <2>4
<1>19. /\ l.mfe = Max({0} \cup {u[i] : i \in A})
       /\ l.mae = Min({0} \cup {u[i] : i \in A})
       /\ \A r : Hit(g, N, r) <=> \E i \in A : u[i] >= r /\ \A j \in Z : j > i
  <2>1. A \subseteq Nat
    BY <1>7
  <2>2. Along(p, N, g, u)
    BY <1>10 DEF Along
  <2>3. TellsOf(g, N, u, A)
    BY <1>8, <2>1, <2>2, ListedValues
  <2> QED BY <1>15, <2>3, Zenon DEF TellsOf
<1>20. ASSUME NEW h \in DOMAIN l.returns, NEW r \in l.returns[h]
       PROVE  \E i \in DOMAIN ps : /\ ps[i].ts > c.ts
                                   /\ ps[i].ts \in c.ts + h .. c.ts + h + SampleLag
                                   /\ Pnl(c, ps[i].price) = r
  <2>1. h \in Nat /\ l.returns[h] = ReturnAt(c, F, c.ts + h)
    <3>1. h \in EarlyReturns \cup {Horizon} /\ l.returns[h] = ReturnAt(c, F, c.ts + h)
      BY <1>15 DEF ReturnsOf
    <3>2. EarlyReturns \subseteq Nat /\ Horizon \in Nat
      BY ResearchAssumption
    <3> QED BY <3>1, <3>2
  <2> DEFINE hits == {i \in DOMAIN F : c.ts + h <= F[i].ts /\ F[i].ts <= c.ts + h + SampleLag}
  <2>2. hits # {} /\ r = Pnl(c, F[Min(hits)].price)
    BY <2>1 DEF ReturnAt
  <2>3. Min(hits) \in hits
    <3>1. hits \subseteq Nat
      BY <1>3 DEF Enumerates
    <3> HIDE DEF hits
    <3>2. \E x \in hits : \A y \in hits : x <= y
      BY <2>2, <3>1, LeastElement
    <3> QED BY <3>2 DEF Min
  <2>4. PICK k \in DOMAIN F : /\ c.ts + h <= F[k].ts /\ F[k].ts <= c.ts + h + SampleLag
                              /\ r = Pnl(c, F[k].price)
    BY <2>2, <2>3
  <2>5. PICK i \in Later(ps, t) : F[k] = ps[i]
    <3>1. DOMAIN F = 1 .. Len(F)
      BY <1>3 DEF Enumerates
    <3> QED BY <1>3, <3>1 DEF Enumerates
  <2>6. i \in DOMAIN ps /\ t < ps[i].ts /\ ps[i].ts \in Nat
    BY <1>9 DEF Later
  <2>7. SampleLag \in Nat
    BY ResearchAssumption
  <2> QED BY <1>1, <2>1, <2>4, <2>5, <2>6, <2>7
<1>21. Horizon \in DOMAIN l.returns
  <2>1. DOMAIN rs = EarlyReturns \cup {Horizon}
    BY DEF ReturnsOf
  <2> HIDE DEF rs
  <2> QED BY <1>15, <2>1
<1> HIDE DEF rs
<1>22. IsTrueLabel(l, ps)
  <2>1. \A i \in A : Pnl(c, ps[i].price) = u[i] /\ ps[i].ts - c.ts = e[i]
    BY <1>7, <1>10
  <2>2. /\ S(Risk) = {i \in A : Pnl(c, ps[i].price) >= Risk}
        /\ Z = {i \in A : Pnl(c, ps[i].price) <= -Risk}
        /\ {u[i] : i \in A} = {Pnl(c, ps[i].price) : i \in A}
    BY <2>1, Zenon
  <2>3. \A X : X \subseteq A =>
          TimeOf(e, X) = {ps[i].ts - c.ts : i \in {j \in X : \A k \in X : j <= k}}
    BY <2>1, Zenon DEF TimeOf, Firsts
  <2>4. /\ l.toTarget = {ps[i].ts - c.ts : i \in {j \in S(Risk) : \A k \in S(Risk) : j <= k}}
        /\ l.toStop = {ps[i].ts - c.ts : i \in {j \in Z : \A k \in Z : j <= k}}
    <3>1. S(Risk) \subseteq A /\ Z \subseteq A
      OBVIOUS
    <3> HIDE DEF S, Z
    <3> QED BY <1>17, <1>18, <2>3, <3>1, Zenon
  <2>5. /\ l.hit1 = \E i \in A : Pnl(c, ps[i].price) >= Risk /\ \A j \in Z : j > i
        /\ l.hit2 = \E i \in A : Pnl(c, ps[i].price) >= 2 * Risk /\ \A j \in Z : j > i
    <3>1. Hit(g, N, Risk) \in BOOLEAN /\ Hit(g, N, 2 * Risk) \in BOOLEAN
      BY DEF Hit
    <3> HIDE DEF Z
    <3> QED BY <1>15, <1>19, <2>1, <3>1, Zenon
  <2>6. /\ l.mfe = Max({0} \cup {Pnl(c, ps[i].price) : i \in A})
        /\ l.mae = Min({0} \cup {Pnl(c, ps[i].price) : i \in A})
    BY <1>19, <2>2, Zenon
  <2>7. l.candidate = c
    BY <1>15
  <2> QED BY <1>16, <1>20, <2>2, <2>4, <2>5, <2>6, <2>7, SMTT(60) DEF IsTrueLabel
<1> QED BY <1>14, <1>21, <1>22

-----------------------------------------------------------------------------
(***************************************************************************)
(* What the research reads: the records of all files, by time              *)
(***************************************************************************)
Flats(g, s, n) == g = [i \in 1 .. n |-> IF i = 1 THEN s[i] ELSE g[i - 1] \o s[i]]

FlatAt(g, s, n) ==
  /\ g = [i \in 1 .. n |-> g[i]]
  /\ \A i \in 1 .. n : g[i] = IF i = 1 THEN s[i] ELSE g[i - 1] \o s[i]

\* The function that concatenates the first i sequences, by its values.
LEMMA FlatsAt ==
  ASSUME NEW n \in Nat, NEW s, NEW g
  PROVE  Flats(g, s, n) <=> FlatAt(g, s, n)
<1> DEFINE b == [i \in 1 .. n |-> IF i = 1 THEN s[i] ELSE g[i - 1] \o s[i]]
<1>1. /\ b = [i \in 1 .. n |-> b[i]]
      /\ \A i \in 1 .. n : b[i] = IF i = 1 THEN s[i] ELSE g[i - 1] \o s[i]
  OBVIOUS
<1>2. ASSUME FlatAt(g, s, n) PROVE g = b
  <2>1. \A i \in 1 .. n : g[i] = b[i]
    BY <1>1, <1>2 DEF FlatAt
  <2>2. [i \in 1 .. n |-> g[i]] = [i \in 1 .. n |-> b[i]]
    BY <2>1
  <2> HIDE DEF b
  <2> QED BY <1>1, <1>2, <2>2, Zenon DEF FlatAt
<1>3. Flats(g, s, n) <=> g = b
  BY DEF Flats
<1>4. ASSUME g = b PROVE FlatAt(g, s, n)
  <2> HIDE DEF b
  <2> QED BY <1>1, <1>4, Zenon DEF FlatAt
<1> QED BY <1>2, <1>3, <1>4

\* It can be continued by a sequence more.
LEMMA FlatGrows ==
  ASSUME NEW n \in Nat, NEW s, NEW g, FlatAt(g, s, n)
  PROVE  \E h : FlatAt(h, s, n + 1)
<1> DEFINE v == IF n + 1 = 1 THEN s[n + 1] ELSE g[n] \o s[n + 1]
           h == [i \in 1 .. n + 1 |-> IF i = n + 1 THEN v ELSE g[i]]
<1>1. \A i \in 1 .. n + 1 : h[i] = IF i = n + 1 THEN v ELSE g[i]
  OBVIOUS
<1>2. h = [i \in 1 .. n + 1 |-> h[i]]
  OBVIOUS
<1> HIDE DEF h
<1>3. ASSUME NEW i \in 1 .. n + 1 PROVE h[i] = IF i = 1 THEN s[i] ELSE h[i - 1] \o s[i]
  <2>1. CASE i = n + 1
    <3>1. h[i] = v
      BY <1>1, <2>1, Zenon
    <3>2. CASE i = 1
      BY <2>1, <3>1, <3>2
    <3>3. CASE i # 1
      <4>1. i - 1 = n /\ n \in 1 .. n + 1 /\ n # n + 1 /\ n + 1 # 1
        BY <2>1, <3>3
      <4>2. h[n] = g[n]
        BY <1>1, <4>1, Zenon
      <4>3. v = g[n] \o s[n + 1]
        BY <4>1
      <4> HIDE DEF v
      <4> QED BY <2>1, <3>1, <3>3, <4>1, <4>2, <4>3, Zenon
    <3> QED BY <3>2, <3>3
  <2>2. CASE i # n + 1
    <3> HIDE DEF v
    <3>1. i \in 1 .. n
      BY <2>2
    <3>2. h[i] = g[i] /\ g[i] = IF i = 1 THEN s[i] ELSE g[i - 1] \o s[i]
      BY <1>1, <2>2, <3>1, Zenon DEF FlatAt
    <3>3. CASE i = 1
      BY <3>2, <3>3, Zenon
    <3>4. CASE i # 1
      <4>1. i - 1 \in 1 .. n + 1 /\ i - 1 # n + 1
        BY <3>1, <3>4
      <4>2. h[i - 1] = g[i - 1]
        BY <1>1, <4>1, Zenon
      <4> QED BY <3>2, <3>4, <4>2, Zenon
    <3> QED BY <3>3, <3>4
  <2> QED BY <2>1, <2>2
<1>4. FlatAt(h, s, n + 1)
  BY <1>2, <1>3, Zenon DEF FlatAt
<1> QED BY <1>4

\* It exists for every number of sequences.
LEMMA FlatExists == ASSUME NEW n \in Nat, NEW s PROVE \E g : FlatAt(g, s, n)
<1> DEFINE T == {k \in Nat : ~ \E g : FlatAt(g, s, k)}
<1>1. SUFFICES ASSUME T # {} PROVE FALSE
  OBVIOUS
<1>2. PICK k \in T : \A j \in T : k <= j
  <2>1. T \subseteq Nat
    OBVIOUS
  <2> HIDE DEF T
  <2> QED BY <1>1, <2>1, LeastElement
<1>3. k \in Nat /\ ~ \E g : FlatAt(g, s, k)
  BY <1>2
<1>4. k # 0
  <2> DEFINE g == [i \in 1 .. 0 |-> <<>>]
  <2>1. \A i : i \notin 1 .. 0
    OBVIOUS
  <2>2. g = [i \in 1 .. 0 |-> g[i]]
    OBVIOUS
  <2> HIDE DEF g
  <2>3. FlatAt(g, s, 0)
    BY <2>1, <2>2, Zenon DEF FlatAt
  <2> QED BY <1>3, <2>3
<1>5. PICK m \in Nat : k = m + 1
  <2>1. k - 1 \in Nat /\ k = (k - 1) + 1
    BY <1>3, <1>4
  <2> QED BY <2>1
<1>6. ~(k <= m)
  BY <1>5
<1>7. PICK g : FlatAt(g, s, m)
  BY <1>2, <1>6
<1> QED BY <1>3, <1>5, <1>7, FlatGrows

\* Sequences of a kind make a sequence of that kind.
LEMMA FlattenType ==
  ASSUME NEW A, NEW s \in Seq(Seq(A))
  PROVE  FlattenSeq(s) \in Seq(A)
<1>1. PICK n \in Nat : n = Len(s)
  OBVIOUS
<1>2. \A i \in 1 .. n : s[i] \in Seq(A)
  BY <1>1
<1>3. CASE n = 0
  <2>1. s = <<>>
    BY <1>1, <1>3, EmptySeq
  <2>2. FlattenSeq(s) = s
    BY <1>1, <1>3 DEF FlattenSeq
  <2>3. <<>> \in Seq(A)
    OBVIOUS
  <2> QED BY <2>1, <2>2, <2>3
<1>4. CASE n # 0
  <2> DEFINE F == CHOOSE f : Flats(f, s, n)
  <2>1. \E f : Flats(f, s, n)
    BY FlatExists, FlatsAt
  <2>2. Flats(F, s, n)
    BY <2>1
  <2>3. FlattenSeq(s) = F[n]
    BY <1>1, <1>4 DEF FlattenSeq, Flats
  <2> HIDE DEF F
  <2>4. PICK f : f = F
    OBVIOUS
  <2>5. \A i \in 1 .. n : f[i] = IF i = 1 THEN s[i] ELSE f[i - 1] \o s[i]
    <3>1. Flats(f, s, n)
      BY <2>2, <2>4
    <3>2. FlatAt(f, s, n)
      BY <3>1, FlatsAt
    <3> QED BY <3>2, Zenon DEF FlatAt
  <2> DEFINE T == {i \in 1 .. n : f[i] \notin Seq(A)}
  <2>6. T = {}
    <3>1. SUFFICES ASSUME T # {} PROVE FALSE
      OBVIOUS
    <3>2. T \subseteq Nat
      OBVIOUS
    <3>3. PICK i \in T : \A j \in T : i <= j
      <4> HIDE DEF T
      <4> QED BY <3>1, <3>2, LeastElement
    <3>4. i \in 1 .. n /\ f[i] \notin Seq(A) /\ s[i] \in Seq(A)
      BY <1>2, <3>3
    <3>5. CASE i = 1
      BY <2>5, <3>4, <3>5
    <3>6. CASE i # 1
      <4>1. i - 1 \in 1 .. n /\ ~(i <= i - 1)
        BY <3>4, <3>6
      <4>2. f[i - 1] \in Seq(A)
        BY <3>3, <4>1
      <4>3. f[i] = f[i - 1] \o s[i]
        BY <2>5, <3>4, <3>6
      <4>4. \A x, y \in Seq(A) : x \o y \in Seq(A)
        OBVIOUS
      <4> QED BY <3>4, <4>2, <4>3, <4>4
    <3> QED BY <3>5, <3>6
  <2>7. n \in 1 .. n
    BY <1>4
  <2> QED BY <2>3, <2>4, <2>6, <2>7
<1> QED BY <1>3, <1>4

\* Every event has a time.
LEMMA EventTime == ASSUME NEW e \in MarketEvent PROVE e.ts \in Nat
  BY DEF MarketEvent, Trade, DepthDelta, OrderBookSnapshot, Ticker, Kline, OptionGreek

\* What has a price has one that is not negative.
LEMMA EventPrice ==
  ASSUME NEW e \in MarketEvent, HasPrice(e)
  PROVE  PriceOf(e) \in Nat
<1>1. CASE e \in Trade
  BY <1>1 DEF Trade, PriceOf
<1>2. CASE e \in Ticker
  <2>1. e.kind = "ticker" /\ e.mark \in Nat
    BY <1>2 DEF Ticker
  <2> QED BY <2>1 DEF PriceOf
<1>3. CASE e \in Kline
  <2>1. e.kind = "kline" /\ e.close \in Nat
    BY <1>3 DEF Kline
  <2> QED BY <2>1 DEF PriceOf
<1>4. e \notin DepthDelta /\ e \notin OrderBookSnapshot /\ e \notin OptionGreek
  BY DEF HasPrice, DepthDelta, OrderBookSnapshot, OptionGreek
<1> QED BY <1>1, <1>2, <1>3, <1>4 DEF MarketEvent

\* Events in the order of their times
InTime(es) == \A k, l \in DOMAIN es : k < l => es[k].ts <= es[l].ts

(***************************************************************************)
(* Sorting by time, stably, moves every record to a place of its own: the  *)
(* number of records that are not after it.                                *)
(***************************************************************************)
LEMMA ByTimeType ==
  ASSUME NEW rs \in Seq(Record)
  PROVE  EventsByTime(rs) \in Seq(MarketEvent) /\ InTime(EventsByTime(rs))
<1>1. PICK n \in Nat : n = Len(rs) /\ DOMAIN rs = 1 .. n
  OBVIOUS
<1>2. \A i \in 1 .. n : rs[i].event \in MarketEvent /\ rs[i].event.ts \in Nat
  <2>1. \A i \in 1 .. n : rs[i] \in Record
    BY <1>1
  <2>2. \A i \in 1 .. n : rs[i].event \in MarketEvent
    BY <2>1 DEF Record
  <2> QED BY <2>2, EventTime
<1> DEFINE before(i, j) == \/ rs[i].event.ts < rs[j].event.ts
                           \/ rs[i].event.ts = rs[j].event.ts /\ i <= j
           Upto(j) == {i \in 1 .. n : before(i, j)}
           rank == [j \in 1 .. n |-> Cardinality(Upto(j))]
<1>3. \A i, j, k \in 1 .. n : before(i, j) /\ before(j, k) => before(i, k)
  BY <1>2
<1>4. \A i, j \in 1 .. n : before(i, j) \/ before(j, i)
  BY <1>2
<1>5. \A i, j \in 1 .. n : i # j /\ before(i, j) => ~before(j, i)
  BY <1>2
<1>6. \A i \in 1 .. n : before(i, i)
  BY <1>2
<1> HIDE DEF before
<1>7. IsFiniteSet(1 .. n) /\ Cardinality(1 .. n) = n
  BY FS_Interval
<1>8. ASSUME NEW j \in 1 .. n
      PROVE  /\ Upto(j) \subseteq 1 .. n /\ j \in Upto(j)
             /\ IsFiniteSet(Upto(j)) /\ Cardinality(Upto(j)) \in 1 .. n
  <2>1. Upto(j) \subseteq 1 .. n /\ j \in Upto(j)
    BY <1>6
  <2> HIDE DEF Upto
  <2>2. IsFiniteSet(Upto(j)) /\ Cardinality(Upto(j)) <= n
    BY <1>7, <2>1, FS_Subset
  <2>3. Cardinality(Upto(j)) \in Nat /\ Cardinality(Upto(j)) # 0
    BY <2>1, <2>2, FS_CardinalityType, FS_EmptySet
  <2> QED BY <2>1, <2>2, <2>3
<1>9. ASSUME NEW i \in 1 .. n, NEW j \in 1 .. n, i # j, before(i, j)
      PROVE  Cardinality(Upto(i)) < Cardinality(Upto(j))
  <2>1. Upto(i) \subseteq Upto(j)
    BY <1>3, <1>9
  <2>2. j \in Upto(j) /\ j \notin Upto(i)
    BY <1>5, <1>6, <1>9
  <2>3. IsFiniteSet(Upto(j)) /\ Cardinality(Upto(i)) \in Nat /\ Cardinality(Upto(j)) \in Nat
    <3>1. /\ IsFiniteSet(Upto(j))
          /\ Cardinality(Upto(i)) \in 1 .. n /\ Cardinality(Upto(j)) \in 1 .. n
      <4> HIDE DEF Upto
      <4> QED BY <1>8, Zenon
    <3> HIDE DEF Upto
    <3> QED BY <3>1
  <2> HIDE DEF Upto
  <2>4. PICK A, B : A = Upto(i) /\ B = Upto(j)
    OBVIOUS
  <2>5. A \subseteq B /\ A # B /\ IsFiniteSet(B)
    BY <2>1, <2>2, <2>3, <2>4
  <2>6. Cardinality(A) <= Cardinality(B) /\ Cardinality(A) # Cardinality(B)
    BY <2>5, FS_Subset
  <2>7. Cardinality(A) \in Nat /\ Cardinality(B) \in Nat
    BY <2>3, <2>4
  <2> QED BY <2>4, <2>6, <2>7
<1>10. rank \in Injection(1 .. n, 1 .. n)
  <2>1. \A j \in 1 .. n : rank[j] = Cardinality(Upto(j))
    OBVIOUS
  <2> HIDE DEF Upto
  <2>2. rank \in [1 .. n -> 1 .. n]
    BY <1>8
  <2> HIDE DEF rank
  <2>3. \A i, j \in 1 .. n : rank[i] = rank[j] => i = j
    <3>1. \A i \in 1 .. n : rank[i] \in Int
      BY <2>2
    <3>2. \A i, j \in 1 .. n : i # j /\ before(i, j) => rank[i] < rank[j]
      BY <1>9, <2>1
    <3> QED BY <1>4, <3>1, <3>2
  <2> QED BY <2>2, <2>3 DEF Injection, IsInjective
<1>11. rank \in Surjection(1 .. n, 1 .. n)
  <2> HIDE DEF rank
  <2> QED BY <1>7, <1>10, FS_Injection
<1>12. \A k \in 1 .. n : \E j \in 1 .. n : rank[j] = k
  <2> HIDE DEF rank
  <2> QED BY <1>11 DEF Surjection
<1>13. \A k \in 1 .. n : \E j \in 1 .. n : Cardinality(Upto(j)) = k
  BY <1>12
<1> HIDE DEF rank
<1> DEFINE at(k) == CHOOSE j \in 1 .. n : Cardinality(Upto(j)) = k
<1>14. \A k \in 1 .. n : at(k) \in 1 .. n /\ Cardinality(Upto(at(k))) = k
  BY <1>13
<1>15. EventsByTime(rs) = [k \in 1 .. n |-> rs[at(k)].event]
  BY <1>1 DEF EventsByTime, before
<1> HIDE DEF at
<1>16. \A k \in 1 .. n : rs[at(k)].event \in MarketEvent
  BY <1>2, <1>14
<1>17. ASSUME NEW k \in 1 .. n, NEW l \in 1 .. n, k < l
       PROVE  rs[at(k)].event.ts <= rs[at(l)].event.ts
  <2>1. PICK i \in 1 .. n, j \in 1 .. n : i = at(k) /\ j = at(l)
    BY <1>14
  <2>2. Cardinality(Upto(i)) = k /\ Cardinality(Upto(j)) = l
    BY <1>14, <2>1
  <2>3. i # j
    <3>1. SUFFICES ASSUME i = j PROVE FALSE
      OBVIOUS
    <3>2. k = l
      BY <2>2, <3>1, Zenon
    <3> QED BY <1>17, <3>2
  <2>4. ~before(j, i)
    <3>1. SUFFICES ASSUME before(j, i) PROVE FALSE
      OBVIOUS
    <3>2. Cardinality(Upto(j)) < Cardinality(Upto(i))
      BY <1>9, <2>3, <3>1
    <3> QED BY <1>17, <2>2, <3>2
  <2>5. before(i, j)
    BY <1>4, <2>4
  <2>6. rs[i].event.ts <= rs[j].event.ts
    BY <1>2, <2>5 DEF before
  <2> QED BY <2>1, <2>6
<1>18. PICK es : es = EventsByTime(rs)
  OBVIOUS
<1>19. DOMAIN es = 1 .. n /\ \A k \in 1 .. n : es[k] = rs[at(k)].event
  BY <1>15, <1>18
<1>20. InTime(es)
  BY <1>17, <1>19 DEF InTime
<1>21. es \in Seq(MarketEvent)
  BY <1>15, <1>16, <1>18
<1> QED BY <1>18, <1>20, <1>21

\* What the research reads are events.
LEMMA InputType ==
  ASSUME DirectoryInv
  PROVE  EventsByTime(InFiles) \in Seq(MarketEvent) /\ InTime(EventsByTime(InFiles))
<1>1. files \in Seq(Seq(Record))
  <2>1. CASE ImportInv
    BY <2>1 DEF ImportInv, FilesAre
  <2>2. CASE RecordingInv
    <3>1. PICK r \in Recordings : files = Recorded(r)
      BY <2>2 DEF RecordingInv
    <3>2. r \in Seq(MarketEvent)
      BY BacktestAssumption
    <3>3. PICK n \in Nat : n = Len(r) /\ DOMAIN r = 1 .. n
      BY <3>2
    <3>4. \A i \in 1 .. n : r[i] \in MarketEvent /\ r[i].ts \in Nat
      BY <3>2, <3>3, EventTime
    <3>5. PICK rs : rs = [i \in DOMAIN r |-> [id |-> i, open |-> r[i].ts, close |-> r[i].ts,
                                              event |-> r[i]]]
      OBVIOUS
    <3>6. \A i \in 1 .. n : [id |-> i, open |-> r[i].ts, close |-> r[i].ts, event |-> r[i]]
                              \in Record
      BY <3>4 DEF Record
    <3>7. rs \in Seq(Record)
      <4>1. rs = [i \in 1 .. n |-> [id |-> i, open |-> r[i].ts, close |-> r[i].ts,
                                    event |-> r[i]]]
        BY <3>3, <3>5
      <4>2. rs \in [1 .. n -> Record]
        BY <3>6, <4>1
      <4> QED BY <4>2
    <3>8. files = <<rs>>
      BY <3>1, <3>5 DEF Recorded
    <3> QED BY <3>7, <3>8
  <2> QED BY <2>1, <2>2 DEF DirectoryInv
<1>2. [n \in DOMAIN files |-> files[n]] = files
  BY <1>1
<1>3. InFiles \in Seq(Record)
  BY <1>1, <1>2, FlattenType DEF InFiles
<1> QED BY <1>3, ByTimeType

-----------------------------------------------------------------------------
(***************************************************************************)
(* The research                                                            *)
(***************************************************************************)
\* What stands in a snapshot, or in a candidate, is one of the prices.
IsSampled(ts, price, ps) == \E i \in DOMAIN ps : ps[i] = [ts |-> ts, price |-> price]

SnapshotsOf(ss, ps) == \E S : ss \in Seq(S) /\ \A x \in S : IsSampled(x.ts, x.price, ps)
LabelsOf(ls, ps) ==
  \E S : ls \in Seq(S) /\ \A l \in S : IsTrueLabel(l, ps) /\ Horizon \in DOMAIN l.returns

(***************************************************************************)
(* Labels are made when every price is there: until then there are none,   *)
(* afterwards the prices stay.                                             *)
(***************************************************************************)
LabelInv ==
  /\ phase \in {"idle", "replay"} => labels = <<>>
  /\ phase = "replay" => input \in Seq(MarketEvent)
  /\ phase = "idle" => prices = <<>> /\ snapshots = <<>>
  /\ phase \in {"idle", "replay", "label", "split", "validate"} =>
       prices \in Seq(PriceSample) /\ SnapshotsOf(snapshots, prices)
  /\ LabelsOf(labels, prices)

\* No labels are true labels, no snapshots are of any prices.
LEMMA NoLabels == ASSUME NEW ps PROVE LabelsOf(<<>>, ps) /\ SnapshotsOf(<<>>, ps)
<1>1. PICK S : S = {}
  OBVIOUS
<1>2. <<>> \in Seq(S) /\ \A x \in S : FALSE
  BY <1>1
<1> QED BY <1>2 DEF LabelsOf, SnapshotsOf

\* Before the research there are no labels, prices or snapshots.
LEMMA LabelStart == Init => LabelInv
<1> SUFFICES ASSUME Init PROVE LabelInv
  OBVIOUS
<1>1. phase = "idle" /\ labels = <<>> /\ prices = <<>> /\ snapshots = <<>>
  BY DEF Init, ResearchInit
<1>2. <<>> \in Seq(PriceSample)
  OBVIOUS
<1>3. LabelsOf(<<>>, <<>>) /\ SnapshotsOf(<<>>, <<>>)
  BY NoLabels
<1> QED BY <1>1, <1>2, <1>3 DEF LabelInv

\* A price more is still a price for every snapshot.
LEMMA SampledStays ==
  ASSUME NEW ps \in Seq(PriceSample), NEW x \in PriceSample, NEW ts, NEW price,
         IsSampled(ts, price, ps)
  PROVE  IsSampled(ts, price, Append(ps, x))
<1>1. PICK i \in DOMAIN ps : ps[i] = [ts |-> ts, price |-> price]
  BY DEF IsSampled
<1>2. i \in DOMAIN Append(ps, x) /\ Append(ps, x)[i] = ps[i]
  OBVIOUS
<1> QED BY <1>1, <1>2, Zenon DEF IsSampled

\* A price more leaves every snapshot of a price there is.
LEMMA SnapshotStays ==
  ASSUME NEW ss, NEW ps \in Seq(PriceSample), SnapshotsOf(ss, ps), NEW x \in PriceSample
  PROVE  SnapshotsOf(ss, Append(ps, x))
<1>1. PICK S : ss \in Seq(S) /\ \A y \in S : IsSampled(y.ts, y.price, ps)
  BY DEF SnapshotsOf
<1>2. \A y \in S : IsSampled(y.ts, y.price, Append(ps, x))
  BY <1>1, SampledStays
<1> QED BY <1>1, <1>2 DEF SnapshotsOf

\* A snapshot is taken of the price just seen.
LEMMA SnapshotTaken ==
  ASSUME NEW ss, NEW ps \in Seq(PriceSample), SnapshotsOf(ss, ps), NEW x \in PriceSample,
         NEW y, y.ts = x.ts, y.price = x.price
  PROVE  SnapshotsOf(Append(ss, y), Append(ps, x))
<1>1. PICK S : ss \in Seq(S) /\ \A z \in S : IsSampled(z.ts, z.price, ps)
  BY DEF SnapshotsOf
<1>2. \A z \in S : IsSampled(z.ts, z.price, Append(ps, x))
  BY <1>1, SampledStays
<1>3. IsSampled(y.ts, y.price, Append(ps, x))
  <2>1. Len(ps) + 1 \in DOMAIN Append(ps, x) /\ Append(ps, x)[Len(ps) + 1] = x
    OBVIOUS
  <2>2. x = [ts |-> x.ts, price |-> x.price]
    BY DEF PriceSample
  <2> QED BY <2>1, <2>2 DEF IsSampled
<1>4. PICK R : R = S \cup {y}
  OBVIOUS
<1>5. ss \in Seq(R) /\ y \in R
  BY <1>1, <1>4
<1>6. Append(ss, y) \in Seq(R)
  BY <1>5
<1>7. \A z \in R : IsSampled(z.ts, z.price, Append(ps, x))
  BY <1>2, <1>3, <1>4
<1> QED BY <1>6, <1>7, Zenon DEF SnapshotsOf

\* Replaying an event adds its price before the snapshot taken of it.
LEMMA ReplayKeeps == ASSUME LabelInv, ReplayEvent PROVE LabelInv'
<1>1. /\ phase = "replay" /\ input # <<>> /\ input' = Tail(input)
      /\ phase' = "replay" /\ labels' = labels
  BY DEF ReplayEvent
<1>2. /\ input \in Seq(MarketEvent) /\ labels = <<>>
      /\ prices \in Seq(PriceSample) /\ SnapshotsOf(snapshots, prices)
  BY <1>1 DEF LabelInv
<1>3. PICK e \in MarketEvent : e = Head(input)
  BY <1>1, <1>2
<1>4. input' \in Seq(MarketEvent)
  BY <1>1, <1>2
<1>5. (\E f : HasPrice(e) /\ Observe(e, f)) \/ UNCHANGED <<prices, snapshots>>
  <2>1. CASE e.kind = "trade"
    <3>1. HasPrice(e)
      BY <2>1 DEF HasPrice
    <3>2. Observe(e, TradeFeatures(e, prices, tpoCounts', sums', deltaZ'[FlowWindow]))
      BY <1>3, <2>1 DEF ReplayEvent
    <3> QED BY <3>1, <3>2
  <2>2. CASE HasPrice(e) /\ e.kind # "trade"
    <3>1. Observe(e, RollingFeatures(prices, PriceOf(e)))
      BY <1>3, <2>2 DEF ReplayEvent
    <3> QED BY <2>2, <3>1
  <2>3. CASE ~HasPrice(e) /\ e.kind # "trade"
    BY <1>3, <2>3 DEF ReplayEvent
  <2> QED BY <2>1, <2>2, <2>3
<1>6. prices' \in Seq(PriceSample) /\ SnapshotsOf(snapshots', prices')
  <2>1. CASE UNCHANGED <<prices, snapshots>>
    BY <1>2, <2>1
  <2>2. ASSUME NEW f, HasPrice(e), Observe(e, f)
        PROVE  prices' \in Seq(PriceSample) /\ SnapshotsOf(snapshots', prices')
    <3>1. PICK x \in PriceSample : x = [ts |-> e.ts, price |-> PriceOf(e)]
      BY <2>2, EventTime, EventPrice DEF PriceSample
    <3>2. prices' = Append(prices, x)
      BY <2>2, <3>1 DEF Observe
    <3>3. prices' \in Seq(PriceSample)
      BY <1>2, <3>2
    <3>4. CASE snapshots' = snapshots
      BY <1>2, <3>2, <3>4, SnapshotStays
    <3>5. CASE snapshots' = Append(snapshots, [ts |-> e.ts, price |-> PriceOf(e), f |-> f,
                                               obi |-> obi])
      <4>1. PICK y : y = [ts |-> e.ts, price |-> PriceOf(e), f |-> f, obi |-> obi]
        OBVIOUS
      <4>2. y.ts = x.ts /\ y.price = x.price
        BY <3>1, <4>1
      <4>3. SnapshotsOf(Append(snapshots, y), Append(prices, x))
        BY <1>2, <4>2, SnapshotTaken
      <4> QED BY <3>2, <3>3, <3>5, <4>1, <4>3
    <3> QED BY <2>2, <3>3, <3>4, <3>5 DEF Observe
  <2> QED BY <1>5, <2>1, <2>2
<1>7. LabelsOf(labels', prices')
  <2>1. PICK ps : ps = prices'
    OBVIOUS
  <2> QED BY <1>1, <1>2, <2>1, NoLabels
<1> QED BY <1>1, <1>2, <1>4, <1>6, <1>7 DEF LabelInv

\* The candidates of a snapshot are of its time and its price.
LEMMA CandidatesAre ==
  ASSUME NEW s
  PROVE  \E n \in Nat : /\ DOMAIN Candidates(s) = 1 .. n
                        /\ \A i \in 1 .. n : /\ Candidates(s)[i].ts = s.ts
                                             /\ Candidates(s)[i].entry = s.price
<1>1. PICK A : Kinds \in Seq(A)
  <2>1. \A A : \A a, b, c, d \in A : <<a, b, c, d>> \in Seq(A)
    OBVIOUS
  <2>2. PICK A : A = {"LongBreakout", "ShortBreakout", "MeanReversionShort", "MeanReversionLong"}
    OBVIOUS
  <2>3. /\ "LongBreakout" \in A /\ "ShortBreakout" \in A
        /\ "MeanReversionShort" \in A /\ "MeanReversionLong" \in A
    BY <2>2
  <2> QED BY <2>1, <2>3, Zenon DEF Kinds
<1>2. PICK kinds : kinds = Only(Kinds, {k \in Range(Kinds) : Triggers(s, k)})
  OBVIOUS
<1>3. kinds \in Seq(A)
  BY <1>1, <1>2, OnlyType
<1>4. PICK n \in Nat : DOMAIN kinds = 1 .. n
  BY <1>3
<1>5. PICK c : c = [i \in DOMAIN kinds |-> [ts |-> s.ts, kind |-> kinds[i], entry |-> s.price,
                                             z |-> Delta(s), obi |-> s.obi]]
  OBVIOUS
<1>6. Candidates(s) = c
  BY <1>2, <1>5 DEF Candidates
<1>7. DOMAIN c = 1 .. n /\ \A i \in 1 .. n : c[i].ts = s.ts /\ c[i].entry = s.price
  BY <1>4, <1>5
<1> QED BY <1>6, <1>7

\* Labelling a snapshot adds true labels and leaves the prices alone.
LEMMA LabelKeeps == ASSUME LabelInv, LabelSnapshot PROVE LabelInv'
<1>1. /\ phase = "label" /\ snapshots # <<>> /\ phase' = phase
      /\ prices' = prices /\ snapshots' = Tail(snapshots)
  BY DEF LabelSnapshot, trackerVars
<1>2. /\ prices \in Seq(PriceSample) /\ SnapshotsOf(snapshots, prices)
      /\ LabelsOf(labels, prices)
  BY <1>1 DEF LabelInv
<1>3. PICK S : snapshots \in Seq(S) /\ \A x \in S : IsSampled(x.ts, x.price, prices)
  BY <1>2 DEF SnapshotsOf
<1>4. SnapshotsOf(snapshots', prices')
  <2>1. Tail(snapshots) \in Seq(S)
    BY <1>1, <1>3
  <2> QED BY <1>1, <1>3, <2>1 DEF SnapshotsOf
<1>5. PICK s \in S : s = Head(snapshots)
  BY <1>1, <1>3
<1>6. s.ts \in Nat /\ s.price \in Nat /\ IsSampled(s.ts, s.price, prices)
  <2>1. PICK i \in DOMAIN prices : prices[i] = [ts |-> s.ts, price |-> s.price]
    BY <1>3 DEF IsSampled
  <2>2. [ts |-> s.ts, price |-> s.price] \in PriceSample
    BY <1>2, <2>1
  <2> QED BY <1>3, <2>2 DEF PriceSample
<1>7. PICK n \in Nat : /\ DOMAIN Candidates(s) = 1 .. n
                       /\ \A i \in 1 .. n : /\ Candidates(s)[i].ts = s.ts
                                            /\ Candidates(s)[i].entry = s.price
  BY CandidatesAre
<1>8. PICK new : new = [i \in 1 .. n |-> LabelCandidate(Candidates(s)[i], Future(s.ts))]
  OBVIOUS
<1>9. labels' = labels \o new
  BY <1>5, <1>7, <1>8 DEF LabelSnapshot
<1>10. \A i \in 1 .. n : IsTrueLabel(new[i], prices) /\ Horizon \in DOMAIN new[i].returns
  <2>1. ASSUME NEW i \in 1 .. n
        PROVE  IsTrueLabel(new[i], prices) /\ Horizon \in DOMAIN new[i].returns
    <3>0. PICK ps \in Seq(PriceSample) : ps = prices
      BY <1>2
    <3>1. PICK c : c = Candidates(s)[i] /\ ps = prices
      BY <3>0
    <3>2. c.ts = s.ts /\ c.entry = s.price
      BY <1>7, <3>1
    <3>3. new[i] = Made(c, ps)
      BY <1>8, <3>1, <3>2 DEF Made, Future
    <3>4. IsTrueLabel(Made(c, ps), ps) /\ Horizon \in DOMAIN Made(c, ps).returns
      BY <1>6, <3>1, <3>2, LabelIsTrue DEF IsSampled
    <3> QED BY <3>1, <3>3, <3>4
  <2> QED BY <2>1
<1>11. LabelsOf(labels', prices')
  <2>1. PICK R : /\ labels \in Seq(R)
                  /\ \A l \in R : IsTrueLabel(l, prices) /\ Horizon \in DOMAIN l.returns
    BY <1>2 DEF LabelsOf
  <2>2. PICK Q : Q = R \cup {new[i] : i \in 1 .. n}
    OBVIOUS
  <2>3. labels \in Seq(Q)
    BY <2>1, <2>2
  <2>4. new \in Seq(Q)
    <3>1. new \in [1 .. n -> Q]
      BY <1>8, <2>2
    <3> QED BY <3>1
  <2>5. labels \o new \in Seq(Q)
    BY <2>3, <2>4
  <2>6. \A l \in Q : IsTrueLabel(l, prices) /\ Horizon \in DOMAIN l.returns
    BY <1>10, <2>1, <2>2, Zenon
  <2> QED BY <1>1, <1>9, <2>5, <2>6 DEF LabelsOf
<1> QED BY <1>1, <1>2, <1>4, <1>11 DEF LabelInv

\* No step of the system makes a label untrue: prices stay once there are labels.
LEMMA LabelStep == DirectoryInv /\ LabelInv /\ [Next]_vars => LabelInv'
<1> SUFFICES ASSUME DirectoryInv, LabelInv, [Next]_vars PROVE LabelInv'
  OBVIOUS
<1>1. CASE Import
  BY <1>1 DEF Import, researchVars, LabelInv
<1>2. CASE StartResearch
  <2>1. /\ phase = "idle" /\ UNCHANGED <<prices, snapshots, labels>>
        /\ \/ phase' = "failed"
           \/ phase' = "replay" /\ input' = EventsByTime(InFiles)
    BY <1>2 DEF StartResearch
  <2> QED BY <2>1, InputType DEF LabelInv
<1>3. CASE ScanRegimes
  <2>1. /\ phase = "idle" /\ phase' \in {"done", "failed"} /\ labels' = labels
    BY <1>3 DEF ScanRegimes
  <2>2. labels' = <<>>
    BY <2>1 DEF LabelInv
  <2>3. LabelsOf(labels', prices')
    <3>1. PICK ps : ps = prices'
      OBVIOUS
    <3> QED BY <2>2, <3>1, NoLabels
  <2> QED BY <2>1, <2>3 DEF LabelInv
<1>4. CASE ReplayEvent
  BY <1>4, ReplayKeeps
<1>5. CASE LabelSnapshot
  BY <1>5, LabelKeeps
<1>6. CASE ReplayDone \/ LabelsDone \/ PushSplit \/ SplitsDone \/ Validate
  BY <1>6 DEF ReplayDone, LabelsDone, PushSplit, SplitsDone, Validate, trackerVars, LabelInv
<1>7. CASE UNCHANGED vars
  BY <1>7 DEF vars, researchVars, LabelInv
<1> QED BY <1>1, <1>2, <1>3, <1>4, <1>5, <1>6, <1>7 DEF Next, Analyse, ResearchStep, Over

(***************************************************************************)
(* Whatever was recorded or imported, in which order and however often it  *)
(* was interrupted: no label of the research reads a price at or before    *)
(* its own candidate, or past its horizon, and it says what the prices in  *)
(* between did.  (research_runner.rs: label_candidate, return_at)          *)
(***************************************************************************)
THEOREM NoLabelLooksAhead == Spec => []LabelsLookOnlyAhead
<1>1. LabelInv => LabelsLookOnlyAhead
  <2> SUFFICES ASSUME LabelInv, NEW n \in DOMAIN labels PROVE IsTrueLabel(labels[n], prices)
    BY DEF LabelsLookOnlyAhead
  <2>1. PICK S : labels \in Seq(S) /\ \A l \in S : IsTrueLabel(l, prices)
    BY DEF LabelInv, LabelsOf
  <2>2. labels[n] \in S
    BY <2>1
  <2> QED BY <2>1, <2>2
<1>2. Spec => []LabelInv
  BY DirectoryAlways, LabelStart, LabelStep, PTL DEF Spec
<1> QED BY <1>1, <1>2, PTL

-----------------------------------------------------------------------------
(***************************************************************************)
(* Expectancies: a is no better than b when a / m <= b / n, as products    *)
(***************************************************************************)
\* A positive factor can be cancelled.
LEMMA Cancel ==
  ASSUME NEW x \in Int, NEW y \in Int, NEW n \in Nat \ {0}, x * n <= y * n
  PROVE  x <= y
<1>1. SUFFICES ASSUME x > y PROVE FALSE
  OBVIOUS
<1>2. PICK d \in Nat \ {0} : x = y + d
  <2>1. x - y \in Nat \ {0} /\ x = y + (x - y)
    BY <1>1
  <2> QED BY <2>1
<1>3. x * n = y * n + d * n
  BY <1>2
<1>4. d * n > 0
  BY <1>2
<1>5. y * n \in Int /\ d * n \in Int
  BY <1>2
<1> QED BY <1>3, <1>4, <1>5

\* Comparing expectancies by their products is transitive.
LEMMA ExpectanciesAreOrdered ==
  ASSUME NEW a \in Int, NEW b \in Int, NEW c \in Int,
         NEW k \in Nat \ {0}, NEW m \in Nat \ {0}, NEW n \in Nat \ {0},
         a * m <= b * k, b * n <= c * m
  PROVE  a * n <= c * k
<1>1. \A x, y \in Int : \A z \in Nat : x <= y => x * z <= y * z
  <2> TAKE x, y \in Int
  <2> TAKE z \in Nat
  <2> HAVE x <= y
  <2>1. PICK d \in Nat : y = x + d
    <3>1. y - x \in Nat /\ y = x + (y - x)
      OBVIOUS
    <3> QED BY <3>1
  <2>2. y * z = x * z + d * z
    BY <2>1
  <2>3. d * z \in Nat /\ x * z \in Int
    BY <2>1
  <2> QED BY <2>2, <2>3
<1>2. /\ a * m \in Int /\ b * k \in Int /\ b * n \in Int /\ c * m \in Int
      /\ a * n \in Int /\ c * k \in Int
  OBVIOUS
<1>3. (a * m) * n <= (b * k) * n /\ (b * n) * k <= (c * m) * k
  BY <1>1, <1>2
<1>4. (b * k) * n = (b * n) * k /\ (a * m) * n = (a * n) * m /\ (c * m) * k = (c * k) * m
  OBVIOUS
<1>5. (a * n) * m <= (c * k) * m
  <2>1. (a * m) * n \in Int /\ (b * k) * n \in Int /\ (c * m) * k \in Int
    BY <1>2
  <2> QED BY <1>3, <1>4, <2>1
<1> QED BY <1>2, <1>5, Cancel

\* Entry j of sums a and counts l is no better than entry i.
Beats(a, l, i, j) == a[j] * l[i] <= a[i] * l[j]

\* Of finitely many expectancies one is the best.
LEMMA OneIsBest ==
  ASSUME NEW T, IsFiniteSet(T), T # {},
         NEW a, NEW l, \A i \in T : a[i] \in Int /\ l[i] \in Nat \ {0}
  PROVE  \E i \in T : \A j \in T : Beats(a, l, i, j)
<1> DEFINE B == {U \in SUBSET T : U # {} /\ ~ \E i \in U : \A j \in U : Beats(a, l, i, j)}
<1>1. SUFFICES ASSUME B # {} PROVE FALSE
  OBVIOUS
<1>2. B \subseteq SUBSET T
  OBVIOUS
<1>3. PICK U \in B : \A x \in U : U \ {x} \notin B
  <2> HIDE DEF B
  <2> QED BY <1>1, <1>2, LeastSet
<1>4. /\ U \subseteq T /\ U # {} /\ ~ \E i \in U : \A j \in U : Beats(a, l, i, j)
      /\ \A x \in U : U \ {x} # {} =>
           \E i \in U \ {x} : \A j \in U \ {x} : Beats(a, l, i, j)
  BY <1>3
<1>5. PICK x \in U : TRUE
  BY <1>4
<1>6. \A i \in T : Beats(a, l, i, i)
  BY DEF Beats
<1>7. U \ {x} # {}
  BY <1>4, <1>5, <1>6
<1>8. PICK y \in U \ {x} : \A j \in U \ {x} : Beats(a, l, y, j)
  BY <1>4, <1>5, <1>7
<1>9. Beats(a, l, x, y) \/ Beats(a, l, y, x)
  <2>1. a[x] \in Int /\ a[y] \in Int /\ l[x] \in Int /\ l[y] \in Int
    BY <1>4, <1>5, <1>8
  <2>2. a[x] * l[y] \in Int /\ a[y] * l[x] \in Int
    BY <2>1
  <2> QED BY <2>2 DEF Beats
<1>10. CASE Beats(a, l, y, x)
  BY <1>4, <1>5, <1>8, <1>10
<1>11. CASE Beats(a, l, x, y)
  <2>1. ASSUME NEW j \in U PROVE Beats(a, l, x, j)
    <3>1. CASE j = x
      BY <1>4, <1>6, <3>1
    <3>2. CASE j # x
      <4>1. Beats(a, l, y, j)
        BY <1>8, <2>1, <3>2
      <4>2. PICK s \in Int, t \in Int, u \in Int : s = a[j] /\ t = a[y] /\ u = a[x]
        BY <1>4, <1>5, <1>8, <2>1
      <4>3. PICK o \in Nat \ {0}, p \in Nat \ {0}, q \in Nat \ {0} :
              o = l[j] /\ p = l[y] /\ q = l[x]
        BY <1>4, <1>5, <1>8, <2>1
      <4>4. s * p <= t * o /\ t * q <= u * p
        BY <1>11, <4>1, <4>2, <4>3 DEF Beats
      <4>5. s * q <= u * o
        BY <4>4, ExpectanciesAreOrdered
      <4> QED BY <4>2, <4>3, <4>5 DEF Beats
    <3> QED BY <3>1, <3>2
  <2> QED BY <1>4, <1>5, <2>1
<1> QED BY <1>9, <1>10, <1>11

-----------------------------------------------------------------------------
(***************************************************************************)
(* Thresholds                                                              *)
(***************************************************************************)
\* Labels whose returns are whole numbers
Countable(ls) == \E S : ls \in Seq(S) /\ \A l \in S : l.returns[Horizon] \subseteq Int

\* Their returns are whole numbers too.
LEMMA ReturnsType ==
  ASSUME NEW ls, Countable(ls), NEW t
  PROVE  Returns(ls, t) \in Seq(Int)
<1>1. PICK S : ls \in Seq(S) /\ \A l \in S : l.returns[Horizon] \subseteq Int
  BY DEF Countable
<1>2. PICK C : C = {l \in Range(ls) : ScoreAtLeast(l.candidate, t) /\ l.returns[Horizon] # {}}
  OBVIOUS
<1>3. PICK counted : counted = Only(ls, C)
  OBVIOUS
<1>4. PICK p : Picks(p, counted, ls, C, Len(ls))
  BY <1>1, <1>3, OnlyPicks
<1>5. counted \in Seq(S)
  BY <1>1, <1>3, OnlyType
<1>6. PICK n \in Nat : n = Len(counted) /\ DOMAIN counted = 1 .. n
  BY <1>5
<1>7. \A k \in 1 .. n : counted[k] \in C /\ counted[k] \in S
  BY <1>4, <1>5, <1>6 DEF Picks
<1>8. \A k \in 1 .. n : (CHOOSE r \in counted[k].returns[Horizon] : TRUE) \in Int
  <2> TAKE k \in 1 .. n
  <2>1. PICK R : R = counted[k].returns[Horizon]
    OBVIOUS
  <2>2. R # {} /\ R \subseteq Int
    BY <1>1, <1>2, <1>7, <2>1
  <2>3. (CHOOSE r \in R : TRUE) \in Int
    BY <2>2
  <2> QED BY <2>1, <2>3
<1>9. Returns(ls, t) = [k \in 1 .. n |-> CHOOSE r \in counted[k].returns[Horizon] : TRUE]
  BY <1>2, <1>3, <1>6 DEF Returns
<1>10. Returns(ls, t) \in [1 .. n -> Int]
  BY <1>8, <1>9
<1> QED BY <1>10

\* The sum of whole numbers is one, and there is no sum of none.
LEMMA SumType ==
  ASSUME NEW s \in Seq(Int)
  PROVE  /\ Total(s) \in Int /\ Len(s) \in Nat
         /\ s # <<>> => Len(s) \in Nat \ {0}
         /\ s = <<>> => Total(s) = 0 /\ Len(s) = 0
<1>1. IsFiniteSet(DOMAIN s) /\ \A k \in DOMAIN s : s[k] \in Int
  <2>1. DOMAIN s = 1 .. Len(s) /\ Len(s) \in Nat
    OBVIOUS
  <2> QED BY <2>1, FS_Interval
<1>2. Total(s) \in Int
  BY <1>1, TotalRemove
<1>3. s = <<>> => DOMAIN s = {}
  OBVIOUS
<1>4. s # <<>> => Len(s) # 0
  BY EmptySeq
<1> QED BY <1>2, <1>3, <1>4, TotalEmpty

\* The threshold chosen for ls, if any, is no worse than any other, traded or not.
LEMMA ChosenIsBest ==
  ASSUME NEW ls, Countable(ls)
  PROVE  /\ OptimizeThreshold(ls) = {} \/ \E t : OptimizeThreshold(ls) = {t}
         /\ \A t \in OptimizeThreshold(ls) : \A u \in Range(Thresholds) :
              NoBetter(Returns(ls, u), Returns(ls, t))
<1>1. PICK n \in Nat : n = Len(Thresholds) /\ DOMAIN Thresholds = 1 .. n
  BY ResearchAssumption
<1>2. PICK R : R = [i \in 1 .. n |-> Returns(ls, Thresholds[i])]
  OBVIOUS
<1>3. \A i \in 1 .. n : R[i] = Returns(ls, Thresholds[i]) /\ R[i] \in Seq(Int)
  BY <1>2, ReturnsType
<1>4. PICK T : T = {i \in 1 .. n : R[i] # <<>>}
  OBVIOUS
<1>5. PICK a, l : a = [i \in 1 .. n |-> Total(R[i])] /\ l = [i \in 1 .. n |-> Len(R[i])]
  OBVIOUS
<1>6. \A i, j \in 1 .. n : NoBetter(R[j], R[i]) <=> Beats(a, l, i, j)
  BY <1>5 DEF NoBetter, Beats
<1>7. PICK best : best = {i \in T : \A j \in T : Beats(a, l, i, j)}
  OBVIOUS
<1>8. OptimizeThreshold(ls) = IF T = {} THEN {} ELSE {Thresholds[Max(best)]}
  <2>1. {i \in DOMAIN Thresholds : Returns(ls, Thresholds[i]) # <<>>} = T
    BY <1>1, <1>3, <1>4
  <2>2. {i \in T : \A j \in T : NoBetter(Returns(ls, Thresholds[j]), Returns(ls, Thresholds[i]))}
          = best
    BY <1>3, <1>4, <1>6, <1>7
  <2> QED BY <2>1, <2>2, Zenon DEF OptimizeThreshold
<1>9. CASE T = {}
  BY <1>8, <1>9
<1>10. CASE T # {}
  <2>1. T \subseteq 1 .. n /\ IsFiniteSet(T)
    <3>1. T \subseteq 1 .. n
      BY <1>4
    <3>2. IsFiniteSet(1 .. n)
      BY FS_Interval
    <3> QED BY <3>1, <3>2, FS_Subset
  <2>2. \A i \in 1 .. n : /\ a[i] \in Int /\ l[i] \in Nat
                          /\ i \in T => l[i] \in Nat \ {0}
                          /\ i \notin T => a[i] = 0 /\ l[i] = 0
    BY <1>3, <1>4, <1>5, SumType
  <2>3. \E i \in T : \A j \in T : Beats(a, l, i, j)
    <3>1. \A i \in T : a[i] \in Int /\ l[i] \in Nat \ {0}
      BY <2>1, <2>2
    <3> QED BY <1>10, <2>1, <3>1, OneIsBest
  <2>4. best \subseteq T /\ best # {} /\ best \subseteq Int /\ IsFiniteSet(best)
    <3>1. best \subseteq T /\ best # {}
      BY <1>7, <2>3
    <3>2. best \subseteq Int
      BY <2>1, <3>1
    <3> QED BY <2>1, <3>1, <3>2, FS_Subset
  <2>5. Max(best) \in best
    BY <2>4, GreatestElement
  <2>6. PICK m \in 1 .. n : m = Max(best) /\ \A j \in T : Beats(a, l, m, j)
    BY <1>7, <2>1, <2>5
  <2>7. \A j \in 1 .. n : Beats(a, l, m, j)
    <3> TAKE j \in 1 .. n
    <3>1. CASE j \in T
      BY <2>6, <3>1
    <3>2. CASE j \notin T
      <4>1. a[j] = 0 /\ l[j] = 0 /\ a[m] \in Int /\ l[m] \in Nat
        BY <2>2, <3>2
      <4>2. PICK x \in Int, y \in Nat : x = a[m] /\ y = l[m]
        BY <4>1
      <4>3. 0 * y <= x * 0
        OBVIOUS
      <4> QED BY <4>1, <4>2, <4>3 DEF Beats
    <3> QED BY <3>1, <3>2
  <2>8. OptimizeThreshold(ls) = {Thresholds[m]}
    BY <1>8, <1>10, <2>6
  <2>9. ASSUME NEW u \in Range(Thresholds)
        PROVE  NoBetter(Returns(ls, u), Returns(ls, Thresholds[m]))
    <3>1. PICK j \in 1 .. n : u = Thresholds[j]
      BY <1>1 DEF Range
    <3>2. NoBetter(R[j], R[m])
      BY <1>6, <2>7
    <3> QED BY <1>3, <3>1, <3>2
  <2> QED BY <2>8, <2>9
<1> QED BY <1>9, <1>10

\* A slice of countable labels is countable.
LEMMA SliceIsCountable ==
  ASSUME NEW ls, Countable(ls), NEW a \in Nat \ {0}, NEW b \in Nat, b <= Len(ls)
  PROVE  Countable(SubSeq(ls, a, b))
<1>1. PICK S : ls \in Seq(S) /\ \A l \in S : l.returns[Horizon] \subseteq Int
  BY DEF Countable
<1>2. SubSeq(ls, a, b) \in Seq(S)
  BY <1>1
<1> QED BY <1>1, <1>2 DEF Countable

-----------------------------------------------------------------------------
(***************************************************************************)
(* Returns of many splits                                                  *)
(***************************************************************************)
\* Concatenation, one sequence after the other
LEMMA FlattenIs ==
  ASSUME NEW A, NEW s \in Seq(Seq(A)), NEW n \in Nat, n = Len(s)
  PROVE  /\ n = 0 => FlattenSeq(s) = <<>>
         /\ n # 0 => \E f : /\ FlattenSeq(s) = f[n]
                            /\ \A i \in 1 .. n : f[i] = IF i = 1 THEN s[i] ELSE f[i - 1] \o s[i]
<1>1. ASSUME n = 0 PROVE FlattenSeq(s) = <<>>
  <2>1. s = <<>>
    BY <1>1, EmptySeq
  <2>2. FlattenSeq(s) = s
    BY <1>1 DEF FlattenSeq
  <2> QED BY <2>1, <2>2
<1>2. ASSUME n # 0
      PROVE  \E f : /\ FlattenSeq(s) = f[n]
                    /\ \A i \in 1 .. n : f[i] = IF i = 1 THEN s[i] ELSE f[i - 1] \o s[i]
  <2> DEFINE F == CHOOSE f : Flats(f, s, n)
  <2>1. \E f : Flats(f, s, n)
    BY FlatExists, FlatsAt
  <2>2. Flats(F, s, n)
    BY <2>1
  <2>3. FlattenSeq(s) = F[n]
    BY <1>2 DEF FlattenSeq, Flats
  <2> HIDE DEF F
  <2>4. FlatAt(F, s, n)
    BY <2>2, FlatsAt
  <2>5. \A i \in 1 .. n : F[i] = IF i = 1 THEN s[i] ELSE F[i - 1] \o s[i]
    BY <2>4, Zenon DEF FlatAt
  <2> QED BY <2>3, <2>5
<1> QED BY <1>1, <1>2

\* The lengths of n sequences
Lengths(s, n) == [i \in 1 .. n |-> Len(s[i])]

\* The length of a concatenation is the sum of the lengths.
LEMMA FlattenLength ==
  ASSUME NEW A, NEW s \in Seq(Seq(A)), NEW n \in Nat, n = Len(s)
  PROVE  Len(FlattenSeq(s)) = SumOver(1 .. n, Lengths(s, n))
<1>1. PICK e : e = Lengths(s, n)
  OBVIOUS
<1>2. \A i \in 1 .. n : s[i] \in Seq(A) /\ e[i] = Len(s[i]) /\ e[i] \in Nat
  BY <1>1 DEF Lengths
<1>3. ASSUME NEW k \in 0 .. n
      PROVE  /\ k = 0 => SumOver(1 .. k, e) = 0
             /\ k # 0 => SumOver(1 .. k, e) = e[k] + SumOver(1 .. k - 1, e)
             /\ SumOver(1 .. k, e) \in Int
  <2>1. PICK S : S = 1 .. k
    OBVIOUS
  <2>2. IsFiniteSet(S) /\ IntegerOn(S, e)
    <3>1. IsFiniteSet(1 .. k)
      BY FS_Interval
    <3> QED BY <1>2, <2>1, <3>1 DEF IntegerOn
  <2>3. /\ SumOver(S, e) \in Int /\ (S = {} => SumOver(S, e) = 0)
        /\ \A x \in S : SumOver(S, e) = e[x] + SumOver(S \ {x}, e)
    BY <2>2, SumOverFacts
  <2>4. k = 0 => S = {}
    BY <2>1
  <2>5. k # 0 => k \in S /\ S \ {k} = 1 .. k - 1
    BY <2>1
  <2> QED BY <2>1, <2>3, <2>4, <2>5
<1>4. CASE n = 0
  <2>1. FlattenSeq(s) = <<>>
    BY <1>4, FlattenIs
  <2>2. SumOver(1 .. n, e) = 0
    BY <1>3, <1>4
  <2> QED BY <1>1, <2>1, <2>2
<1>5. CASE n # 0
  <2>1. PICK f : /\ FlattenSeq(s) = f[n]
                 /\ \A i \in 1 .. n : f[i] = IF i = 1 THEN s[i] ELSE f[i - 1] \o s[i]
    BY <1>5, FlattenIs
  <2> DEFINE T == {k \in 1 .. n : ~(f[k] \in Seq(A) /\ Len(f[k]) = SumOver(1 .. k, e))}
  <2>2. T = {}
    <3>1. SUFFICES ASSUME T # {} PROVE FALSE
      OBVIOUS
    <3>2. T \subseteq Nat
      OBVIOUS
    <3>3. PICK k \in T : \A j \in T : k <= j
      <4> HIDE DEF T
      <4> QED BY <3>1, <3>2, LeastElement
    <3>4. k \in 1 .. n /\ ~(f[k] \in Seq(A) /\ Len(f[k]) = SumOver(1 .. k, e))
      BY <3>3
    <3>5. k \in 0 .. n /\ k # 0
      BY <3>4
    <3>6. SumOver(1 .. k, e) = e[k] + SumOver(1 .. k - 1, e) /\ e[k] = Len(s[k]) /\ e[k] \in Nat
      BY <1>2, <1>3, <3>4, <3>5
    <3>7. CASE k = 1
      <4>1. f[k] = s[k] /\ s[k] \in Seq(A)
        BY <1>2, <2>1, <3>4, <3>7
      <4>2. SumOver(1 .. k - 1, e) = 0
        <5>1. k - 1 = 0 /\ 0 \in 0 .. n
          BY <3>7
        <5>2. SumOver(1 .. 0, e) = 0
          BY <1>3, <5>1
        <5> QED BY <5>1, <5>2
      <4> QED BY <3>4, <3>6, <4>1, <4>2
    <3>8. CASE k # 1
      <4>1. k - 1 \in 1 .. n /\ ~(k <= k - 1)
        BY <3>4, <3>8
      <4>2. f[k - 1] \in Seq(A) /\ Len(f[k - 1]) = SumOver(1 .. k - 1, e)
        BY <3>3, <4>1
      <4>3. f[k] = f[k - 1] \o s[k] /\ s[k] \in Seq(A)
        BY <1>2, <2>1, <3>4, <3>8
      <4>4. \A x, y \in Seq(A) : x \o y \in Seq(A) /\ Len(x \o y) = Len(x) + Len(y)
                                   /\ Len(x) \in Nat /\ Len(y) \in Nat
        OBVIOUS
      <4>5. PICK x \in Seq(A), y \in Seq(A) : x = f[k - 1] /\ y = s[k]
        BY <4>2, <4>3
      <4>6. f[k] \in Seq(A) /\ Len(f[k]) = Len(x) + Len(y) /\ Len(x) \in Nat /\ Len(y) \in Nat
        BY <4>3, <4>4, <4>5
      <4> QED BY <3>4, <3>6, <4>2, <4>5, <4>6
    <3> QED BY <3>7, <3>8
  <2>3. n \in 1 .. n
    BY <1>5
  <2> QED BY <1>1, <2>1, <2>2, <2>3
<1> QED BY <1>4, <1>5

\* Where no sequence is empty, their concatenation is empty only if there are none.
LEMMA FlattenEmpty ==
  ASSUME NEW A, NEW s \in Seq(Seq(A)), \A i \in DOMAIN s : s[i] # <<>>
  PROVE  FlattenSeq(s) = <<>> <=> s = <<>>
<1>1. PICK n \in Nat : n = Len(s) /\ DOMAIN s = 1 .. n
  OBVIOUS
<1>2. CASE n = 0
  <2>1. FlattenSeq(s) = <<>>
    BY <1>1, <1>2, FlattenIs
  <2>2. s = <<>>
    BY <1>1, <1>2, EmptySeq
  <2> QED BY <2>1, <2>2
<1>3. CASE n # 0
  <2>1. PICK e : e = Lengths(s, n)
    OBVIOUS
  <2>2. \A i \in 1 .. n : e[i] \in Nat /\ e[i] # 0
    <3>1. \A i \in 1 .. n : s[i] \in Seq(A) /\ s[i] # <<>> /\ e[i] = Len(s[i])
      BY <1>1, <2>1 DEF Lengths
    <3>2. \A x \in Seq(A) : x # <<>> => Len(x) \in Nat /\ Len(x) # 0
      BY EmptySeq
    <3> QED BY <3>1, <3>2
  <2>3. PICK S : S = 1 .. n
    OBVIOUS
  <2>4. IsFiniteSet(S) /\ IntegerOn(S, e) /\ 1 \in S
    <3>1. IsFiniteSet(1 .. n)
      BY FS_Interval
    <3> QED BY <1>3, <2>2, <2>3, <3>1 DEF IntegerOn
  <2>5. SumOver(S, e) = e[1] + SumOver(S \ {1}, e)
    BY <2>4, SumOverFacts
  <2>6. SumOver(S \ {1}, e) \in Nat
    <3>1. PICK R : R = S \ {1}
      OBVIOUS
    <3>2. IsFiniteSet(R) /\ \A k \in R : e[k] \in Nat
      BY <2>2, <2>3, <2>4, <3>1, FS_Subset
    <3> QED BY <3>1, <3>2, TotalNotNegative DEF SumOver
  <2>7. SumOver(S, e) # 0
    BY <2>2, <2>3, <2>4, <2>5, <2>6
  <2>8. Len(FlattenSeq(s)) = SumOver(S, e)
    BY <1>1, <2>1, <2>3, FlattenLength
  <2>9. FlattenSeq(s) # <<>>
    BY <2>7, <2>8
  <2>10. s # <<>>
    BY <1>1, <1>3
  <2> QED BY <2>9, <2>10
<1> QED BY <1>2, <1>3

\* Results whose returns are whole numbers
Traded(rs) == \E R : rs \in Seq(R) /\ \A r \in R : r.returns \in Seq(Int)

CountOf(rs, n) == [i \in 1 .. n |-> Len(rs[i].returns)]

\* All returns are as many as those of each result together.
LEMMA AllReturnsAre ==
  ASSUME NEW rs, Traded(rs), NEW n \in Nat, n = Len(rs)
  PROVE  /\ AllReturns(rs) \in Seq(Int)
         /\ Len(AllReturns(rs)) = SumOver(1 .. n, CountOf(rs, n))
<1>1. PICK R : rs \in Seq(R) /\ \A r \in R : r.returns \in Seq(Int)
  BY DEF Traded
<1>2. DOMAIN rs = 1 .. n /\ \A i \in 1 .. n : rs[i].returns \in Seq(Int)
  BY <1>1
<1>3. PICK s : s = [i \in 1 .. n |-> rs[i].returns]
  OBVIOUS
<1>4. s \in Seq(Seq(Int)) /\ Len(s) = n
  <2>1. s \in [1 .. n -> Seq(Int)]
    BY <1>2, <1>3
  <2> QED BY <2>1
<1>5. AllReturns(rs) = FlattenSeq(s)
  BY <1>2, <1>3 DEF AllReturns
<1>6. Lengths(s, n) = CountOf(rs, n)
  BY <1>3 DEF Lengths, CountOf
<1> QED BY <1>4, <1>5, <1>6, FlattenType, FlattenLength

\* Where every result has a return there are none only if there are no results.
LEMMA NoReturns ==
  ASSUME NEW rs, Traded(rs), \A i \in DOMAIN rs : rs[i].returns # <<>>
  PROVE  AllReturns(rs) = <<>> <=> rs = <<>>
<1>1. PICK R : rs \in Seq(R) /\ \A r \in R : r.returns \in Seq(Int)
  BY DEF Traded
<1>2. PICK n \in Nat : n = Len(rs) /\ DOMAIN rs = 1 .. n
  BY <1>1
<1>3. PICK s : s = [i \in 1 .. n |-> rs[i].returns]
  OBVIOUS
<1>4. s \in [1 .. n -> Seq(Int)]
  BY <1>1, <1>2, <1>3
<1>5. s \in Seq(Seq(Int)) /\ Len(s) = n /\ DOMAIN s = 1 .. n
  BY <1>4
<1>6. \A i \in DOMAIN s : s[i] # <<>>
  BY <1>2, <1>3, <1>5
<1>7. FlattenSeq(s) = <<>> <=> s = <<>>
  BY <1>5, <1>6, FlattenEmpty
<1>8. s = <<>> <=> rs = <<>>
  BY <1>1, <1>2, <1>5, EmptySeq
<1>9. AllReturns(rs) = FlattenSeq(s)
  BY <1>2, <1>3 DEF AllReturns
<1> QED BY <1>7, <1>8, <1>9

RegimesOf(rs) == {rs[i].regime : i \in DOMAIN rs}
Matching(rs, g) == Only(rs, {r \in Range(rs) : r.regime = g})

\* The results of a regime have the returns of that regime.
LEMMA RegimeReturns ==
  ASSUME NEW rs, Traded(rs), NEW n \in Nat, n = Len(rs), NEW g,
         NEW c, c = [i \in 1 .. n |-> rs[i].regime]
  PROVE  Len(AllReturns(Matching(rs, g))) = SumOver(OfKind(1 .. n, c, g), CountOf(rs, n))
<1>1. PICK R : rs \in Seq(R) /\ \A r \in R : r.returns \in Seq(Int)
  BY DEF Traded
<1>2. PICK G : G = {r \in Range(rs) : r.regime = g}
  OBVIOUS
<1>3. PICK ms : ms = Only(rs, G)
  OBVIOUS
<1>4. ms \in Seq(R)
  BY <1>1, <1>3, OnlyType
<1>5. PICK p : Picks(p, ms, rs, G, n)
  BY <1>1, <1>3, OnlyPicks
<1>6. PICK m \in Nat : m = Len(ms)
  BY <1>4
<1>7. Traded(ms)
  BY <1>1, <1>4 DEF Traded
<1>8. Len(AllReturns(ms)) = SumOver(1 .. m, CountOf(ms, m))
  BY <1>6, <1>7, AllReturnsAre
<1>9. PICK S : S = 1 .. m
  OBVIOUS
<1>10. \A k \in S : p[k] \in 1 .. n /\ ms[k] = rs[p[k]] /\ rs[p[k]] \in G
  BY <1>5, <1>6, <1>9 DEF Picks
<1>11. OneToOne(p, S)
  <2>1. \A k, l \in S : k < l => p[k] < p[l]
    BY <1>5, <1>6, <1>9 DEF Picks
  <2>2. \A k \in S : p[k] \in Int
    BY <1>10
  <2>3. \A k, l \in S : k = l \/ k < l \/ l < k
    BY <1>9
  <2>4. ASSUME NEW k \in S, NEW l \in S, p[k] = p[l] PROVE k = l
    BY <2>1, <2>2, <2>3, <2>4
  <2> QED BY <2>4 DEF OneToOne
<1>12. PICK e : e = CountOf(rs, n)
  OBVIOUS
<1>13. \A i \in 1 .. n : e[i] = Len(rs[i].returns) /\ e[i] \in Int
  <2>1. \A i \in 1 .. n : rs[i].returns \in Seq(Int)
    BY <1>1
  <2> QED BY <1>12, <2>1 DEF CountOf
<1>14. ImageOf(p, S) = OfKind(1 .. n, c, g)
  <2>1. \A i \in 1 .. n : i \in ImageOf(p, S) <=> rs[i] \in G
    <3>1. \A i \in 1 .. n : rs[i] \in G => \E k \in S : p[k] = i
      BY <1>5, <1>6, <1>9 DEF Picks
    <3> QED BY <1>10, <3>1 DEF ImageOf
  <2>2. \A i \in 1 .. n : rs[i] \in G <=> c[i] = g
    BY <1>1, <1>2 DEF Range
  <2>3. ImageOf(p, S) \subseteq 1 .. n
    BY <1>10 DEF ImageOf
  <2> QED BY <2>1, <2>2, <2>3 DEF OfKind
<1>15. PICK f : f = CountOf(ms, m)
  OBVIOUS
<1>16. \A k \in S : f[k] = e[p[k]]
  BY <1>9, <1>10, <1>13, <1>15 DEF CountOf
<1>17. IsFiniteSet(S) /\ IntegerOn(ImageOf(p, S), e)
  <2>1. IsFiniteSet(1 .. m)
    BY FS_Interval
  <2> QED BY <1>9, <1>10, <1>13, <2>1 DEF IntegerOn, ImageOf
<1>18. SumOver(S, f) = SumOver(ImageOf(p, S), e)
  BY <1>11, <1>16, <1>17, SumRenumbered
<1> QED BY <1>2, <1>3, <1>8, <1>9, <1>12, <1>14, <1>15, <1>18 DEF Matching

\* The regimes share out the trades of all results.
LEMMA RegimesShare ==
  ASSUME NEW rs, Traded(rs), NEW f, f = RegimeResults(rs)
  PROVE  Len(AllReturns(rs)) = Total([g \in DOMAIN f |-> f[g].trades])
<1>1. PICK R : rs \in Seq(R) /\ \A r \in R : r.returns \in Seq(Int)
  BY DEF Traded
<1>2. PICK n \in Nat : n = Len(rs) /\ DOMAIN rs = 1 .. n
  BY <1>1
<1>3. PICK c, K, e : /\ c = [i \in 1 .. n |-> rs[i].regime] /\ K = RegimesOf(rs)
                     /\ e = CountOf(rs, n)
  OBVIOUS
<1>4. Len(AllReturns(rs)) = SumOver(1 .. n, e)
  BY <1>2, <1>3, AllReturnsAre
<1>5. DOMAIN f = K /\ \A g \in K : f[g].trades = Len(AllReturns(Matching(rs, g)))
  BY <1>3 DEF RegimeResults, RegimesOf, Matching
<1>6. \A g \in K : f[g].trades = SumOver(OfKind(1 .. n, c, g), e)
  BY <1>2, <1>3, <1>5, RegimeReturns
<1>7. [g \in DOMAIN f |-> f[g].trades] = ByKind(1 .. n, c, e, K)
  BY <1>5, <1>6 DEF ByKind
<1>8. K = {c[i] : i \in 1 .. n}
  BY <1>2, <1>3 DEF RegimesOf
<1>9. IsFiniteSet(1 .. n) /\ IsFiniteSet(K)
  <2>1. IsFiniteSet(1 .. n)
    BY FS_Interval
  <2> QED BY <1>8, <2>1, FiniteImage
<1>10. IntegerOn(1 .. n, e)
  <2>1. \A i \in 1 .. n : rs[i].returns \in Seq(Int)
    BY <1>1, <1>2
  <2> QED BY <1>3, <2>1 DEF CountOf, IntegerOn
<1>11. \A i \in 1 .. n : c[i] \in K
  BY <1>8
<1>12. SumOver(1 .. n, e) = Total(ByKind(1 .. n, c, e, K))
  BY <1>9, <1>10, <1>11, SumByKind
<1> QED BY <1>4, <1>7, <1>12

-----------------------------------------------------------------------------
(***************************************************************************)
(* The drawdown                                                            *)
(***************************************************************************)
NoStatistics == [trades |-> 0, wins |-> 0, total |-> 0, peak |-> 0, drawdown |-> 0]
\* One turn of the loop of Statistics
Counted(s, k, r) ==
  LET equity == s.total + r
      peak == Max({s.peak, equity})
  IN [trades |-> k, wins |-> s.wins + (IF r > 0 THEN 1 ELSE 0),
      total |-> equity, peak |-> peak,
      drawdown |-> Max({s.drawdown, peak - equity})]

\* f[k] is what the loop knows after the first k of n returns.
CountsUp(f, rs, n) ==
  f = [k \in 0 .. n |-> IF k = 0 THEN NoStatistics ELSE Counted(f[k - 1], k, rs[k])]
CountsAt(f, rs, n) ==
  /\ f = [k \in 0 .. n |-> f[k]]
  /\ f[0] = NoStatistics
  /\ \A k \in 1 .. n : f[k] = Counted(f[k - 1], k, rs[k])

\* The loop as a function, by its values
LEMMA CountsIs ==
  ASSUME NEW n \in Nat, NEW rs, NEW f
  PROVE  CountsUp(f, rs, n) <=> CountsAt(f, rs, n)
<1> DEFINE b == [k \in 0 .. n |-> IF k = 0 THEN NoStatistics ELSE Counted(f[k - 1], k, rs[k])]
<1>1. /\ b = [k \in 0 .. n |-> b[k]] /\ b[0] = NoStatistics
      /\ \A k \in 1 .. n : b[k] = Counted(f[k - 1], k, rs[k])
      /\ \A k \in 0 .. n : k = 0 \/ k \in 1 .. n
  OBVIOUS
<1>2. ASSUME CountsAt(f, rs, n) PROVE f = b
  <2> HIDE DEF b
  <2>1. \A k \in 0 .. n : f[k] = b[k]
    BY <1>1, <1>2, Zenon DEF CountsAt
  <2>2. [k \in 0 .. n |-> f[k]] = [k \in 0 .. n |-> b[k]]
    BY <2>1
  <2> QED BY <1>1, <1>2, <2>2, Zenon DEF CountsAt
<1>3. CountsUp(f, rs, n) <=> f = b
  BY DEF CountsUp
<1>4. ASSUME f = b PROVE CountsAt(f, rs, n)
  <2> HIDE DEF b
  <2> QED BY <1>1, <1>4, Zenon DEF CountsAt
<1> QED BY <1>2, <1>3, <1>4

\* The loop can go on by one return more.
LEMMA CountsGrow ==
  ASSUME NEW n \in Nat, NEW rs, NEW f, CountsAt(f, rs, n)
  PROVE  \E g : CountsAt(g, rs, n + 1)
<1> DEFINE v == Counted(f[n], n + 1, rs[n + 1])
           g == [k \in 0 .. n + 1 |-> IF k = n + 1 THEN v ELSE f[k]]
<1>1. /\ g = [k \in 0 .. n + 1 |-> g[k]] /\ g[n + 1] = v
      /\ \A k \in 0 .. n : g[k] = f[k]
  OBVIOUS
<1> HIDE DEF g
<1>2. g[0] = NoStatistics
  <2>1. 0 \in 0 .. n
    OBVIOUS
  <2> QED BY <1>1, <2>1, Zenon DEF CountsAt
<1>3. ASSUME NEW k \in 1 .. n + 1 PROVE g[k] = Counted(g[k - 1], k, rs[k])
  <2> HIDE DEF v
  <2>1. k - 1 \in 0 .. n
    OBVIOUS
  <2>2. g[k - 1] = f[k - 1]
    BY <1>1, <2>1
  <2>3. CASE k = n + 1
    <3>1. k - 1 = n /\ g[k] = v
      BY <1>1, <2>3
    <3>2. v = Counted(f[n], n + 1, rs[n + 1])
      BY DEF v
    <3> QED BY <2>2, <2>3, <3>1, <3>2, Zenon
  <2>4. CASE k # n + 1
    <3>1. k \in 1 .. n /\ k \in 0 .. n
      BY <2>4
    <3>2. g[k] = f[k] /\ f[k] = Counted(f[k - 1], k, rs[k])
      BY <1>1, <3>1, Zenon DEF CountsAt
    <3> QED BY <2>2, <3>2, Zenon
  <2> QED BY <2>3, <2>4
<1>4. CountsAt(g, rs, n + 1)
  BY <1>1, <1>2, <1>3, Zenon DEF CountsAt
<1> QED BY <1>4

\* The loop goes through any number of returns.
LEMMA CountsExist == ASSUME NEW n \in Nat, NEW rs PROVE \E f : CountsAt(f, rs, n)
<1> DEFINE T == {k \in Nat : ~ \E f : CountsAt(f, rs, k)}
<1>1. SUFFICES ASSUME T # {} PROVE FALSE
  OBVIOUS
<1>2. PICK k \in T : \A j \in T : k <= j
  <2>1. T \subseteq Nat
    OBVIOUS
  <2> HIDE DEF T
  <2> QED BY <1>1, <2>1, LeastElement
<1>3. k \in Nat /\ ~ \E f : CountsAt(f, rs, k)
  BY <1>2
<1>4. k # 0
  <2> DEFINE g == [i \in 0 .. 0 |-> NoStatistics]
  <2>1. /\ g = [i \in 0 .. 0 |-> g[i]] /\ g[0] = NoStatistics
        /\ \A i : i \notin 1 .. 0
    OBVIOUS
  <2> HIDE DEF g
  <2>2. CountsAt(g, rs, 0)
    BY <2>1, Zenon DEF CountsAt
  <2> QED BY <1>3, <2>2
<1>5. PICK m \in Nat : k = m + 1
  <2>1. k - 1 \in Nat /\ k = (k - 1) + 1
    BY <1>3, <1>4
  <2> QED BY <2>1
<1>6. ~(k <= m)
  BY <1>5
<1>7. PICK g : CountsAt(g, rs, m)
  BY <1>2, <1>6
<1> QED BY <1>3, <1>5, <1>7, CountsGrow

\* The greater of two numbers
LEMMA MaxOfTwo ==
  ASSUME NEW x \in Int, NEW y \in Int
  PROVE  /\ Max({x, y}) \in {x, y} /\ Max({x, y}) \in Int
         /\ Max({x, y}) >= x /\ Max({x, y}) >= y
<1>1. \E z \in {x, y} : \A u \in {x, y} : z >= u
  <2>1. x >= y \/ y >= x
    OBVIOUS
  <2>2. CASE x >= y
    BY <2>2
  <2>3. CASE y >= x
    BY <2>3
  <2> QED BY <2>1, <2>2, <2>3
<1>2. PICK m : m = Max({x, y})
  OBVIOUS
<1>3. m \in {x, y} /\ \A u \in {x, y} : m >= u
  BY <1>1, <1>2 DEF Max
<1> QED BY <1>2, <1>3

\* s is true of the first k running totals.
StatOf(s, q, k) ==
  /\ s.total = q[k] /\ q[k] \in Int
  /\ \E i \in 0 .. k : s.peak = q[i]
  /\ \A i \in 0 .. k : q[i] \in Int /\ q[i] <= s.peak
  /\ \E i, j \in 0 .. k : i <= j /\ s.drawdown = q[i] - q[j]
  /\ \A i, j \in 0 .. k : i <= j => q[i] - q[j] <= s.drawdown

\* Before the first return
LEMMA StatStart ==
  ASSUME NEW q, q[0] = 0
  PROVE  StatOf(NoStatistics, q, 0)
  BY DEF StatOf, NoStatistics

\* One return more: the deepest fall is an earlier one or ends here.
LEMMA StatStep ==
  ASSUME NEW k \in Nat, NEW q, NEW s, StatOf(s, q, k), NEW r \in Int, q[k + 1] = q[k] + r
  PROVE  StatOf(Counted(s, k + 1, r), q, k + 1)
<1>1. PICK e \in Int, p \in Int, d \in Int : e = q[k + 1] /\ p = s.peak /\ d = s.drawdown
  BY DEF StatOf
<1>2. PICK o \in Int : o = Max({p, e}) /\ o \in {p, e} /\ o >= p /\ o >= e
  BY MaxOfTwo
<1>3. PICK z \in Int : z = o - e
  OBVIOUS
<1>31. PICK c \in Int : c = Max({d, z}) /\ c \in {d, z} /\ c >= d /\ c >= z
  BY MaxOfTwo
<1>4. PICK t : t = Counted(s, k + 1, r)
  OBVIOUS
<1>5. t.total = e /\ t.peak = o /\ t.drawdown = c
  <2>1. s.total + r = e
    BY <1>1 DEF StatOf
  <2> QED BY <1>1, <1>2, <1>3, <1>31, <1>4, <2>1 DEF Counted
<1>6. \A i \in 0 .. k + 1 : i \in 0 .. k \/ i = k + 1
  OBVIOUS
<1>7. \A i \in 0 .. k : i \in 0 .. k + 1 /\ i <= k + 1
  OBVIOUS
<1>8. k + 1 \in 0 .. k + 1
  OBVIOUS
<1>9. \A i \in 0 .. k + 1 : q[i] \in Int /\ q[i] <= o
  <2>1. \A i \in 0 .. k : q[i] \in Int /\ q[i] <= p
    BY <1>1 DEF StatOf
  <2> QED BY <1>1, <1>2, <1>6, <2>1
<1>10. \E i \in 0 .. k + 1 : o = q[i]
  <2>1. \E i \in 0 .. k : p = q[i]
    BY <1>1 DEF StatOf
  <2> QED BY <1>1, <1>2, <1>7, <1>8, <2>1
<1>11. \E i, j \in 0 .. k + 1 : i <= j /\ c = q[i] - q[j]
  <2>1. CASE c = d
    <3>1. \E i, j \in 0 .. k : i <= j /\ d = q[i] - q[j]
      BY <1>1 DEF StatOf
    <3> QED BY <1>7, <2>1, <3>1
  <2>2. CASE c = z
    <3>1. PICK i \in 0 .. k + 1 : o = q[i]
      BY <1>10
    <3>2. i <= k + 1 /\ c = q[i] - q[k + 1]
      BY <1>1, <1>3, <2>2, <3>1
    <3> QED BY <1>8, <3>2
  <2> QED BY <1>31, <2>1, <2>2
<1>12. ASSUME NEW i \in 0 .. k + 1, NEW j \in 0 .. k + 1, i <= j PROVE q[i] - q[j] <= c
  <2>1. CASE j = k + 1
    <3>1. q[i] - q[j] <= o - e
      BY <1>1, <1>9, <2>1
    <3> QED BY <1>1, <1>3, <1>31, <1>9, <3>1
  <2>2. CASE j # k + 1
    <3>1. i \in 0 .. k /\ j \in 0 .. k
      BY <1>12, <2>2
    <3>2. q[i] - q[j] <= d
      BY <1>1, <1>12, <3>1 DEF StatOf
    <3> QED BY <1>31, <1>9, <3>2
  <2> QED BY <2>1, <2>2
<1> QED BY <1>1, <1>4, <1>5, <1>9, <1>10, <1>11, <1>12 DEF StatOf

\* The drawdown of the statistics is the deepest fall of the running total.
LEMMA DrawdownIsDeepest ==
  ASSUME NEW rs \in Seq(Int)
  PROVE  Statistics(rs).drawdown = DeepestFall(rs)
<1>1. PICK n \in Nat : n = Len(rs)
  OBVIOUS
<1>2. \A k \in 1 .. n : rs[k] \in Int
  BY <1>1
<1> DEFINE F == CHOOSE f : CountsUp(f, rs, n)
<1>3. CountsUp(F, rs, n)
  BY CountsExist, CountsIs
<1>4. Statistics(rs) = F[n]
  BY <1>1 DEF Statistics, CountsUp, Counted, NoStatistics
<1> HIDE DEF F
<1>5. PICK f : f = F
  OBVIOUS
<1>6. f[0] = NoStatistics /\ \A k \in 1 .. n : f[k] = Counted(f[k - 1], k, rs[k])
  <2>1. CountsUp(f, rs, n)
    BY <1>3, <1>5
  <2>2. CountsAt(f, rs, n)
    BY <2>1, CountsIs
  <2> QED BY <2>2, Zenon DEF CountsAt
<1> DEFINE Q == CHOOSE q : q = [k \in 0 .. n |-> IF k = 0 THEN 0 ELSE q[k - 1] + rs[k]]
           S(q) == {q[p[1]] - q[p[2]] : p \in {x \in (0 .. n) \X (0 .. n) : x[1] <= x[2]}}
<1>7. DeepestFall(rs) = Max(S(Q))
  BY <1>1 DEF DeepestFall
<1>8. Q = [k \in 0 .. n |-> IF k = 0 THEN 0 ELSE Q[k - 1] + rs[k]]
  <2> DEFINE w == [k \in 0 .. n |-> f[k].total]
  <2>1. \A k \in 0 .. n : w[k] = f[k].total
    OBVIOUS
  <2>2. \A k \in 0 .. n : w[k] = IF k = 0 THEN 0 ELSE w[k - 1] + rs[k]
    <3> TAKE k \in 0 .. n
    <3>1. CASE k = 0
      <4>1. f[0].total = 0
        BY <1>6 DEF NoStatistics
      <4> QED BY <2>1, <3>1, <4>1
    <3>2. CASE k # 0
      <4>1. k \in 1 .. n /\ k - 1 \in 0 .. n
        BY <3>2
      <4>2. f[k].total = f[k - 1].total + rs[k]
        <5>1. PICK s, r : s = f[k - 1] /\ r = rs[k]
          OBVIOUS
        <5>2. Counted(s, k, r).total = s.total + r
          BY DEF Counted
        <5>3. f[k] = Counted(s, k, r)
          BY <1>6, <4>1, <5>1
        <5> QED BY <5>1, <5>2, <5>3
      <4> HIDE DEF w
      <4>3. w[k] = f[k].total /\ w[k - 1] = f[k - 1].total
        BY <2>1, <4>1
      <4> QED BY <3>2, <4>2, <4>3
    <3> QED BY <3>1, <3>2
  <2>3. w = [k \in 0 .. n |-> w[k]]
    OBVIOUS
  <2> HIDE DEF w
  <2>4. [k \in 0 .. n |-> w[k]] = [k \in 0 .. n |-> IF k = 0 THEN 0 ELSE w[k - 1] + rs[k]]
    BY <2>2
  <2>5. w = [k \in 0 .. n |-> IF k = 0 THEN 0 ELSE w[k - 1] + rs[k]]
    BY <2>3, <2>4, Zenon
  <2> QED BY <2>5
<1> HIDE DEF Q
<1>9. PICK q : q = Q
  OBVIOUS
<1>10. q[0] = 0 /\ \A k \in 1 .. n : q[k] = q[k - 1] + rs[k]
  <2>1. PICK b : b = [k \in 0 .. n |-> IF k = 0 THEN 0 ELSE q[k - 1] + rs[k]]
    OBVIOUS
  <2>2. b[0] = 0 /\ \A k \in 1 .. n : b[k] = q[k - 1] + rs[k]
    BY <2>1
  <2>3. q = b
    BY <1>8, <1>9, <2>1, Zenon
  <2> QED BY <2>2, <2>3, Zenon
<1> DEFINE T == {k \in 0 .. n : ~StatOf(f[k], q, k)}
<1>11. T = {}
  <2>1. SUFFICES ASSUME T # {} PROVE FALSE
    OBVIOUS
  <2>2. T \subseteq Nat
    OBVIOUS
  <2>3. PICK k \in T : \A j \in T : k <= j
    <3> HIDE DEF T
    <3> QED BY <2>1, <2>2, LeastElement
  <2>4. k \in 0 .. n /\ ~StatOf(f[k], q, k)
    BY <2>3
  <2>5. k # 0
    BY <1>6, <1>10, <2>4, StatStart
  <2>6. PICK m \in 0 .. n : k = m + 1
    <3>1. k - 1 \in 0 .. n /\ k = (k - 1) + 1
      BY <2>4, <2>5
    <3> QED BY <3>1
  <2>7. StatOf(f[m], q, m)
    <3>1. ~(k <= m)
      BY <2>6
    <3> QED BY <2>3, <3>1
  <2>8. k \in 1 .. n /\ k - 1 = m
    BY <2>4, <2>5, <2>6
  <2>9. f[k] = Counted(f[m], k, rs[k]) /\ q[k] = q[m] + rs[k] /\ rs[k] \in Int
    BY <1>2, <1>6, <1>10, <2>8
  <2>10. PICK s, r : s = f[m] /\ r = rs[k]
    OBVIOUS
  <2>11. StatOf(Counted(s, m + 1, r), q, m + 1)
    <3>1. m \in Nat /\ StatOf(s, q, m) /\ r \in Int /\ q[m + 1] = q[m] + r
      BY <2>6, <2>7, <2>9, <2>10
    <3> QED BY <3>1, StatStep
  <2> QED BY <2>4, <2>6, <2>9, <2>10, <2>11
<1>12. StatOf(f[n], q, n)
  BY <1>11
<1>13. PICK d : d = f[n].drawdown
  OBVIOUS
<1>14. /\ \A i \in 0 .. n : q[i] \in Int
       /\ \E i, j \in 0 .. n : i <= j /\ d = q[i] - q[j]
       /\ \A i, j \in 0 .. n : i <= j => q[i] - q[j] <= d
  BY <1>12, <1>13 DEF StatOf
<1>15. PICK Z : Z = S(q)
  OBVIOUS
<1>16. /\ \A y : y \in Z <=> \E i, j \in 0 .. n : i <= j /\ y = q[i] - q[j]
  <2>1. ASSUME NEW i \in 0 .. n, NEW j \in 0 .. n, i <= j PROVE q[i] - q[j] \in Z
    <3>1. PICK p : p = <<i, j>>
      OBVIOUS
    <3>2. p \in {x \in (0 .. n) \X (0 .. n) : x[1] <= x[2]} /\ p[1] = i /\ p[2] = j
      BY <2>1, <3>1
    <3> QED BY <1>15, <3>2
  <2>2. ASSUME NEW y \in Z PROVE \E i, j \in 0 .. n : i <= j /\ y = q[i] - q[j]
    <3>1. PICK p \in (0 .. n) \X (0 .. n) : p[1] <= p[2] /\ y = q[p[1]] - q[p[2]]
      BY <1>15, <2>2
    <3>2. p[1] \in 0 .. n /\ p[2] \in 0 .. n
      BY <3>1
    <3> QED BY <3>1, <3>2
  <2> QED BY <2>1, <2>2
<1>17. d \in Z /\ d \in Int /\ \A y \in Z : y \in Int /\ y <= d
  BY <1>14, <1>16
<1>18. Max(Z) = d
  <2>1. \A y \in Z : d >= y
    BY <1>17
  <2>2. \A x \in Z : (\A y \in Z : x >= y) => x = d
    BY <1>17
  <2> QED BY <1>17, <2>1, <2>2 DEF Max
<1> QED BY <1>4, <1>5, <1>7, <1>9, <1>13, <1>15, <1>18

-----------------------------------------------------------------------------
(***************************************************************************)
(* The regime scan                                                         *)
(***************************************************************************)
\* The windows start a step apart.
LEMMA WindowStarts ==
  ASSUME NEW n \in Nat \ {0}, NEW m \in Nat, n <= m
  PROVE  /\ (n - 1) * ScanStep \in Nat /\ m * ScanStep \in Nat
         /\ m * ScanStep = (n - 1) * ScanStep + ScanStep * (m - n + 1)
         /\ (n - 1) * ScanStep <= m * ScanStep /\ n - 1 <= (n - 1) * ScanStep
<1>1. PICK s \in Nat \ {0} : s = ScanStep
  BY ResearchAssumption
<1>2. PICK a \in Nat, d \in Nat : n = a + 1 /\ m = a + d + 1
  <2>1. n - 1 \in Nat /\ m - n \in Nat /\ n = (n - 1) + 1 /\ m = (n - 1) + (m - n) + 1
    OBVIOUS
  <2> QED BY <2>1
<1>3. /\ a * s \in Nat /\ d * s \in Nat /\ s * (d + 1) = d * s + s
      /\ (a + d + 1) * s = a * s + d * s + s /\ a <= a * s
  <2>1. a * s \in Nat /\ d * s \in Nat
    BY <1>1, <1>2
  <2>2. s * (d + 1) = d * s + s /\ (a + d + 1) * s = a * s + d * s + s
    BY <1>1, <1>2
  <2>3. PICK b \in Nat : s = b + 1
    <3>1. s - 1 \in Nat /\ s = (s - 1) + 1
      BY <1>1
    <3> QED BY <3>1
  <2>4. a * s = a * b + a /\ a * b \in Nat
    BY <1>2, <2>3
  <2> QED BY <1>2, <2>1, <2>2, <2>4
<1>4. n - 1 = a /\ m - n + 1 = d + 1
  BY <1>2
<1> QED BY <1>1, <1>2, <1>3, <1>4

\* Positions of the first n in a set that has all smaller ones
LEMMA FirstPositions ==
  ASSUME NEW N \in Nat, NEW D, D \subseteq 1 .. N,
         \A m \in D : \A k \in 1 .. N : k <= m => k \in D
  PROVE  \E M \in 0 .. N : D = 1 .. M
<1>1. CASE D = {}
  <2>1. D = 1 .. 0 /\ 0 \in 0 .. N
    BY <1>1
  <2> QED BY <2>1
<1>2. CASE D # {}
  <2>1. IsFiniteSet(D)
    <3>1. IsFiniteSet(1 .. N)
      BY FS_Interval
    <3> QED BY <3>1, FS_Subset
  <2>2. D \subseteq Int
    OBVIOUS
  <2>3. Max(D) \in D /\ \A y \in D : y <= Max(D)
    BY <1>2, <2>1, <2>2, GreatestElement
  <2>4. PICK M \in D : \A y \in D : y <= M
    BY <2>3
  <2>5. M \in 0 .. N /\ \A k \in 1 .. M : k \in 1 .. N /\ k <= M
    BY <2>4
  <2>6. \A k \in 1 .. M : k \in D
    BY <2>5
  <2>7. \A y \in D : y \in 1 .. N /\ y <= M
    BY <2>4
  <2>8. \A y \in D : y \in 1 .. M
    BY <2>5, <2>7
  <2>9. D = 1 .. M
    BY <2>6, <2>8
  <2> QED BY <2>5, <2>9
<1> QED BY <1>1, <1>2

\* The windows that fit into N prices
Fitting(N) == {m \in 1 .. N : (m - 1) * ScanStep + ScanWindow <= N}

\* They are the first few, and what is behind the last is less than a step.
LEMMA FittingWindows ==
  ASSUME NEW N \in Nat
  PROVE  \E M \in 0 .. N : Fitting(N) = 1 .. M /\ N < M * ScanStep + ScanWindow
<1>1. PICK D : D = Fitting(N)
  OBVIOUS
<1>2. ScanWindow \in Nat \ {0}
  BY ResearchAssumption
<1>3. ASSUME NEW m \in D, NEW k \in 1 .. N, k <= m PROVE k \in D
  <2>1. m \in 1 .. N /\ (m - 1) * ScanStep + ScanWindow <= N
    BY <1>1 DEF Fitting
  <2>2. (k - 1) * ScanStep \in Nat /\ (m - 1) * ScanStep \in Nat
        /\ (k - 1) * ScanStep <= (m - 1) * ScanStep
    <3>1. CASE k = m
      <4>1. (m - 1) * ScanStep \in Nat
        BY <2>1, WindowStarts
      <4> QED BY <3>1, <4>1
    <3>2. CASE k # m
      <4>1. PICK a \in Nat : a = m - 1 /\ k <= a
        BY <1>3, <2>1, <3>2
      <4>2. (k - 1) * ScanStep \in Nat /\ a * ScanStep \in Nat /\ (k - 1) * ScanStep <= a * ScanStep
        BY <4>1, WindowStarts
      <4> QED BY <4>1, <4>2
    <3> QED BY <3>1, <3>2
  <2>3. PICK x \in Nat, y \in Nat : x = (k - 1) * ScanStep /\ y = (m - 1) * ScanStep /\ x <= y
    BY <2>2
  <2>4. x + ScanWindow <= N
    BY <1>2, <2>1, <2>3
  <2> QED BY <1>1, <2>3, <2>4 DEF Fitting
<1>4. D \subseteq 1 .. N
  BY <1>1 DEF Fitting
<1>5. PICK M \in 0 .. N : D = 1 .. M
  BY <1>3, <1>4, FirstPositions
<1>6. N < M * ScanStep + ScanWindow
  <2>1. PICK z : z = M * ScanStep
    OBVIOUS
  <2>2. CASE M = N
    <3>1. CASE N = 0
      <4>1. z = 0
        BY <2>1, <2>2, <3>1, ResearchAssumption
      <4> QED BY <1>2, <2>1, <3>1, <4>1
    <3>2. CASE N # 0
      <4>1. PICK n \in Nat \ {0} : n = N + 1
        OBVIOUS
      <4>2. n - 1 <= (n - 1) * ScanStep /\ (n - 1) * ScanStep \in Nat
        BY WindowStarts
      <4>3. n - 1 = M
        BY <2>2, <4>1
      <4>4. M <= z /\ z \in Nat
        BY <2>1, <4>2, <4>3
      <4> QED BY <1>2, <2>1, <2>2, <4>4
    <3> QED BY <3>1, <3>2
  <2>3. CASE M # N
    <3>1. M + 1 \in 1 .. N /\ M + 1 \notin 1 .. M /\ M + 1 - 1 = M
      BY <2>3
    <3>2. M + 1 \notin Fitting(N)
      BY <1>1, <1>5, <3>1
    <3>3. ~(z + ScanWindow <= N)
      BY <2>1, <3>1, <3>2 DEF Fitting
    <3>4. z \in Nat
      BY <2>1, ResearchAssumption
    <3> QED BY <1>2, <2>1, <3>3, <3>4
  <2> QED BY <2>2, <2>3
<1> QED BY <1>1, <1>5, <1>6

\* In prices by time, those later than number e stand behind it.
LEMMA LaterBehind ==
  ASSUME NEW ps \in Seq(PriceSample), InTime(ps), NEW N \in Nat, N = Len(ps), NEW e \in 1 .. N
  PROVE  Cardinality({i \in DOMAIN ps : ps[i].ts > ps[e].ts}) <= N - e
<1>1. PICK S : S = {i \in DOMAIN ps : ps[i].ts > ps[e].ts}
  OBVIOUS
<1>2. DOMAIN ps = 1 .. N /\ \A i \in 1 .. N : ps[i].ts \in Nat
  <2>1. \A i \in 1 .. N : ps[i] \in PriceSample
    OBVIOUS
  <2> QED BY <2>1 DEF PriceSample
<1>3. S \subseteq e + 1 .. N
  <2>1. ASSUME NEW i \in S PROVE i \in e + 1 .. N
    <3>1. i \in 1 .. N /\ ps[i].ts > ps[e].ts
      BY <1>1, <1>2
    <3>2. i # e
      BY <1>2, <3>1
    <3>3. ~(i < e)
      <4>1. SUFFICES ASSUME i < e PROVE FALSE
        OBVIOUS
      <4>2. ps[i].ts <= ps[e].ts
        BY <1>2, <3>1, <4>1 DEF InTime
      <4> QED BY <1>2, <3>1, <4>2
    <3> QED BY <3>1, <3>2, <3>3
  <2> QED BY <2>1
<1>4. IsFiniteSet(e + 1 .. N) /\ Cardinality(e + 1 .. N) = N - e
  <2>1. e + 1 \in Int /\ N \in Int
    OBVIOUS
  <2>2. /\ IsFiniteSet(e + 1 .. N)
        /\ Cardinality(e + 1 .. N) = IF e + 1 > N THEN 0 ELSE N - (e + 1) + 1
    BY <2>1, FS_Interval
  <2> QED BY <2>2
<1>5. Cardinality(S) <= Cardinality(e + 1 .. N)
  BY <1>3, <1>4, FS_Subset
<1> QED BY <1>1, <1>4, <1>5

\* The last of the w samples behind number x
LEMMA LastOfSlice ==
  ASSUME NEW A, NEW ps \in Seq(A), NEW x \in Nat, NEW w \in Nat \ {0}, x + w <= Len(ps)
  PROVE  Last(SubSeq(ps, x + 1, x + w)) = ps[x + w]
<1>1. PICK s : s = SubSeq(ps, x + 1, x + w)
  OBVIOUS
<1>2. PICK a \in Nat, b \in Nat : a = x + 1 /\ b = x + w
  OBVIOUS
<1>3. a \in 1 .. Len(ps) + 1 /\ b <= Len(ps) /\ b - a + 1 = w
  BY <1>2
<1>4. s = [i \in 1 .. w |-> ps[a + i - 1]]
  <2>1. s = [i \in 1 .. b - a + 1 |-> ps[i + a - 1]]
    BY <1>1, <1>2
  <2>2. \A i \in 1 .. w : i + a - 1 = a + i - 1
    BY <1>2
  <2> QED BY <1>3, <2>1, <2>2
<1>5. s \in [1 .. w -> {ps[a + i - 1] : i \in 1 .. w}]
  BY <1>4
<1>6. Len(s) = w
  BY <1>5
<1>7. s[w] = ps[x + w]
  <2>1. w \in 1 .. w /\ a + w - 1 = x + w
    BY <1>2
  <2> QED BY <1>4, <2>1
<1> QED BY <1>1, <1>6, <1>7 DEF Last

\* A regime scan covers all but the last prices, which are fewer than a step has.
LEMMA ScanCovers ==
  ASSUME NEW ps \in Seq(PriceSample), InTime(ps)
  PROVE  ReachesTheEnd(Scan(ps), ps)
<1>1. PICK N \in Nat : N = Len(ps) /\ DOMAIN ps = 1 .. N
  OBVIOUS
<1>2. PICK M \in 0 .. N : Fitting(N) = 1 .. M /\ N < M * ScanStep + ScanWindow
  BY FittingWindows
<1>3. PICK scan : scan = Scan(ps)
  OBVIOUS
<1> DEFINE win(n) == SubSeq(ps, (n - 1) * ScanStep + 1, (n - 1) * ScanStep + ScanWindow)
           entry(n) == [from |-> Head(win(n)).ts, to |-> Last(win(n)).ts,
                        regime |-> Classify(win(n))]
<1>4. scan = [n \in 1 .. M |-> entry(n)]
  <2>1. {m \in DOMAIN ps : (m - 1) * ScanStep + ScanWindow <= Len(ps)} = 1 .. M
    BY <1>1, <1>2 DEF Fitting
  <2> QED BY <1>3, <2>1, Zenon DEF Scan
<1>5. Len(scan) = M /\ DOMAIN scan = 1 .. M
  <2> HIDE DEF entry
  <2>1. PICK S : S = {entry(n) : n \in 1 .. M}
    OBVIOUS
  <2>2. scan \in [1 .. M -> S]
    BY <1>4, <2>1
  <2> QED BY <2>2
<1>6. ASSUME NEW n \in 1 .. M
      PROVE  Cardinality({i \in DOMAIN ps : ps[i].ts > scan[n].to})
               < ScanStep * (Len(scan) - n + 1)
  <2>1. PICK x \in Nat, w \in Nat \ {0} : x = (n - 1) * ScanStep /\ w = ScanWindow
    BY WindowStarts, ResearchAssumption
  <2>2. x + w <= N
    BY <1>2, <2>1 DEF Fitting
  <2>3. PICK e \in 1 .. N : e = x + w
    BY <2>1, <2>2
  <2>4. scan[n].to = ps[e].ts
    <3>1. scan[n].to = Last(win(n)).ts
      BY <1>4
    <3>2. win(n) = SubSeq(ps, x + 1, x + w)
      BY <2>1
    <3>3. Last(SubSeq(ps, x + 1, x + w)) = ps[x + w]
      BY <1>1, <2>2, LastOfSlice
    <3> HIDE DEF win
    <3> QED BY <2>3, <3>1, <3>2, <3>3
  <2>5. PICK c : c = Cardinality({i \in DOMAIN ps : ps[i].ts > ps[e].ts})
    OBVIOUS
  <2>6. c <= N - e
    BY <1>1, <2>5, LaterBehind
  <2>7. PICK y \in Nat, z \in Int : y = M * ScanStep /\ z = ScanStep * (M - n + 1) /\ y = x + z
    <3>1. n \in Nat \ {0} /\ M \in Nat /\ n <= M
      OBVIOUS
    <3>2. M * ScanStep \in Nat /\ M * ScanStep = (n - 1) * ScanStep + ScanStep * (M - n + 1)
      BY <3>1, WindowStarts
    <3>3. ScanStep * (M - n + 1) \in Int
      BY <3>1, ResearchAssumption
    <3> QED BY <2>1, <3>2, <3>3
  <2>8. N < y + w
    BY <1>2, <2>1, <2>7
  <2>9. c \in Int
    <3>1. PICK S : S = {i \in DOMAIN ps : ps[i].ts > ps[e].ts}
      OBVIOUS
    <3>2. IsFiniteSet(S)
      <4>1. S \subseteq 1 .. N /\ IsFiniteSet(1 .. N)
        BY <1>1, <3>1, FS_Interval
      <4> QED BY <4>1, FS_Subset
    <3> QED BY <2>5, <3>1, <3>2, FS_CardinalityType
  <2>10. c < z
    BY <2>3, <2>6, <2>7, <2>8, <2>9
  <2> HIDE DEF win, entry
  <2> QED BY <1>5, <2>4, <2>5, <2>7, <2>10
<1> HIDE DEF win, entry
<1> QED BY <1>3, <1>5, <1>6 DEF ReachesTheEnd

-----------------------------------------------------------------------------
(***************************************************************************)
(* Walk-forward splits                                                     *)
(***************************************************************************)
NextOf(ss) == IF ss = <<>> THEN 0 ELSE Last(ss) + TestSize
Judged(ss) == UNION {Tested(ss[i]) : i \in DOMAIN ss}

\* Splits of n labels follow each other, and together they judge by one stretch.
SplitsAre(ss, n) ==
  /\ ss \in Seq(Nat) /\ NextOf(ss) \in Nat
  /\ \A i \in DOMAIN ss : ss[i] + TrainSize + TestSize <= n /\ ss[i] + TestSize <= NextOf(ss)
  /\ \A i, j \in DOMAIN ss : i < j => ss[i] + TestSize <= ss[j]
  /\ Judged(ss) = TrainSize + 1 .. TrainSize + NextOf(ss)

\* At first there are none.
LEMMA NoSplits == ASSUME NEW n PROVE SplitsAre(<<>>, n)
<1>1. PICK ss : ss = <<>>
  OBVIOUS
<1>2. ss \in Seq(Nat) /\ DOMAIN ss = {} /\ NextOf(ss) = 0
  BY <1>1 DEF NextOf
<1>3. Judged(ss) = {}
  BY <1>2 DEF Judged
<1>4. TrainSize + 1 .. TrainSize + 0 = {}
  BY ResearchAssumption
<1>5. TrainSize + 1 .. TrainSize + NextOf(ss) = {}
  BY <1>2, <1>4
<1>6. NextOf(ss) \in Nat
  BY <1>2
<1>7. SplitsAre(ss, n)
  BY <1>2, <1>3, <1>5, <1>6, Zenon DEF SplitsAre
<1> QED BY <1>1, <1>7

\* The next split is behind those before it.
LEMMA SplitFollows ==
  ASSUME NEW n, NEW ss, SplitsAre(ss, n), NextOf(ss) + TrainSize + TestSize <= n
  PROVE  SplitsAre(Append(ss, NextOf(ss)), n)
<1>1. PICK x \in Nat : x = NextOf(ss)
  BY DEF SplitsAre
<1>2. PICK tr \in Nat \ {0}, te \in Nat \ {0} : tr = TrainSize /\ te = TestSize
  BY ResearchAssumption
<1>3. PICK m \in Nat : m = Len(ss) /\ DOMAIN ss = 1 .. m
  BY DEF SplitsAre
<1>4. ss \in Seq(Nat)
  BY DEF SplitsAre
<1>5. PICK tt : tt = Append(ss, x)
  OBVIOUS
<1>6. /\ tt \in Seq(Nat) /\ Len(tt) = m + 1 /\ DOMAIN tt = 1 .. m + 1
      /\ tt[m + 1] = x /\ \A i \in 1 .. m : tt[i] = ss[i] /\ ss[i] \in Nat
  BY <1>3, <1>4, <1>5
<1>7. NextOf(tt) = x + te
  <2>1. tt # <<>> /\ Last(tt) = x
    BY <1>6 DEF Last
  <2> QED BY <1>2, <2>1 DEF NextOf
<1>8. \A i \in 1 .. m : ss[i] + tr + te <= n /\ ss[i] + te <= x
  BY <1>1, <1>2, <1>3 DEF SplitsAre
<1>9. \A i, j \in 1 .. m : i < j => ss[i] + te <= ss[j]
  BY <1>2, <1>3 DEF SplitsAre
<1>10. \A i \in 1 .. m + 1 : tt[i] + tr + te <= n /\ tt[i] + te <= x + te
  <2> TAKE i \in 1 .. m + 1
  <2>1. CASE i = m + 1
    <3>1. x + tr + te <= n
      BY <1>1, <1>2
    <3> QED BY <1>6, <2>1, <3>1
  <2>2. CASE i # m + 1
    <3>1. i \in 1 .. m
      BY <2>2
    <3>2. tt[i] \in Nat /\ tt[i] + tr + te <= n /\ tt[i] + te <= x
      BY <1>6, <1>8, <3>1
    <3> QED BY <3>2
  <2> QED BY <2>1, <2>2
<1>11. \A i, j \in 1 .. m + 1 : i < j => tt[i] + te <= tt[j]
  <2> TAKE i, j \in 1 .. m + 1
  <2> HAVE i < j
  <2>1. i \in 1 .. m
    OBVIOUS
  <2>2. CASE j = m + 1
    BY <1>6, <1>8, <2>1, <2>2
  <2>3. CASE j # m + 1
    <3>1. j \in 1 .. m
      BY <2>3
    <3> QED BY <1>6, <1>9, <2>1, <3>1
  <2> QED BY <2>2, <2>3
<1>12. Judged(tt) = Judged(ss) \cup Tested(x)
  <2>1. \A i \in 1 .. m : Tested(tt[i]) = Tested(ss[i])
    BY <1>6
  <2>2. 1 .. m + 1 = 1 .. m \cup {m + 1}
    OBVIOUS
  <2> QED BY <1>3, <1>6, <2>1, <2>2, SMTT(40) DEF Judged
<1>13. Judged(tt) = tr + 1 .. tr + (x + te)
  <2>1. Judged(ss) = tr + 1 .. tr + x
    BY <1>1, <1>2 DEF SplitsAre
  <2>2. Tested(x) = x + tr + 1 .. x + tr + te
    BY <1>2 DEF Tested
  <2>3. (tr + 1 .. tr + x) \cup (x + tr + 1 .. x + tr + te) = tr + 1 .. tr + (x + te)
    OBVIOUS
  <2> QED BY <1>12, <2>1, <2>2, <2>3
<1>14. SplitsAre(tt, n)
  <2>1. x + te \in Nat
    OBVIOUS
  <2> QED BY <1>2, <1>6, <1>7, <1>10, <1>11, <1>13, <2>1 DEF SplitsAre
<1> QED BY <1>1, <1>5, <1>14

\* Once no further split fits, they are what the report promises.
LEMMA SplitsAreApart ==
  ASSUME NEW n \in Nat, NEW ss, SplitsAre(ss, n), ~(NextOf(ss) + TrainSize + TestSize <= n)
  PROVE  SlicesAreApart(ss, n)
<1>1. PICK x \in Nat : x = NextOf(ss)
  BY DEF SplitsAre
<1>2. PICK tr \in Nat \ {0}, te \in Nat \ {0} : tr = TrainSize /\ te = TestSize
  BY ResearchAssumption
<1>3. PICK m \in Nat : m = Len(ss) /\ DOMAIN ss = 1 .. m
  BY DEF SplitsAre
<1>4. \A i \in 1 .. m : ss[i] \in Nat /\ ss[i] + tr + te <= n
  <2>1. ss \in Seq(Nat)
    BY DEF SplitsAre
  <2>2. \A i \in 1 .. m : ss[i] \in Nat
    BY <1>3, <2>1
  <2>3. \A i \in 1 .. m : ss[i] + tr + te <= n
    BY <1>2, <1>3 DEF SplitsAre
  <2> QED BY <2>2, <2>3
<1>5. \A i \in 1 .. m : Tested(ss[i]) = ss[i] + tr + 1 .. ss[i] + tr + te
  BY <1>2 DEF Tested
<1>6. \A i \in 1 .. m : Tested(ss[i]) \subseteq 1 .. n
  BY <1>4, <1>5
<1>7. \A i, j \in 1 .. m : i < j => Tested(ss[i]) \cap Tested(ss[j]) = {}
  <2> TAKE i, j \in 1 .. m
  <2> HAVE i < j
  <2>1. PICK a \in Nat, b \in Nat : a = ss[i] /\ b = ss[j]
    BY <1>4
  <2>2. a + te <= b
    BY <1>2, <1>3, <2>1 DEF SplitsAre
  <2>3. (a + tr + 1 .. a + tr + te) \cap (b + tr + 1 .. b + tr + te) = {}
    BY <2>2
  <2> QED BY <1>5, <2>1, <2>3
<1>8. \A i, j \in 1 .. m : i # j => Tested(ss[i]) \cap Tested(ss[j]) = {}
  <2> TAKE i, j \in 1 .. m
  <2> HAVE i # j
  <2>1. i < j \/ j < i
    OBVIOUS
  <2>2. CASE i < j
    BY <1>7, <2>2
  <2>3. CASE j < i
    <3>1. Tested(ss[j]) \cap Tested(ss[i]) = {}
      BY <1>7, <2>3
    <3> QED BY <3>1
  <2> QED BY <2>1, <2>2, <2>3
<1>9. Cardinality(Judged(ss)) = x
  <2>1. Judged(ss) = tr + 1 .. tr + x
    BY <1>1, <1>2 DEF SplitsAre
  <2>2. PICK a \in Int, b \in Int : a = tr + 1 /\ b = tr + x
    OBVIOUS
  <2>3. Cardinality(a .. b) = IF a > b THEN 0 ELSE b - a + 1
    BY FS_Interval
  <2>4. (IF a > b THEN 0 ELSE b - a + 1) = x
    BY <2>2
  <2> QED BY <2>1, <2>2, <2>3, <2>4
<1>10. x + tr + te > n
  BY <1>1, <1>2
<1> QED BY <1>2, <1>3, <1>6, <1>8, <1>9, <1>10 DEF SlicesAreApart, Judged

-----------------------------------------------------------------------------
(***************************************************************************)
(* Results                                                                 *)
(***************************************************************************)
\* The returns of true labels are whole numbers: each is off one of the prices.
LEMMA LabelsAreCountable ==
  ASSUME NEW ps \in Seq(PriceSample), NEW ls, LabelsOf(ls, ps)
  PROVE  Countable(ls) /\ Len(ls) \in Nat
<1>1. PICK S : /\ ls \in Seq(S)
               /\ \A l \in S : IsTrueLabel(l, ps) /\ Horizon \in DOMAIN l.returns
  BY DEF LabelsOf
<1>2. \A i \in DOMAIN ps : ps[i].price \in Nat
  <2>1. \A i \in DOMAIN ps : ps[i] \in PriceSample
    OBVIOUS
  <2> QED BY <2>1 DEF PriceSample
<1>3. ASSUME NEW l \in S PROVE l.returns[Horizon] \subseteq Int
  <2>1. PICK c : c = l.candidate
    OBVIOUS
  <2>2. PICK i \in DOMAIN ps : ps[i] = [ts |-> c.ts, price |-> c.entry]
    BY <1>1, <2>1 DEF IsTrueLabel
  <2>3. c.entry \in Nat
    BY <1>2, <2>2
  <2>4. \A r \in l.returns[Horizon] : \E k \in DOMAIN ps : Pnl(c, ps[k].price) = r
    BY <1>1, <2>1, Zenon DEF IsTrueLabel
  <2>5. \A x \in Nat : Pnl(c, x) \in Int
    BY <2>3 DEF Pnl
  <2> QED BY <1>2, <2>4, <2>5
<1>4. Len(ls) \in Nat
  BY <1>1
<1> QED BY <1>1, <1>3, <1>4 DEF Countable

\* A split chooses the best threshold of its training slice, and has whole returns.
LEMMA SplitIsSound ==
  ASSUME Countable(labels), NEW start \in Nat, start + TrainSize + TestSize <= Len(labels)
  PROVE  /\ EvaluateSplit(start).returns \in Seq(Int)
         /\ ChoosesTheBest(EvaluateSplit(start), labels)
<1>1. PICK ls : ls = labels
  OBVIOUS
<1>2. PICK n \in Nat : n = Len(ls)
  BY <1>1 DEF Countable
<1>3. PICK tr \in Nat \ {0}, te \in Nat \ {0} : tr = TrainSize /\ te = TestSize
  BY ResearchAssumption
<1>4. Countable(Train(ls, start)) /\ Countable(Test(ls, start))
  <2>1. start + 1 \in Nat \ {0} /\ start + tr \in Nat /\ start + tr <= n
    BY <1>1, <1>2, <1>3
  <2>2. start + tr + 1 \in Nat \ {0} /\ start + tr + te \in Nat /\ start + tr + te <= n
    BY <1>1, <1>2, <1>3
  <2>3. Countable(SubSeq(ls, start + 1, start + tr))
    BY <1>1, <1>2, <2>1, SliceIsCountable
  <2>4. Countable(SubSeq(ls, start + tr + 1, start + tr + te))
    BY <1>1, <1>2, <2>2, SliceIsCountable
  <2> QED BY <1>3, <2>3, <2>4 DEF Train, Test
<1>5. PICK best : best = OptimizeThreshold(Train(ls, start))
  OBVIOUS
<1>6. /\ best = {} \/ \E t : best = {t}
      /\ \A t \in best : \A u \in Range(Thresholds) :
           NoBetter(Returns(Train(ls, start), u), Returns(Train(ls, start), t))
  BY <1>4, <1>5, ChosenIsBest
<1>7. PICK m \in Nat : m = Cardinality(best)
  <2>1. IsFiniteSet(best)
    BY <1>6, FS_EmptySet, FS_Singleton, ZenonT(40)
  <2> QED BY <2>1, FS_CardinalityType
<1>8. PICK each : each = [i \in 1 .. m |-> Returns(Test(ls, start), CHOOSE t \in best : TRUE)]
  OBVIOUS
<1>9. each \in Seq(Seq(Int))
  <2>1. Returns(Test(ls, start), CHOOSE t \in best : TRUE) \in Seq(Int)
    BY <1>4, ReturnsType
  <2>2. each \in [1 .. m -> Seq(Int)]
    BY <1>8, <2>1
  <2> QED BY <2>2
<1>10. PICK r : r = EvaluateSplit(start)
  OBVIOUS
<1>11. r.start = start /\ r.threshold = best /\ r.returns = FlattenSeq(each)
  BY <1>1, <1>5, <1>7, <1>8, <1>10 DEF EvaluateSplit
<1>12. r.returns \in Seq(Int)
  BY <1>9, <1>11, FlattenType
<1>13. ChoosesTheBest(r, ls)
  BY <1>6, <1>11 DEF ChoosesTheBest
<1> QED BY <1>1, <1>10, <1>12, <1>13

\* What walk_forward_validate keeps of the splits
Kept(all) == Only(all, {r \in Range(all) : r.returns # <<>>})

\* The results that are kept are sound, and each of them has returns.
LEMMA ResultsAreSound ==
  ASSUME Countable(labels), SplitsAre(splits, Len(labels)),
         NEW rs, rs = Kept([i \in DOMAIN splits |-> EvaluateSplit(splits[i])])
  PROVE  /\ Traded(rs)
         /\ \A i \in DOMAIN rs : rs[i].returns # <<>> /\ ChoosesTheBest(rs[i], labels)
<1>1. PICK m \in Nat : m = Len(splits) /\ DOMAIN splits = 1 .. m
  BY DEF SplitsAre
<1>2. \A i \in 1 .. m : splits[i] \in Nat /\ splits[i] + TrainSize + TestSize <= Len(labels)
  <2>1. splits \in Seq(Nat)
    BY DEF SplitsAre
  <2> QED BY <1>1, <2>1 DEF SplitsAre
<1>3. PICK all : all = [i \in 1 .. m |-> EvaluateSplit(splits[i])]
  OBVIOUS
<1>4. PICK R : R = {EvaluateSplit(splits[i]) : i \in 1 .. m}
  OBVIOUS
<1>5. \A r \in R : r.returns \in Seq(Int) /\ ChoosesTheBest(r, labels)
  BY <1>2, <1>4, SplitIsSound
<1>6. all \in Seq(R)
  <2>1. all \in [1 .. m -> R]
    BY <1>3, <1>4
  <2> QED BY <2>1
<1>7. PICK G : G = {r \in Range(all) : r.returns # <<>>}
  OBVIOUS
<1>8. rs = Only(all, G)
  BY <1>1, <1>3, <1>7 DEF Kept
<1>9. rs \in Seq(R)
  BY <1>6, <1>8, OnlyType
<1>10. PICK p : Picks(p, rs, all, G, Len(all))
  BY <1>6, <1>8, OnlyPicks
<1>11. \A i \in DOMAIN rs : rs[i] \in R /\ rs[i] \in G
  <2>1. DOMAIN rs = 1 .. Len(rs)
    BY <1>9
  <2> QED BY <1>9, <1>10, <2>1 DEF Picks
<1>12. \A i \in DOMAIN rs : rs[i].returns # <<>> /\ ChoosesTheBest(rs[i], labels)
  BY <1>5, <1>7, <1>11
<1> QED BY <1>5, <1>9, <1>12 DEF Traded

\* There are no returns of no results, and no regimes either.
LEMMA NoResults ==
  ASSUME NEW f, DOMAIN f = {}
  PROVE  /\ AllReturns(<<>>) = <<>> /\ Len(AllReturns(<<>>)) = 0
         /\ Total([g \in DOMAIN f |-> f[g].trades]) = 0
<1>1. PICK rs : rs = <<>>
  OBVIOUS
<1>2. rs \in Seq({}) /\ DOMAIN rs = {} /\ Len(rs) = 0
  BY <1>1
<1>3. Traded(rs)
  BY <1>2 DEF Traded
<1>4. AllReturns(rs) = <<>>
  BY <1>1, <1>2, <1>3, NoReturns
<1>5. PICK q : q = [g \in DOMAIN f |-> f[g].trades]
  OBVIOUS
<1>6. DOMAIN q = {}
  BY <1>5
<1>7. Total(q) = 0
  BY <1>6, TotalEmpty
<1> QED BY <1>1, <1>4, <1>5, <1>7

-----------------------------------------------------------------------------
(***************************************************************************)
(* The report                                                              *)
(***************************************************************************)
\* Neither validated nor scanned
IsFresh(r) ==
  \E best, paper : r = [best |-> best, paper |-> paper, oos |-> {}, regimes |-> NoEntries,
                        sufficient |-> FALSE, scan |-> <<>>]

\* Until the command is over
BeforeReport == {"idle", "replay", "label", "split", "validate"}

(***************************************************************************)
(* The splits are made when every label is there, the results when every   *)
(* split is: before that there are none.                                   *)
(***************************************************************************)
ReportInv ==
  /\ phase \in BeforeReport => IsFresh(report) /\ results = <<>>
  /\ phase \in {"idle", "replay", "label"} => splits = <<>>
  /\ phase \in {"split", "validate"} => SplitsAre(splits, Len(labels))
  /\ phase = "validate" => ~(NextOf(splits) + TrainSize + TestSize <= Len(labels))
  /\ ReportIsSound

\* The promise of ReportIsSound, of values
Sound(rs, r, ss, ls, ps) ==
  LET all == AllReturns(rs)
      trades == [g \in DOMAIN r.regimes |-> r.regimes[g].trades]
  IN /\ SlicesAreApart(ss, Len(ls))
     /\ \A i \in DOMAIN rs : ChoosesTheBest(rs[i], ls)
     /\ r.oos = {} <=> all = <<>>
     /\ \A s \in r.oos : s.drawdown = DeepestFall(all)
     /\ Len(all) = Total(trades)
     /\ ReachesTheEnd(r.scan, ps)

\* A fresh report has no results yet.
LEMMA FreshParts ==
  ASSUME NEW r, IsFresh(r)
  PROVE  r.oos = {} /\ DOMAIN r.regimes = {} /\ r.scan = <<>>
<1>1. PICK best, paper :
        r = [best |-> best, paper |-> paper, oos |-> {}, regimes |-> NoEntries,
             sufficient |-> FALSE, scan |-> <<>>]
  BY DEF IsFresh
<1>2. DOMAIN NoEntries = {}
  BY DEF NoEntries
<1> QED BY <1>1, <1>2

\* Before the research there is no report.
LEMMA ReportStart == Init => ReportInv
<1> SUFFICES ASSUME Init PROVE ReportInv
  OBVIOUS
<1>1. phase = "idle" /\ results = <<>> /\ splits = <<>> /\ report = NoReport
  BY DEF Init, ResearchInit
<1>2. IsFresh(report)
  BY <1>1 DEF IsFresh, NoReport
<1> QED BY <1>1, <1>2 DEF ReportInv, ReportIsSound

\* The prices of events
PricesOf(es) == [i \in DOMAIN es |-> [ts |-> es[i].ts, price |-> PriceOf(es[i])]]

\* Events of all that have a price
Priced(all, H) == all \in Seq(MarketEvent) /\ InTime(all) /\ \A e \in H : HasPrice(e)

\* The scanned prices are prices by time.
LEMMA ScannedPrices ==
  ASSUME NEW all, NEW H, Priced(all, H), NEW es, es = Only(all, H)
  PROVE  PricesOf(es) \in Seq(PriceSample) /\ InTime(PricesOf(es))
<1>0. PICK ps : ps = PricesOf(es)
  OBVIOUS
<1>1. all \in Seq(MarketEvent) /\ InTime(all) /\ \A e \in H : HasPrice(e)
  BY DEF Priced
<1>2. es \in Seq(MarketEvent)
  BY <1>1, OnlyType
<1>3. PICK n \in Nat : n = Len(es) /\ DOMAIN es = 1 .. n
  BY <1>2
<1>4. PICK p : Picks(p, es, all, H, Len(all))
  BY <1>1, OnlyPicks
<1>5. \A i \in 1 .. n : p[i] \in DOMAIN all /\ es[i] = all[p[i]] /\ all[p[i]] \in H
  BY <1>3, <1>4 DEF Picks
<1>6. \A i \in 1 .. n : es[i] \in MarketEvent /\ HasPrice(es[i])
  BY <1>1, <1>2, <1>3, <1>5
<1>7. \A i \in 1 .. n : ps[i].ts = es[i].ts /\ ps[i] \in PriceSample
  <2> TAKE i \in 1 .. n
  <2>1. PICK e \in MarketEvent : e = es[i] /\ HasPrice(e)
    BY <1>6
  <2>2. e.ts \in Nat /\ PriceOf(e) \in Nat
    BY <2>1, EventTime, EventPrice
  <2>3. ps[i] = [ts |-> e.ts, price |-> PriceOf(e)]
    BY <1>3, <1>0, <2>1 DEF PricesOf
  <2> QED BY <2>1, <2>2, <2>3 DEF PriceSample
<1>8. ps \in Seq(PriceSample) /\ DOMAIN ps = 1 .. n
  <2>1. DOMAIN ps = 1 .. n /\ ps = [i \in 1 .. n |-> ps[i]]
    BY <1>3, <1>0 DEF PricesOf
  <2>2. ps \in [1 .. n -> PriceSample]
    BY <1>7, <2>1
  <2> QED BY <2>2
<1>9. \A k, l \in 1 .. n : k < l => p[k] < p[l]
  BY <1>3, <1>4 DEF Picks
<1>10. \A k, l \in 1 .. n : k < l => ps[k].ts <= ps[l].ts
  <2> TAKE k, l \in 1 .. n
  <2> HAVE k < l
  <2>1. PICK a \in DOMAIN all, b \in DOMAIN all : a = p[k] /\ b = p[l] /\ a < b
    BY <1>5, <1>9
  <2>2. all[a].ts <= all[b].ts
    BY <1>1, <2>1, Zenon DEF InTime
  <2>3. ps[k].ts = all[a].ts /\ ps[l].ts = all[b].ts
    BY <1>5, <1>7, <2>1
  <2> QED BY <2>2, <2>3
<1> QED BY <1>8, <1>10, <1>0 DEF InTime

\* A scan is a report of its own: no splits, no results.
LEMMA ScanReports ==
  ASSUME DirectoryInv, LabelInv, ReportInv, ScanRegimes
  PROVE  ReportInv'
<1>1. phase = "idle" /\ phase' \in {"done", "failed"}
      /\ UNCHANGED <<labels, splits, results>>
  BY DEF ScanRegimes
<1>2. labels = <<>> /\ splits = <<>> /\ results = <<>> /\ IsFresh(report)
  BY <1>1 DEF LabelInv, ReportInv, BeforeReport
<1>3. CASE phase' = "failed"
  BY <1>3 DEF ReportInv, ReportIsSound, BeforeReport
<1>4. CASE phase' = "done"
  <2>1. PICK all, es, ps, r :
          /\ all = EventsByTime(InFiles) /\ es = Only(all, {e \in Range(all) : HasPrice(e)})
          /\ prices' = ps /\ report' = r
          /\ ps = [i \in DOMAIN es |-> [ts |-> es[i].ts, price |-> PriceOf(es[i])]]
          /\ r = [report EXCEPT !.scan = Scan(ps)]
    <3>1. Readable
      BY <1>4 DEF ScanRegimes
    <3>2. PICK all, es : /\ all = EventsByTime(InFiles)
                         /\ es = Only(all, {e \in Range(all) : HasPrice(e)})
      OBVIOUS
    <3>3. PICK ps, r : ps = prices' /\ r = report'
      OBVIOUS
    <3>4. /\ prices' = [i \in DOMAIN es |-> [ts |-> es[i].ts, price |-> PriceOf(es[i])]]
          /\ report' = [report EXCEPT !.scan = Scan(prices')]
      BY <3>1, <3>2, Zenon DEF ScanRegimes
    <3> QED BY <3>2, <3>3, <3>4, ZenonT(60)
  <2>2. all \in Seq(MarketEvent) /\ InTime(all)
    BY <2>1, InputType
  <2>3. ps \in Seq(PriceSample) /\ InTime(ps)
    <3>1. PICK H : H = {e \in Range(all) : HasPrice(e)}
      OBVIOUS
    <3>2. Priced(all, H)
      BY <2>2, <3>1 DEF Priced
    <3>3. es = Only(all, H) /\ ps = PricesOf(es)
      BY <2>1, <3>1, Zenon DEF PricesOf
    <3> QED BY <3>2, <3>3, ScannedPrices
  <2>4. ReachesTheEnd(Scan(ps), ps)
    BY <2>3, ScanCovers
  <2>5. r.oos = {} /\ DOMAIN r.regimes = {} /\ r.scan = Scan(ps)
    <3>1. report.oos = {} /\ DOMAIN report.regimes = {}
      BY <1>2, FreshParts
    <3>2. \E best, paper :
            report = [best |-> best, paper |-> paper, oos |-> {}, regimes |-> NoEntries,
                      sufficient |-> FALSE, scan |-> <<>>]
      BY <1>2 DEF IsFresh
    <3> QED BY <2>1, <3>1, <3>2
  <2>6. SlicesAreApart(<<>>, 0)
    <3>1. SplitsAre(<<>>, 0)
      BY NoSplits
    <3>2. ~(NextOf(<<>>) + TrainSize + TestSize <= 0)
      BY ResearchAssumption DEF NextOf
    <3> QED BY <3>1, <3>2, SplitsAreApart
  <2>7. PICK e : e = <<>>
    OBVIOUS
  <2>8. Len(e) = 0 /\ DOMAIN e = {}
    BY <2>7
  <2>9. Sound(e, r, e, e, ps)
    <3>1. AllReturns(e) = <<>> /\ Len(AllReturns(e)) = Total([g \in DOMAIN r.regimes |-> r.regimes[g].trades])
      BY <2>5, <2>7, NoResults
    <3>2. SlicesAreApart(e, Len(e))
      BY <2>6, <2>7, <2>8
    <3> QED BY <2>4, <2>5, <2>8, <3>1, <3>2, Zenon DEF Sound
  <2>10. Sound(results', report', splits', labels', prices')
    BY <1>1, <1>2, <2>1, <2>7, <2>9
  <2>11. ReportIsSound'
    BY <2>10, Zenon DEF Sound, ReportIsSound
  <2> QED BY <1>4, <2>11 DEF ReportInv, BeforeReport
<1> QED BY <1>1, <1>3, <1>4

\* What walk_forward_validate reports is sound.
LEMMA ValidateReports == ASSUME LabelInv, ReportInv, Validate PROVE ReportInv'
<1>1. phase = "validate" /\ phase' = "done" /\ UNCHANGED <<labels, splits, prices>>
  BY DEF Validate, trackerVars
<1>2. /\ IsFresh(report) /\ SplitsAre(splits, Len(labels))
      /\ ~(NextOf(splits) + TrainSize + TestSize <= Len(labels))
  BY <1>1 DEF ReportInv, BeforeReport
<1>3. Countable(labels) /\ Len(labels) \in Nat
  <2>1. prices \in Seq(PriceSample) /\ LabelsOf(labels, prices)
    BY <1>1 DEF LabelInv
  <2>2. PICK ps, ls : ps = prices /\ ls = labels
    OBVIOUS
  <2>3. ps \in Seq(PriceSample) /\ LabelsOf(ls, ps)
    BY <2>1, <2>2
  <2> QED BY <2>2, <2>3, LabelsAreCountable
<1>4. PICK rs : rs = Kept([i \in DOMAIN splits |-> EvaluateSplit(splits[i])])
  OBVIOUS
<1>5. PICK ss, ls, ps : ss = splits /\ ls = labels /\ ps = prices
  OBVIOUS
<1>6. /\ Traded(rs)
      /\ \A i \in DOMAIN rs : rs[i].returns # <<>> /\ ChoosesTheBest(rs[i], ls)
  BY <1>2, <1>3, <1>4, <1>5, ResultsAreSound
<1>7. PICK stats : stats = IF rs = <<>> THEN {} ELSE {Statistics(AllReturns(rs))}
  OBVIOUS
<1>8. PICK r, sufficient :
        /\ results' = rs /\ report' = r
        /\ r = [report EXCEPT !.oos = stats, !.regimes = RegimeResults(rs),
                              !.sufficient = sufficient]
  BY <1>4, <1>7, Zenon DEF Validate, Kept
<1>9. PICK f : f = RegimeResults(rs)
  OBVIOUS
<1>10. r.oos = stats /\ r.regimes = f /\ r.scan = <<>>
  <2>1. PICK best, paper :
          report = [best |-> best, paper |-> paper, oos |-> {}, regimes |-> NoEntries,
                    sufficient |-> FALSE, scan |-> <<>>]
    BY <1>2 DEF IsFresh
  <2> QED BY <1>8, <1>9, <2>1
<1>11. SlicesAreApart(ss, Len(ls))
  BY <1>2, <1>3, <1>5, SplitsAreApart
<1>12. AllReturns(rs) = <<>> <=> rs = <<>>
  BY <1>6, NoReturns
<1>13. PICK all \in Seq(Int) : all = AllReturns(rs)
  <2>1. PICK n \in Nat : n = Len(rs)
    BY <1>6 DEF Traded
  <2> QED BY <1>6, <2>1, AllReturnsAre
<1>14. Statistics(all).drawdown = DeepestFall(all)
  BY DrawdownIsDeepest
<1>15. Len(all) = Total([g \in DOMAIN f |-> f[g].trades])
  BY <1>6, <1>9, <1>13, RegimesShare
<1>16. ReachesTheEnd(<<>>, ps)
  <2>1. PICK e : e = <<>>
    OBVIOUS
  <2>2. DOMAIN e = {}
    BY <2>1
  <2>3. ReachesTheEnd(e, ps)
    BY <2>2 DEF ReachesTheEnd
  <2> QED BY <2>1, <2>3
<1>17. Sound(rs, r, ss, ls, ps)
  <2>1. r.oos = {} <=> all = <<>>
    BY <1>7, <1>10, <1>12, <1>13
  <2>2. \A s \in r.oos : s.drawdown = DeepestFall(all)
    BY <1>7, <1>10, <1>13, <1>14
  <2> QED BY <1>6, <1>10, <1>11, <1>13, <1>15, <1>16, <2>1, <2>2, Zenon DEF Sound
<1>18. Sound(results', report', splits', labels', prices')
  BY <1>1, <1>5, <1>8, <1>17
<1>19. ReportIsSound'
  BY <1>18, Zenon DEF Sound, ReportIsSound
<1> QED BY <1>1, <1>19 DEF ReportInv, BeforeReport

\* No step of the system makes the report unsound.
LEMMA ReportStep == DirectoryInv /\ LabelInv /\ ReportInv /\ [Next]_vars => ReportInv'
<1> SUFFICES ASSUME DirectoryInv, LabelInv, ReportInv, [Next]_vars PROVE ReportInv'
  OBVIOUS
<1>1. CASE Import
  BY <1>1 DEF Import, researchVars, ReportInv, ReportIsSound
<1>2. CASE StartResearch
  <2>1. /\ phase = "idle" /\ phase' \in {"replay", "failed"}
        /\ UNCHANGED <<report, results, splits>>
    BY <1>2 DEF StartResearch
  <2> QED BY <2>1 DEF ReportInv, ReportIsSound, BeforeReport
<1>3. CASE ScanRegimes
  BY <1>3, ScanReports
<1>4. CASE ReplayEvent \/ ReplayDone \/ LabelSnapshot
  <2>1. /\ phase \in {"replay", "label"} /\ phase' \in {"replay", "label"}
        /\ UNCHANGED <<report, results, splits>>
    BY <1>4 DEF ReplayEvent, ReplayDone, LabelSnapshot, trackerVars
  <2> QED BY <2>1 DEF ReportInv, ReportIsSound, BeforeReport
<1>5. CASE LabelsDone
  <2>1. /\ phase = "label" /\ phase' = "split" /\ UNCHANGED <<labels, results, splits>>
        /\ \E best, paper : report' = [report EXCEPT !.best = best, !.paper = paper]
    BY <1>5 DEF LabelsDone
  <2>2. IsFresh(report) /\ results = <<>> /\ splits = <<>>
    BY <2>1 DEF ReportInv, BeforeReport
  <2>3. IsFresh(report')
    <3>1. PICK b, p : report = [best |-> b, paper |-> p, oos |-> {}, regimes |-> NoEntries,
                                sufficient |-> FALSE, scan |-> <<>>]
      BY <2>2 DEF IsFresh
    <3>2. PICK best, paper : report' = [report EXCEPT !.best = best, !.paper = paper]
      BY <2>1
    <3>3. report' = [best |-> best, paper |-> paper, oos |-> {}, regimes |-> NoEntries,
                     sufficient |-> FALSE, scan |-> <<>>]
      BY <3>1, <3>2
    <3> QED BY <3>3, Zenon DEF IsFresh
  <2>4. SplitsAre(splits', Len(labels'))
    <3>1. PICK n : n = Len(labels')
      OBVIOUS
    <3> QED BY <2>1, <2>2, <3>1, NoSplits
  <2> QED BY <2>1, <2>2, <2>3, <2>4 DEF ReportInv, ReportIsSound, BeforeReport
<1>6. CASE PushSplit
  <2>1. /\ phase = "split" /\ phase' = "split" /\ UNCHANGED <<report, labels, results>>
        /\ splits' = Append(splits, NextOf(splits))
        /\ NextOf(splits) + TrainSize + TestSize <= Len(labels)
    BY <1>6 DEF PushSplit, NextSplit, FitsAt, NextOf
  <2>2. SplitsAre(splits', Len(labels'))
    <3>1. PICK ss, n : ss = splits /\ n = Len(labels)
      OBVIOUS
    <3>2. SplitsAre(ss, n)
      BY <2>1, <3>1 DEF ReportInv
    <3>3. SplitsAre(Append(ss, NextOf(ss)), n)
      BY <2>1, <3>1, <3>2, SplitFollows
    <3> QED BY <2>1, <3>1, <3>3
  <2> QED BY <2>1, <2>2 DEF ReportInv, ReportIsSound, BeforeReport
<1>7. CASE SplitsDone
  <2>1. /\ phase = "split" /\ phase' = "validate"
        /\ UNCHANGED <<report, labels, results, splits>>
        /\ ~(NextOf(splits) + TrainSize + TestSize <= Len(labels))
    BY <1>7 DEF SplitsDone, NextSplit, FitsAt, NextOf
  <2>2. ~(NextOf(splits) + TrainSize + TestSize <= Len(labels))'
    BY <2>1
  <2>3. SplitsAre(splits, Len(labels))'
    BY <2>1 DEF ReportInv
  <2> QED BY <2>1, <2>2, <2>3 DEF ReportInv, ReportIsSound, BeforeReport
<1>8. CASE Validate
  BY <1>8, ValidateReports
<1>9. CASE UNCHANGED vars
  BY <1>9 DEF vars, researchVars, ReportInv, ReportIsSound
<1> QED BY <1>1, <1>2, <1>3, <1>4, <1>5, <1>6, <1>7, <1>8, <1>9
        DEF Next, Analyse, ResearchStep, Over

(***************************************************************************)
(* Whatever prices were recorded or imported, and for every choice of the  *)
(* sizes and thresholds: a finished report judges by no label twice, and   *)
(* by as many as there is room for, with the best threshold of each        *)
(* training slice; it names the deepest fall of its returns and shares its *)
(* trades out to the regimes; and a scan covers all prices but less than a *)
(* step.                                                                   *)
(* (research_runner.rs: optimize_threshold, walk_forward_splits,           *)
(* walk_forward_validate, scan_regimes)                                    *)
(***************************************************************************)
THEOREM TheReportIsSound == Spec => []ReportIsSound
<1>1. ReportInv => ReportIsSound
  BY DEF ReportInv
<1>2. Spec => []LabelInv
  BY DirectoryAlways, LabelStart, LabelStep, PTL DEF Spec
<1>3. Spec => []ReportInv
  BY <1>2, DirectoryAlways, ReportStart, ReportStep, PTL DEF Spec
<1> QED BY <1>1, <1>3, PTL
=============================================================================
