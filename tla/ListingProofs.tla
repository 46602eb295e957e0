---------------------------- MODULE ListingProofs ----------------------------
(* Theorems about the paginated reads of Listing, for every value of the   *)
(* constants: in any reachable state the pages list all.                   *)
EXTENDS Listing, CampaignManagerProofs, SumLemmas, SequenceTheorems

-----------------------------------------------------------------------------
(* A function defined position by position exists, whatever the step.      *)
IsIteration(g, base, n, step) ==
    g[0] = base /\ \A i \in 1 .. n : g[i] = step[<<i, g[i - 1]>>]

LEMMA Iterated ==
    ASSUME NEW V, NEW base \in V, NEW n \in Nat, NEW step \in [(1 .. n) \X V -> V]
    PROVE  \E g \in [0 .. n -> V] : IsIteration(g, base, n, step)
<1> USE DEF IsIteration
<1> DEFINE Good(m) == \E g \in [0 .. m -> V] :
               g[0] = base /\ \A i \in 1 .. m : g[i] = step[<<i, g[i - 1]>>]
           N == {m \in Nat : m <= n => Good(m)}
<1>1. 0 \in N
  <2> DEFINE g == [i \in 0 .. 0 |-> base]
  <2>1. g \in [0 .. 0 -> V] /\ g[0] = base /\ 1 .. 0 = {}
    OBVIOUS
  <2> HIDE DEF g
  <2> QED BY <2>1
<1>2. ASSUME NEW m \in N PROVE m + 1 \in N
  <2> SUFFICES ASSUME m + 1 <= n PROVE Good(m + 1)
    OBVIOUS
  <2>1. PICK g \in [0 .. m -> V] :
            g[0] = base /\ \A i \in 1 .. m : g[i] = step[<<i, g[i - 1]>>]
    OBVIOUS
  <2> DEFINE h == [i \in 0 .. m + 1 |-> IF i = m + 1 THEN step[<<i, g[m]>>] ELSE g[i]]
  <2>2. h \in [0 .. m + 1 -> V]
    <3>1. <<m + 1, g[m]>> \in (1 .. n) \X V
      OBVIOUS
    <3>2. step[<<m + 1, g[m]>>] \in V
      BY <3>1
    <3> QED BY <3>2
  <2>3. h[0] = base
    BY <2>1
  <2>4. ASSUME NEW i \in 1 .. m + 1 PROVE h[i] = step[<<i, h[i - 1]>>]
    BY <2>1
  <2> HIDE DEF h
  <2> QED BY <2>2, <2>3, <2>4
<1>3. N = Nat
  <2> HIDE DEF N
  <2>1. N \in SUBSET Nat
    BY DEF N
  <2> QED BY <1>1, <1>2, <2>1, NatInductive
<1>4. n \in N
  BY <1>3
<1>5. Good(n)
  BY <1>4
<1> QED BY <1>5

-----------------------------------------------------------------------------
(* The entries a filter keeps, position by position.                       *)
KeptAt(list, kept, all, i) == IF list[i] \in kept THEN Append(all, list[i]) ELSE all

UpTo(list, kept) ==
    CHOOSE g : g = [i \in 0 .. Len(list) |->
        IF i = 0 THEN <<>>
        ELSE IF list[i] \in kept THEN Append(g[i - 1], list[i]) ELSE g[i - 1]]

LEMMA UpToDef ==
    ASSUME NEW S, NEW list \in Seq(S), NEW kept, NEW n \in Nat, n = Len(list)
    PROVE  /\ UpTo(list, kept)[0] = <<>>
           /\ \A i \in 1 .. n :
                 UpTo(list, kept)[i] = KeptAt(list, kept, UpTo(list, kept)[i - 1], i)
<1> DEFINE F(g) == [i \in 0 .. n |->
               IF i = 0 THEN <<>> ELSE KeptAt(list, kept, g[i - 1], i)]
           step == [p \in (1 .. n) \X Seq(S) |-> KeptAt(list, kept, p[2], p[1])]
           u == UpTo(list, kept)
<1>1. ASSUME NEW i \in 1 .. n, NEW all \in Seq(S)
      PROVE  KeptAt(list, kept, all, i) \in Seq(S)
  BY DEF KeptAt
<1>2. step \in [(1 .. n) \X Seq(S) -> Seq(S)]
  <2> SUFFICES ASSUME NEW p \in (1 .. n) \X Seq(S)
               PROVE  KeptAt(list, kept, p[2], p[1]) \in Seq(S)
    OBVIOUS
  <2>1. p[1] \in 1 .. n /\ p[2] \in Seq(S)
    OBVIOUS
  <2> QED BY <1>1, <2>1
<1>3. PICK g \in [0 .. n -> Seq(S)] : IsIteration(g, <<>>, n, step)
  <2> HIDE DEF step
  <2> QED BY <1>2, EmptySeq, Iterated
<1>4. ASSUME NEW i \in 1 .. n PROVE g[i] = KeptAt(list, kept, g[i - 1], i)
  <2>1. g[i - 1] \in Seq(S)
    OBVIOUS
  <2>2. step[<<i, g[i - 1]>>] = KeptAt(list, kept, g[i - 1], i)
    BY <2>1
  <2> QED BY <1>3, <2>2 DEF IsIteration
<1>5. g = F(g)
  <2>1. \A i \in 0 .. n : g[i] = IF i = 0 THEN <<>> ELSE KeptAt(list, kept, g[i - 1], i)
    BY <1>3, <1>4 DEF IsIteration
  <2>2. g = [i \in 0 .. n |-> g[i]]
    OBVIOUS
  <2> QED BY <2>1, <2>2
<1>6. u = CHOOSE f : f = F(f)
  BY DEF UpTo, KeptAt
<1>7. u = F(u)
  <2> HIDE DEF F, u
  <2> QED BY <1>5, <1>6
<1> HIDE DEF u
<1>8. u[0] = <<>>
  BY <1>7
<1>9. \A i \in 1 .. n : u[i] = KeptAt(list, kept, u[i - 1], i)
  BY <1>7
<1> QED BY <1>8, <1>9 DEF u

LEMMA UpToType ==
    ASSUME NEW S, NEW list \in Seq(S), NEW kept, NEW n \in Nat, n = Len(list)
    PROVE  \A i \in 0 .. n : UpTo(list, kept)[i] \in Seq(S)
<1> DEFINE u == UpTo(list, kept)
           N == {m \in Nat : m <= n => u[m] \in Seq(S)}
<1>1. u[0] = <<>> /\ \A i \in 1 .. n : u[i] = KeptAt(list, kept, u[i - 1], i)
  BY UpToDef
<1> HIDE DEF u
<1>2. 0 \in N
  BY <1>1, EmptySeq
<1>3. ASSUME NEW m \in N PROVE m + 1 \in N
  <2> SUFFICES ASSUME m + 1 <= n PROVE u[m + 1] \in Seq(S)
    OBVIOUS
  <2>1. m + 1 \in 1 .. n /\ m + 1 - 1 = m /\ u[m] \in Seq(S)
    OBVIOUS
  <2>2. u[m + 1] = KeptAt(list, kept, u[m], m + 1)
    BY <1>1, <2>1
  <2>3. list[m + 1] \in S
    BY <2>1
  <2> QED BY <2>1, <2>2, <2>3 DEF KeptAt
<1>4. N = Nat
  <2> HIDE DEF N
  <2>1. N \in SUBSET Nat
    BY DEF N
  <2> QED BY <1>2, <1>3, <2>1, NatInductive
<1>5. \A i \in 0 .. n : u[i] \in Seq(S)
  BY <1>4
<1> QED BY <1>5 DEF u

LEMMA FilteredIsUpTo ==
    ASSUME NEW list, NEW kept
    PROVE  Filtered(list, kept) = UpTo(list, kept)[Len(list)]
BY DEF Filtered, UpTo

-----------------------------------------------------------------------------
(* The part of a list that the page from start on takes, and the page once *)
(* the loop has passed over the whole of it.                               *)
Window(all, start, limit) ==
    SubSeq(all, start + 1, IF Len(all) <= start + limit THEN Len(all) ELSE start + limit)

PageOf(c, w, e) == [count |-> c, entries |-> w, end |-> e]

PageAfter(all, start, limit) ==
    IF Len(all) <= start + limit THEN PageOf(Len(all), Window(all, start, limit), FALSE)
    ELSE PageOf(start + limit, Window(all, start, limit), TRUE)

LEMMA WindowIs ==
    ASSUME NEW S, NEW all \in Seq(S), NEW start \in Nat, NEW limit \in Nat
    PROVE  /\ Window(all, start, limit) \in Seq(S)
           /\ Len(Window(all, start, limit)) =
                 IF Len(all) <= start THEN 0
                 ELSE IF Len(all) <= start + limit THEN Len(all) - start ELSE limit
           /\ \A i \in 1 .. Len(Window(all, start, limit)) :
                 Window(all, start, limit)[i] = all[start + i]
<1> DEFINE m == IF Len(all) <= start + limit THEN Len(all) ELSE start + limit
           w == SubSeq(all, start + 1, m)
<1>1. m \in Nat /\ m <= Len(all) /\ Len(all) \in Nat /\ start + 1 \in Int
  OBVIOUS
<1>2. \A i \in start + 1 .. m : all[i] \in S
  BY <1>1
<1>3. Window(all, start, limit) = w
  BY DEF Window
<1>4. /\ w \in Seq(S)
      /\ Len(w) = IF start + 1 <= m THEN m - (start + 1) + 1 ELSE 0
      /\ \A i \in 1 .. m - (start + 1) + 1 : w[i] = all[start + 1 + i - 1]
  <2> HIDE DEF m
  <2> QED BY <1>1, <1>2, SubSeqProperties
<1>5. Len(w) = IF Len(all) <= start THEN 0
               ELSE IF Len(all) <= start + limit THEN Len(all) - start ELSE limit
  <2> HIDE DEF w
  <2> QED BY <1>1, <1>4
<1>6. \A i \in 1 .. Len(w) : w[i] = all[start + i]
  <2> HIDE DEF w, m
  <2> QED BY <1>1, <1>4
<1> HIDE DEF w
<1> QED BY <1>3, <1>4, <1>5, <1>6

LEMMA VisitedPage ==
    ASSUME NEW S, NEW all \in Seq(S), NEW x \in S, NEW start \in Nat, NEW limit \in Nat,
           limit # 0
    PROVE  Visited(PageAfter(all, start, limit), start, limit, x) =
               PageAfter(Append(all, x), start, limit)
<1> DEFINE n == Len(all)
           more == Append(all, x)
           w == Window(all, start, limit)
           v == Window(more, start, limit)
<1>1. n \in Nat /\ more \in Seq(S) /\ Len(more) = n + 1
  BY AppendProperties, LenProperties
<1>2. \A i \in 1 .. n : more[i] = all[i]
  BY AppendProperties
<1>3. more[n + 1] = x
  BY AppendProperties
<1>4. w \in Seq(S)
  BY WindowIs
<1>5. Len(w) = IF n <= start THEN 0 ELSE IF n <= start + limit THEN n - start ELSE limit
  BY WindowIs
<1>6. \A i \in 1 .. Len(w) : w[i] = all[start + i]
  BY WindowIs
<1> HIDE DEF more
<1>7. v \in Seq(S)
  BY <1>1, WindowIs
<1>8. Len(v) = IF Len(more) <= start THEN 0
               ELSE IF Len(more) <= start + limit THEN Len(more) - start ELSE limit
  BY <1>1, WindowIs
<1>9. \A i \in 1 .. Len(v) : v[i] = more[start + i]
  BY <1>1, WindowIs
<1>10. PageAfter(all, start, limit) =
           IF n <= start + limit THEN PageOf(n, w, FALSE) ELSE PageOf(start + limit, w, TRUE)
  BY DEF PageAfter
<1>11. PageAfter(more, start, limit) =
           IF n + 1 <= start + limit THEN PageOf(n + 1, v, FALSE)
           ELSE PageOf(start + limit, v, TRUE)
  BY <1>1 DEF PageAfter
<1> HIDE DEF n, w, v
<1> SUFFICES Visited(PageAfter(all, start, limit), start, limit, x) =
                 PageAfter(more, start, limit)
  BY DEF more
<1>12. CASE n < start \/ n >= start + limit
  <2>1. Len(v) = Len(w) /\ Len(w) \in Nat /\ (Len(w) = 0 \/ start + Len(w) <= n)
    BY <1>1, <1>5, <1>8, <1>12
  <2>2. ASSUME NEW i \in 1 .. Len(v) PROVE v[i] = w[i]
    <3>1. i \in 1 .. Len(w) /\ start + i \in 1 .. n
      BY <1>1, <2>1
    <3> QED BY <1>2, <1>6, <1>9, <3>1
  <2>3. v = w
    BY <1>4, <1>7, <2>1, <2>2, SeqEqual
  <2>4. CASE n < start
    <3>1. n <= start + limit /\ n + 1 <= start + limit
      BY <1>1, <2>4
    <3>7. PageAfter(all, start, limit) = PageOf(n, w, FALSE)
      BY <1>10, <3>1
    <3>8. PageAfter(more, start, limit) = PageOf(n + 1, w, FALSE)
      BY <1>11, <2>3, <3>1
    <3>9. Visited(PageOf(n, w, FALSE), start, limit, x) = PageOf(n + 1, w, FALSE)
      BY <2>4 DEF Visited, PageOf
    <3> QED BY <3>7, <3>8, <3>9
  <2>5. CASE n = start + limit
    <3>1. ~(n + 1 <= start + limit) /\ n <= start + limit /\ ~(n < start) /\ Len(w) >= limit
      BY <1>1, <1>5, <2>5
    <3>7. PageAfter(all, start, limit) = PageOf(n, w, FALSE)
      BY <1>10, <3>1
    <3>8. PageAfter(more, start, limit) = PageOf(n, w, TRUE)
      BY <1>11, <2>3, <2>5, <3>1
    <3>9. Visited(PageOf(n, w, FALSE), start, limit, x) = PageOf(n, w, TRUE)
      BY <3>1 DEF Visited, PageOf
    <3> QED BY <3>7, <3>8, <3>9
  <2>6. CASE n > start + limit
    <3>1. ~(n + 1 <= start + limit) /\ ~(n <= start + limit)
      BY <1>1, <2>6
    <3>7. PageAfter(all, start, limit) = PageOf(start + limit, w, TRUE)
      BY <1>10, <3>1
    <3>8. PageAfter(more, start, limit) = PageOf(start + limit, w, TRUE)
      BY <1>11, <2>3, <3>1
    <3>9. Visited(PageOf(start + limit, w, TRUE), start, limit, x) = PageOf(start + limit, w, TRUE)
      BY DEF Visited, PageOf
    <3> QED BY <3>7, <3>8, <3>9
  <2> QED BY <1>1, <1>12, <2>4, <2>5, <2>6
<1>13. CASE start <= n /\ n < start + limit
  <2>1. Len(w) = n - start /\ Len(v) = Len(w) + 1 /\ Len(w) \in Nat
    BY <1>1, <1>5, <1>8, <1>13
  <2>2. Append(w, x) \in Seq(S) /\ Len(Append(w, x)) = Len(w) + 1
    BY <1>4, AppendProperties
  <2>3. \A i \in 1 .. Len(w) : Append(w, x)[i] = w[i]
    BY <1>4, AppendProperties
  <2>4. Append(w, x)[Len(w) + 1] = x
    BY <1>4, AppendProperties
  <2>5. ASSUME NEW i \in 1 .. Len(v) PROVE v[i] = Append(w, x)[i]
    <3>1. CASE i = Len(w) + 1
      BY <1>1, <1>3, <1>9, <2>1, <2>4, <3>1
    <3>2. CASE i \in 1 .. Len(w)
      <4>1. start + i \in 1 .. n
        BY <1>1, <2>1, <3>2
      <4> QED BY <1>2, <1>6, <1>9, <2>3, <3>2, <4>1
    <3> QED BY <2>1, <3>1, <3>2
  <2>6. v = Append(w, x)
    BY <1>7, <2>1, <2>2, <2>5, SeqEqual
  <2>7. n <= start + limit /\ n + 1 <= start + limit /\ ~(n < start) /\ ~(Len(w) >= limit)
    BY <1>1, <1>13, <2>1
  <2>8. PageAfter(all, start, limit) = PageOf(n, w, FALSE)
    BY <1>10, <2>7
  <2>9. PageAfter(more, start, limit) = PageOf(n + 1, Append(w, x), FALSE)
    BY <1>11, <2>6, <2>7
  <2>10. Visited(PageOf(n, w, FALSE), start, limit, x) = PageOf(n + 1, Append(w, x), FALSE)
    BY <2>7 DEF Visited, PageOf
  <2> QED BY <2>8, <2>9, <2>10
<1> QED BY <1>1, <1>12, <1>13

-----------------------------------------------------------------------------
(* The loop's states: after i entries, the page that those kept by then    *)
(* make.                                                                   *)
FillAt(list, kept, start, limit, page, i) ==
    IF list[i] \in kept THEN Visited(page, start, limit, list[i]) ELSE page

Filling(list, kept, start, limit) ==
    CHOOSE g : g = [i \in 0 .. Len(list) |->
        IF i = 0 THEN EmptyPage
        ELSE IF list[i] \in kept THEN Visited(g[i - 1], start, limit, list[i])
             ELSE g[i - 1]]

LEMMA FillingIs ==
    ASSUME NEW S, NEW list \in Seq(S), NEW kept, NEW n \in Nat, n = Len(list),
           NEW start \in Nat, NEW limit \in Nat, limit # 0
    PROVE  \A i \in 0 .. n : Filling(list, kept, start, limit)[i] =
                                 PageAfter(UpTo(list, kept)[i], start, limit)
<1> DEFINE F(g) == [i \in 0 .. n |->
               IF i = 0 THEN EmptyPage ELSE FillAt(list, kept, start, limit, g[i - 1], i)]
           u == UpTo(list, kept)
           f == Filling(list, kept, start, limit)
           g == [i \in 0 .. n |-> PageAfter(u[i], start, limit)]
<1>1. u[0] = <<>>
  BY UpToDef
<1>2. \A i \in 1 .. n : u[i] = KeptAt(list, kept, u[i - 1], i)
  BY UpToDef
<1>3. \A i \in 0 .. n : u[i] \in Seq(S)
  BY UpToType
<1> HIDE DEF u
<1>4. g[0] = EmptyPage
  <2>1. Len(u[0]) = 0 /\ u[0] \in Seq(S)
    BY <1>1, <1>3, EmptySeq
  <2>2. Window(u[0], start, limit) = <<>>
    <3>1. Window(u[0], start, limit) = SubSeq(u[0], start + 1, 0)
      BY <2>1 DEF Window
    <3> QED BY <3>1, SubSeqEmpty
  <2>3. Len(u[0]) <= start + limit
    BY <2>1
  <2>4. PageAfter(u[0], start, limit) = PageOf(0, <<>>, FALSE)
    BY <2>1, <2>2, <2>3 DEF PageAfter
  <2>5. g[0] = PageAfter(u[0], start, limit)
    OBVIOUS
  <2> QED BY <2>4, <2>5 DEF PageOf, EmptyPage
<1>5. ASSUME NEW i \in 1 .. n
      PROVE  g[i] = FillAt(list, kept, start, limit, g[i - 1], i)
  <2>1. i \in 0 .. n /\ i - 1 \in 0 .. n /\ list[i] \in S
    OBVIOUS
  <2>2. g[i] = PageAfter(u[i], start, limit) /\ g[i - 1] = PageAfter(u[i - 1], start, limit)
    BY <2>1
  <2> HIDE DEF g
  <2>3. CASE list[i] \in kept
    <3>1. u[i] = Append(u[i - 1], list[i])
      BY <1>2, <2>3 DEF KeptAt
    <3>2. u[i - 1] \in Seq(S)
      BY <1>3, <2>1
    <3>3. Visited(PageAfter(u[i - 1], start, limit), start, limit, list[i]) =
              PageAfter(Append(u[i - 1], list[i]), start, limit)
      BY <2>1, <3>2, VisitedPage
    <3> QED BY <2>2, <2>3, <3>1, <3>3 DEF FillAt
  <2>4. CASE list[i] \notin kept
    <3>1. u[i] = u[i - 1]
      BY <1>2, <2>4 DEF KeptAt
    <3> QED BY <2>2, <2>4, <3>1 DEF FillAt
  <2> QED BY <2>3, <2>4
<1>6. g = F(g)
  <2>1. \A i \in 0 .. n :
            g[i] = IF i = 0 THEN EmptyPage
                   ELSE FillAt(list, kept, start, limit, g[i - 1], i)
    <3> HIDE DEF g
    <3> QED BY <1>4, <1>5
  <2>2. g = [i \in 0 .. n |-> g[i]]
    OBVIOUS
  <2> HIDE DEF g
  <2> QED BY <2>1, <2>2
<1>7. f = CHOOSE h : h = F(h)
  BY DEF Filling, FillAt
<1>8. f = F(f)
  <2> HIDE DEF F, f, g
  <2> QED BY <1>6, <1>7
<1> HIDE DEF f, g
<1>9. f[0] = g[0]
  <2>1. f[0] = EmptyPage
    BY <1>8
  <2> QED BY <1>4, <2>1
<1>10. \A i \in 1 .. n : f[i] = FillAt(list, kept, start, limit, f[i - 1], i)
  BY <1>8
<1> DEFINE N == {m \in Nat : m <= n => f[m] = g[m]}
<1>11. 0 \in N
  BY <1>9
<1>12. ASSUME NEW m \in N PROVE m + 1 \in N
  <2> SUFFICES ASSUME m + 1 <= n PROVE f[m + 1] = g[m + 1]
    OBVIOUS
  <2>1. m + 1 \in 1 .. n /\ m + 1 - 1 = m /\ f[m] = g[m]
    OBVIOUS
  <2>2. f[m + 1] = FillAt(list, kept, start, limit, f[m + 1 - 1], m + 1)
    BY <1>10, <2>1
  <2>3. g[m + 1] = FillAt(list, kept, start, limit, g[m + 1 - 1], m + 1)
    BY <1>5, <2>1
  <2> QED BY <2>1, <2>2, <2>3
<1>13. N = Nat
  <2> HIDE DEF N
  <2>1. N \in SUBSET Nat
    BY DEF N
  <2> QED BY <1>11, <1>12, <2>1, NatInductive
<1>14. \A i \in 0 .. n : f[i] = g[i]
  BY <1>13
<1> QED BY <1>14 DEF f, g, u

(* A page is the window of the entries kept that begins at page * limit.   *)
LEMMA PagedIs ==
    ASSUME NEW S, NEW list \in Seq(S), NEW kept, NEW page \in Nat, NEW limit \in Nat,
           limit # 0, NEW start \in Nat, start = page * limit, start <= U32Max
    PROVE  Paged(list, kept, page, limit) = Window(Filtered(list, kept), start, limit)
<1> DEFINE n == Len(list)
<1>1. n \in Nat /\ n \in 0 .. n
  OBVIOUS
<1>2. Paged(list, kept, page, limit) = Filling(list, kept, start, limit)[n].entries
  <2>1. ~(page * limit > U32Max)
    BY ListingAssumption
  <2>2. Paged(list, kept, page, limit) = Filling(list, kept, page * limit, limit)[n].entries
    BY <2>1 DEF Paged, Filling
  <2> QED BY <2>2
<1>3. Filling(list, kept, start, limit)[n] = PageAfter(UpTo(list, kept)[n], start, limit)
  BY <1>1, FillingIs
<1>4. \A all : PageAfter(all, start, limit).entries = Window(all, start, limit)
  BY DEF PageAfter, PageOf
<1>5. Filtered(list, kept) = UpTo(list, kept)[n]
  BY FilteredIsUpTo
<1> QED BY <1>2, <1>3, <1>4, <1>5

LEMMA FilteredType ==
    ASSUME NEW S, NEW list \in Seq(S), NEW kept
    PROVE  Filtered(list, kept) \in Seq(S)
<1>1. Len(list) \in Nat /\ Len(list) \in 0 .. Len(list)
  OBVIOUS
<1> QED BY <1>1, UpToType, FilteredIsUpTo

-----------------------------------------------------------------------------
(* The pages one after the other.  Two windows that meet make one.         *)
LEMMA WindowsJoin ==
    ASSUME NEW S, NEW all \in Seq(S), NEW s \in Nat, NEW limit \in Nat
    PROVE  Window(all, 0, s) \o Window(all, s, limit) = Window(all, 0, s + limit)
<1> DEFINE n == Len(all)
           a == Window(all, 0, s)
           b == Window(all, s, limit)
           c == Window(all, 0, s + limit)
<1>1. n \in Nat /\ s + limit \in Nat /\ 0 \in Nat
  OBVIOUS
<1>2. a \in Seq(S) /\ b \in Seq(S) /\ c \in Seq(S)
  BY <1>1, WindowIs
<1>3. Len(a) = IF n <= 0 THEN 0 ELSE IF n <= 0 + s THEN n - 0 ELSE s
  BY <1>1, WindowIs
<1>4. Len(b) = IF n <= s THEN 0 ELSE IF n <= s + limit THEN n - s ELSE limit
  BY WindowIs
<1>5. Len(c) = IF n <= 0 THEN 0 ELSE IF n <= 0 + (s + limit) THEN n - 0 ELSE s + limit
  BY <1>1, WindowIs
<1>6. \A i \in 1 .. Len(a) : a[i] = all[0 + i]
  BY <1>1, WindowIs
<1>7. \A i \in 1 .. Len(b) : b[i] = all[s + i]
  BY WindowIs
<1>8. \A i \in 1 .. Len(c) : c[i] = all[0 + i]
  BY <1>1, WindowIs
<1> HIDE DEF a, b, c, n
<1>9. a \o b \in Seq(S) /\ Len(a \o b) = Len(a) + Len(b)
  BY <1>2, ConcatProperties
<1>10. \A i \in 1 .. Len(a) + Len(b) :
           (a \o b)[i] = IF i <= Len(a) THEN a[i] ELSE b[i - Len(a)]
  BY <1>2, ConcatProperties
<1>11. Len(a) \in Nat /\ Len(b) \in Nat /\ Len(c) = Len(a) + Len(b)
       /\ (Len(b) # 0 => Len(a) = s)
  BY <1>1, <1>3, <1>4, <1>5
<1>12. ASSUME NEW i \in 1 .. Len(a) + Len(b) PROVE (a \o b)[i] = c[i]
  <2>1. c[i] = all[i]
    BY <1>8, <1>11
  <2>2. CASE i <= Len(a)
    BY <1>6, <1>10, <1>11, <2>1, <2>2
  <2>3. CASE ~(i <= Len(a))
    <3>1. Len(a) = s /\ i - s \in 1 .. Len(b) /\ s + (i - s) = i
      BY <1>11, <2>3
    <3> QED BY <1>7, <1>10, <2>1, <2>3, <3>1
  <2> QED BY <2>2, <2>3
<1>13. a \o b = c
  BY <1>2, <1>9, <1>11, <1>12, SeqEqual
<1> QED BY <1>13 DEF a, b, c

(* The flattened sequence of the first p windows of a list is its prefix.  *)
Flattening(pages) ==
    CHOOSE g : g = [i \in 1 .. Len(pages) |->
        IF i = 1 THEN pages[i] ELSE g[i - 1] \o pages[i]]

LEMMA WindowsFlatten ==
    ASSUME NEW S, NEW all \in Seq(S), NEW limit \in Nat, NEW P \in Nat \ {0},
           NEW pages, Len(pages) = P,
           \A i \in 1 .. P : pages[i] = Window(all, (i - 1) * limit, limit)
    PROVE  FlattenSeq(pages) = Window(all, 0, P * limit)
<1> DEFINE F(g) == [i \in 1 .. P |-> IF i = 1 THEN pages[i] ELSE g[i - 1] \o pages[i]]
           f == Flattening(pages)
           g == [i \in 1 .. P |-> Window(all, 0, i * limit)]
<1>1. FlattenSeq(pages) = f[P]
  BY DEF FlattenSeq, Flattening
<1>2. g[1] = pages[1]
  <2>1. 1 \in 1 .. P /\ 1 * limit = limit /\ (1 - 1) * limit = 0
    OBVIOUS
  <2>2. pages[1] = Window(all, (1 - 1) * limit, limit)
    BY <2>1
  <2>3. g[1] = Window(all, 0, 1 * limit)
    BY <2>1
  <2> QED BY <2>1, <2>2, <2>3
<1>3. ASSUME NEW i \in 1 .. P, i # 1 PROVE g[i] = g[i - 1] \o pages[i]
  <2>1. i - 1 \in 1 .. P
    BY <1>3
  <2>2. PICK s \in Nat : s = (i - 1) * limit
    BY <2>1
  <2>3. i * limit = s + limit
    BY <2>2
  <2>4. g[i - 1] = Window(all, 0, s) /\ g[i] = Window(all, 0, s + limit)
    BY <2>1, <2>2, <2>3
  <2>5. pages[i] = Window(all, s, limit)
    BY <2>2
  <2>6. Window(all, 0, s) \o Window(all, s, limit) = Window(all, 0, s + limit)
    BY WindowsJoin
  <2> QED BY <2>4, <2>5, <2>6
<1>4. g = F(g)
  <2>1. \A i \in 1 .. P : g[i] = IF i = 1 THEN pages[i] ELSE g[i - 1] \o pages[i]
    <3> HIDE DEF g
    <3> QED BY <1>2, <1>3
  <2>2. g = [i \in 1 .. P |-> g[i]]
    OBVIOUS
  <2> HIDE DEF g
  <2> QED BY <2>1, <2>2
<1>5. f = CHOOSE h : h = F(h)
  BY DEF Flattening
<1>6. f = F(f)
  <2> HIDE DEF F, f, g
  <2> QED BY <1>4, <1>5
<1> HIDE DEF f, g
<1>7. f[1] = pages[1]
  BY <1>6
<1>8. \A i \in 1 .. P : i # 1 => f[i] = f[i - 1] \o pages[i]
  BY <1>6
<1> DEFINE N == {m \in Nat : m \in 1 .. P => f[m] = g[m]}
<1>9. 0 \in N
  OBVIOUS
<1>10. ASSUME NEW m \in N PROVE m + 1 \in N
  <2> SUFFICES ASSUME m + 1 \in 1 .. P PROVE f[m + 1] = g[m + 1]
    OBVIOUS
  <2>1. CASE m = 0
    BY <1>2, <1>7, <2>1
  <2>2. CASE m # 0
    <3> DEFINE k == m + 1
    <3>1. k \in 1 .. P /\ k # 1 /\ k - 1 = m /\ f[m] = g[m]
      BY <2>2
    <3> HIDE DEF k
    <3>2. f[k] = f[k - 1] \o pages[k]
      BY <1>8, <3>1
    <3>3. g[k] = g[k - 1] \o pages[k]
      BY <1>3, <3>1
    <3>4. f[k] = g[k]
      BY <3>1, <3>2, <3>3
    <3> QED BY <3>4 DEF k
  <2> QED BY <2>1, <2>2
<1>11. N = Nat
  <2> HIDE DEF N
  <2>1. N \in SUBSET Nat
    BY DEF N
  <2> QED BY <1>9, <1>10, <2>1, NatInductive
<1>12. f[P] = g[P]
  <2>1. P \in N
    BY <1>11
  <2> QED BY <2>1
<1>13. g[P] = Window(all, 0, P * limit)
  BY DEF g
<1> QED BY <1>1, <1>12, <1>13 DEF f, g

-----------------------------------------------------------------------------
(* The pages of a list, for as long as the product fits a u32, give the    *)
(* entries kept, in order, every page but the last one filled.             *)
LastPage(limit) == U32Max \div limit

LEMMA LastPageIs ==
    ASSUME NEW limit \in Nat, limit # 0
    PROVE  /\ LastPage(limit) \in Nat
           /\ (LastPage(limit) + 1) * limit > U32Max
           /\ \A n \in Nat : n <= LastPage(limit) => n * limit <= U32Max
BY ListingAssumption DEF LastPage

LEMMA PagesList ==
    ASSUME NEW S, NEW list \in Seq(S), NEW kept, NEW limit \in Nat, limit # 0
    PROVE  LET all == Filtered(list, kept)
               pages == [n \in 1 .. LastPage(limit) + 1 |->
                            Paged(list, kept, n - 1, limit)] IN
           /\ IsPrefix(FlattenSeq(pages), all)
           /\ Len(all) <= U32Max => FlattenSeq(pages) = all
           /\ \A n \in 0 .. LastPage(limit) - 1 :
                 /\ Len(Paged(list, kept, n, limit)) <= limit
                 /\ Paged(list, kept, n + 1, limit) # <<>> =>
                       Len(Paged(list, kept, n, limit)) = limit
<1> DEFINE all == Filtered(list, kept)
           P == LastPage(limit) + 1
           Read(n) == Paged(list, kept, n, limit)
           pages == [n \in 1 .. P |-> Read(n - 1)]
<1>1. P \in Nat \ {0} /\ P * limit > U32Max /\ LastPage(limit) \in Nat
  BY LastPageIs
<1>2. all \in Seq(S) /\ Len(all) \in Nat
  BY FilteredType, LenProperties
<1>3. ASSUME NEW n \in Nat, n <= LastPage(limit)
      PROVE  Read(n) = Window(all, n * limit, limit)
  <2>1. n * limit \in Nat /\ n * limit <= U32Max
    BY <1>3, LastPageIs
  <2> QED BY <2>1, PagedIs
<1> HIDE DEF Read, all
<1>4. FlattenSeq(pages) = Window(all, 0, P * limit)
  <2>1. Len(pages) = P
    BY <1>1
  <2>2. ASSUME NEW i \in 1 .. P PROVE pages[i] = Window(all, (i - 1) * limit, limit)
    <3>1. i - 1 \in Nat /\ i - 1 <= LastPage(limit)
      BY <1>1
    <3>2. pages[i] = Read(i - 1)
      OBVIOUS
    <3> QED BY <1>3, <3>1, <3>2
  <2> HIDE DEF pages, P
  <2> QED BY <1>1, <1>2, <2>1, <2>2, WindowsFlatten
<1> DEFINE w == Window(all, 0, P * limit)
<1>5. P * limit \in Nat /\ 0 \in Nat
  BY <1>1
<1>6. w \in Seq(S)
  BY <1>2, <1>5, WindowIs
<1>7. Len(w) = IF Len(all) <= 0 THEN 0
               ELSE IF Len(all) <= 0 + P * limit THEN Len(all) - 0 ELSE P * limit
  BY <1>2, <1>5, WindowIs
<1>8. \A i \in 1 .. Len(w) : w[i] = all[0 + i]
  BY <1>2, <1>5, WindowIs
<1>9. Len(w) \in Nat /\ Len(w) <= Len(all) /\ (Len(all) <= U32Max => Len(w) = Len(all))
  <2> DEFINE e == P * limit
  <2>1. e \in Nat /\ e > U32Max /\ U32Max \in Nat
    BY <1>1, <1>5, ListingAssumption
  <2>2. Len(w) = IF Len(all) <= 0 THEN 0
                 ELSE IF Len(all) <= 0 + e THEN Len(all) - 0 ELSE e
    BY <1>7
  <2> HIDE DEF e, w
  <2> QED BY <1>2, <2>1, <2>2
<1> HIDE DEF w
<1>10. \A i \in 1 .. Len(w) : w[i] = all[i]
  BY <1>8, <1>9
<1>11. IsPrefix(w, all)
  <2>1. SubSeq(w, 1, Len(w)) = w
    BY <1>6, SubSeqFull
  <2> DEFINE v == SubSeq(all, 1, Len(w))
  <2>2. \A i \in 1 .. Len(w) : all[i] \in S
    BY <1>2, <1>9, ElementOfSeq
  <2>3. v \in Seq(S)
    BY <1>9, <2>2, SubSeqProperties
  <2>4. Len(v) = IF 1 <= Len(w) THEN Len(w) - 1 + 1 ELSE 0
    BY <1>9, <2>2, SubSeqProperties
  <2>5. \A i \in 1 .. Len(w) - 1 + 1 : v[i] = all[1 + i - 1]
    BY <1>9, <2>2, SubSeqProperties
  <2> HIDE DEF v
  <2>6. Len(v) = Len(w) /\ \A i \in 1 .. Len(w) : w[i] = v[i]
    BY <1>9, <1>10, <2>4, <2>5
  <2>7. w = v
    BY <1>6, <2>3, <2>6, SeqEqual
  <2> QED BY <1>9, <2>1, <2>7 DEF IsPrefix, v
<1>12. Len(all) <= U32Max => w = all
  BY <1>2, <1>6, <1>9, <1>10, SeqEqual
<1>13. ASSUME NEW n \in 0 .. LastPage(limit) - 1
       PROVE  Len(Read(n)) <= limit /\ (Read(n + 1) # <<>> => Len(Read(n)) = limit)
  <2>1. n \in Nat /\ n <= LastPage(limit) /\ n + 1 \in Nat /\ n + 1 <= LastPage(limit)
    BY <1>1
  <2>2. PICK s \in Nat : s = n * limit
    BY <2>1
  <2>3. (n + 1) * limit = s + limit
    BY <2>1, <2>2
  <2>4. Read(n) = Window(all, s, limit) /\ Read(n + 1) = Window(all, s + limit, limit)
    BY <1>3, <2>1, <2>2, <2>3
  <2>5. Len(Window(all, s, limit)) =
            IF Len(all) <= s THEN 0
            ELSE IF Len(all) <= s + limit THEN Len(all) - s ELSE limit
    BY <1>2, WindowIs
  <2>6. s + limit \in Nat
    OBVIOUS
  <2>7. /\ Window(all, s + limit, limit) \in Seq(S)
        /\ Len(Window(all, s + limit, limit)) =
               IF Len(all) <= s + limit THEN 0
               ELSE IF Len(all) <= s + limit + limit THEN Len(all) - (s + limit) ELSE limit
    <3>1. Window(all, s + limit, limit) \in Seq(S)
      BY <1>2, <2>6, WindowIs
    <3>2. Len(Window(all, s + limit, limit)) =
               IF Len(all) <= s + limit THEN 0
               ELSE IF Len(all) <= s + limit + limit THEN Len(all) - (s + limit) ELSE limit
      BY <1>2, <2>6, WindowIs
    <3> QED BY <3>1, <3>2
  <2>8. Len(all) <= s + limit => Read(n + 1) = <<>>
    BY <2>4, <2>7, EmptySeq
  <2> QED BY <1>2, <2>4, <2>5, <2>8
<1> QED BY <1>4, <1>11, <1>12, <1>13 DEF w, all, Read

-----------------------------------------------------------------------------
(* campaign_manager lib.rs:274-318: in every reachable state the pages of  *)
(* list_active_campaigns, of whatever size and for whatever filter, list   *)
(* the active campaigns once each in order of creation.                    *)
THEOREM ActivePagesComplete == Spec => []ActivePagesListAll
<1>1. TypeOK => ActivePagesListAll
  <2> SUFFICES ASSUME TypeOK, NEW type \in Types
      PROVE  LET all == Filtered(ids, {c \in Range(ids) : Active(type, c)})
                 Read(n) == list_active_campaigns(type, n) IN
             /\ IsPrefix(Concatenated(Read, PageSize), all)
             /\ Len(all) <= U32Max => Concatenated(Read, PageSize) = all
             /\ Filled(Read, PageSize)
    BY DEF ActivePagesListAll
  <2>1. ids \in Seq(CampaignIds) /\ PageSize \in Nat /\ PageSize # 0
    BY ListingAssumption DEF TypeOK
  <2> QED BY <2>1, PagesList DEF Concatenated, Filled, list_active_campaigns, LastPage
<1> QED BY <1>1, TypeCorrect, PTL

(* registry lib.rs:151-190: the same of get_campaigns, for every limit,    *)
(* over the entries that the manager and direct calls have pushed.         *)
THEOREM IndexPagesComplete == Spec => []IndexPagesListAll
<1>1. TypeOK => IndexPagesListAll
  <2> SUFFICES ASSUME TypeOK, NEW type \in Types, NEW limit \in 1 .. MaxIndex
      PROVE  LET all == Filtered(index, {e \in Range(index) : Matches(e.campaign_type, type)})
                 Read(n) == get_campaigns(type, n, limit) IN
             /\ IsPrefix(Concatenated(Read, limit), all)
             /\ Len(all) <= U32Max => Concatenated(Read, limit) = all
             /\ Filled(Read, limit)
    BY DEF IndexPagesListAll
  <2>1. index \in Seq(IndexEntry) /\ limit \in Nat /\ limit # 0
    BY RegistryAssumption DEF TypeOK
  <2> QED BY <2>1, PagesList DEF Concatenated, Filled, get_campaigns, LastPage
<1> QED BY <1>1, TypeCorrect, PTL
=============================================================================
