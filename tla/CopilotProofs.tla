---------------------------- MODULE CopilotProofs ----------------------------
(***************************************************************************)
(* Proofs about the Copilot's events, for any runs, any number of pages'   *)
(* requests, approvals, database errors and deaths of the agent: what a    *)
(* page is sent is the run's events in order, and a turn whose end is told *)
(* is durable.                                                             *)
(***************************************************************************)
EXTENDS Copilot, FoldFacts, SequenceTheorems, TLAPS

Words == {"run.started", "run.step", "question", "widget", "cost", "approval.required",
          "truth_card", "message"}
Types == Words \union Terminal
Statuses == {"none", "running", "completed", "blocked", "error"}
Event == [type : Types, seq : Nat, n : Nat]
StreamStates == {"off", "asked", "sawRunning", "sawEnd", "open", "told", "cut"}

-----------------------------------------------------------------------------
(* Sequences of events. *)

\* The events of one publish: places after those of p, numbers after q.
Batch(types, q, p) ==
  [i \in DOMAIN types |-> [type |-> types[i], seq |-> q + i, n |-> Len(p) + i]]

\* The events e are of these types, and their places come after the first P.
ComeAfter(e, types, P) ==
  /\ Len(e) = Len(types)
  /\ \A i \in 1 .. Len(types) : e[i].n = P + i /\ e[i].type = types[i]

\* The buffer b is the last part of all that was published.
TailOf(b, p) ==
  /\ Len(b) <= Len(p)
  /\ \A i \in 1 .. Len(b) : b[i].n = Len(p) - Len(b) + i /\ b[i].type = p[b[i].n]

\* The places h are consecutive places of p, and none but the last is an end.
InOrder(h, p) ==
  /\ \A i \in 1 .. Len(h) : h[i] \in 1 .. Len(p)
  /\ \A i \in 1 .. Len(h) - 1 : h[i + 1] = h[i] + 1 /\ p[h[i]] \notin Terminal

LEMMA Joined ==
  ASSUME NEW S, NEW s \in Seq(S), NEW t \in Seq(S)
  PROVE  /\ s \o t \in Seq(S) /\ Len(s \o t) = Len(s) + Len(t)
         /\ Len(s) \in Nat /\ Len(t) \in Nat
         /\ \A i \in 1 .. Len(s) : (s \o t)[i] = s[i]
         /\ \A i \in 1 .. Len(t) : (s \o t)[Len(s) + i] = t[i]
<1>1. Len(s) \in Nat /\ Len(t) \in Nat
  OBVIOUS
<1>2. /\ s \o t \in Seq(S) /\ Len(s \o t) = Len(s) + Len(t)
      /\ \A i \in 1 .. Len(s) + Len(t) :
            (s \o t)[i] = IF i <= Len(s) THEN s[i] ELSE t[i - Len(s)]
  BY ConcatProperties
<1>3. ASSUME NEW i \in 1 .. Len(t) PROVE (s \o t)[Len(s) + i] = t[i]
  <2>1. Len(s) + i \in 1 .. Len(s) + Len(t) /\ ~ (Len(s) + i <= Len(s)) /\ Len(s) + i - Len(s) = i
    BY <1>1
  <2> QED BY <1>2, <2>1
<1> QED BY <1>1, <1>2, <1>3

LEMMA BatchIs ==
  ASSUME NEW types \in Seq(Types), NEW q \in Nat, NEW p \in Seq(Types)
  PROVE  /\ Batch(types, q, p) \in Seq(Event)
         /\ Len(Batch(types, q, p)) = Len(types)
         /\ DOMAIN types = 1 .. Len(types) /\ Len(types) \in Nat /\ Len(p) \in Nat
         /\ \A i \in 1 .. Len(types) :
              LET e == Batch(types, q, p)[i] IN
              e \in Event /\ e.type = types[i] /\ e.seq = q + i /\ e.n = Len(p) + i
         /\ ComeAfter(Batch(types, q, p), types, Len(p))
<1> DEFINE e == Batch(types, q, p)
<1>1. DOMAIN types = 1 .. Len(types) /\ Len(types) \in Nat /\ Len(p) \in Nat
  OBVIOUS
<1>2. \A i \in 1 .. Len(types) :
        e[i] \in Event /\ e[i].type = types[i] /\ e[i].seq = q + i /\ e[i].n = Len(p) + i
  BY <1>1 DEF Batch, Event
<1>3. e = [i \in 1 .. Len(types) |-> e[i]]
  BY <1>1 DEF Batch
<1> HIDE DEF e
<1>4. e \in Seq(Event) /\ Len(e) = Len(types)
  BY <1>1, <1>2, <1>3
<1> QED BY <1>1, <1>2, <1>4 DEF e, ComeAfter

\* What a page is sent of a sequence of events.
LEMMA UpToEndIs ==
  ASSUME NEW e \in Seq(Event)
  PROVE  /\ UpToEnd(e) \in Seq(Event)
         /\ Len(UpToEnd(e)) <= Len(e)
         /\ \A i \in 1 .. Len(UpToEnd(e)) : UpToEnd(e)[i] = e[i]
         /\ \A i \in 1 .. Len(UpToEnd(e)) - 1 : e[i].type \notin Terminal
         /\ Ends(e) = {} => UpToEnd(e) = e /\ \A i \in 1 .. Len(e) : e[i].type \notin Terminal
         /\ Ends(e) # {} => Len(UpToEnd(e)) > 0
<1>1. DOMAIN e = 1 .. Len(e) /\ Len(e) \in Nat
  OBVIOUS
<1>2. CASE Ends(e) = {}
  BY <1>1, <1>2 DEF UpToEnd, Ends
<1>3. CASE Ends(e) # {}
  <2>1. Ends(e) \in SUBSET Nat
    BY <1>1 DEF Ends
  <2>2. Min(Ends(e)) \in Ends(e) /\ \A m \in Ends(e) : Min(Ends(e)) <= m
    BY <1>3, <2>1, MinIs
  <2> DEFINE k == Min(Ends(e))
  <2> HIDE DEF k
  <2>6. k \in 1 .. Len(e) /\ \A i \in 1 .. k - 1 : i \in 1 .. Len(e) /\ i \notin Ends(e)
    <3>1. k \in 1 .. Len(e)
      BY <1>1, <2>2 DEF k, Ends
    <3>2. \A i \in Ends(e) : k <= i
      BY <2>2 DEF k
    <3> QED BY <1>1, <3>1, <3>2
  <2>3. k \in 1 .. Len(e) /\ \A i \in 1 .. k - 1 : e[i].type \notin Terminal
    BY <1>1, <2>6 DEF Ends
  <2>4. UpToEnd(e) = SubSeq(e, 1, k)
    BY <1>3 DEF UpToEnd, k
  <2>5. /\ UpToEnd(e) \in Seq(Event) /\ Len(UpToEnd(e)) = k
        /\ \A i \in 1 .. k : UpToEnd(e)[i] = e[i]
    BY <1>1, <2>3, <2>4
  <2> QED BY <1>1, <1>3, <2>3, <2>5
<1> QED BY <1>2, <1>3

LEMMA PlacesIs ==
  ASSUME NEW e \in Seq(Event)
  PROVE  /\ Places(e) \in Seq(Nat) /\ Len(Places(e)) = Len(e)
         /\ \A i \in 1 .. Len(e) : Places(e)[i] = e[i].n
<1>1. DOMAIN e = 1 .. Len(e) /\ Len(e) \in Nat /\ \A i \in 1 .. Len(e) : e[i] \in Event
  OBVIOUS
<1>2. Places(e) = [i \in 1 .. Len(e) |-> e[i].n] /\ \A i \in 1 .. Len(e) : e[i].n \in Nat
  BY <1>1 DEF Places, Event
<1> QED BY <1>1, <1>2

\* The arithmetic of the lemmas that follow, on lengths and elements.
Tails(B, P, T, b, e, be, p, ty, pt) ==
  /\ B <= P /\ \A i \in 1 .. B : b[i].n = P - B + i /\ b[i].type = p[b[i].n]
  /\ \A i \in 1 .. B : be[i] = b[i]
  /\ \A i \in 1 .. T : be[B + i] = e[i]
  /\ \A i \in 1 .. P : pt[i] = p[i]
  /\ \A i \in 1 .. T : pt[P + i] = ty[i]
  /\ \A i \in 1 .. T : e[i].n = P + i /\ e[i].type = ty[i]

LEMMA TailJoins ==
  ASSUME NEW B \in Nat, NEW P \in Nat, NEW T \in Nat, NEW b, NEW e, NEW be, NEW p, NEW ty, NEW pt,
         Tails(B, P, T, b, e, be, p, ty, pt)
  PROVE  \A i \in 1 .. B + T : be[i].n = P - B + i /\ be[i].type = pt[be[i].n]
<1> USE DEF Tails
<1> SUFFICES ASSUME NEW i \in 1 .. B + T
             PROVE  be[i].n = P - B + i /\ be[i].type = pt[be[i].n]
  OBVIOUS
<1>1. CASE i \in 1 .. B
  <2>1. P - B + i \in 1 .. P
    BY <1>1
  <2>2. be[i] = b[i] /\ b[i].n = P - B + i /\ pt[P - B + i] = p[P - B + i]
    BY <1>1, <2>1
  <2> QED BY <1>1, <2>2
<1>2. CASE i \notin 1 .. B
  <2>1. PICK j \in 1 .. T : i = B + j
    <3>1. i - B \in 1 .. T /\ i = B + (i - B)
      BY <1>2
    <3> QED BY <3>1
  <2>2. be[i] = e[j] /\ e[j].n = P + j /\ e[j].type = ty[j] /\ pt[P + j] = ty[j]
    BY <2>1
  <2>3. P - B + i = P + j
    BY <2>1
  <2> QED BY <2>2, <2>3
<1> QED BY <1>1, <1>2

Orders(H, V, P, T, h, g, p, pt, ty) ==
  /\ V <= T
  /\ \A i \in 1 .. H : g[i] = h[i]
  /\ \A i \in 1 .. V : g[H + i] = P + i
  /\ \A i \in 1 .. P : pt[i] = p[i]
  /\ \A i \in 1 .. T : pt[P + i] = ty[i]
  /\ \A i \in 1 .. V - 1 : ty[i] \notin Terminal
  /\ \A i \in 1 .. H : h[i] \in 1 .. P
  /\ \A i \in 1 .. H - 1 : h[i + 1] = h[i] + 1 /\ p[h[i]] \notin Terminal
  /\ H # 0 => h[H] = P /\ p[P] \notin Terminal

LEMMA OrderJoins ==
  ASSUME NEW H \in Nat, NEW V \in Nat, NEW P \in Nat, NEW T \in Nat,
         NEW h, NEW g, NEW p, NEW pt, NEW ty, Orders(H, V, P, T, h, g, p, pt, ty)
  PROVE  /\ \A i \in 1 .. H + V : g[i] \in 1 .. P + T
         /\ \A i \in 1 .. H + V - 1 : g[i + 1] = g[i] + 1 /\ pt[g[i]] \notin Terminal
<1> USE DEF Orders
<1>1. ASSUME NEW i \in 1 .. H + V PROVE g[i] \in 1 .. P + T
  <2>1. CASE i \in 1 .. H
    <3>1. g[i] = h[i] /\ h[i] \in 1 .. P
      BY <2>1
    <3> QED BY <3>1
  <2>2. CASE i \notin 1 .. H
    <3>1. i - H \in 1 .. V /\ i = H + (i - H)
      BY <2>2
    <3>2. g[H + (i - H)] = P + (i - H)
      BY <3>1
    <3> QED BY <3>1, <3>2
  <2> QED BY <2>1, <2>2
<1>2. ASSUME NEW i \in 1 .. H + V - 1
      PROVE  g[i + 1] = g[i] + 1 /\ pt[g[i]] \notin Terminal
  <2>1. CASE i < H
    <3>1. i \in 1 .. H - 1 /\ i \in 1 .. H /\ i + 1 \in 1 .. H
      BY <2>1
    <3>2. g[i] = h[i] /\ g[i + 1] = h[i + 1] /\ h[i + 1] = h[i] + 1 /\ p[h[i]] \notin Terminal
      BY <3>1
    <3>3. pt[h[i]] = p[h[i]]
      BY <3>1
    <3> QED BY <3>2, <3>3
  <2>2. CASE i = H
    <3>1. H # 0 /\ H \in 1 .. H /\ 1 \in 1 .. V
      BY <2>2
    <3>2. g[H] = P /\ g[H + 1] = P + 1 /\ p[P] \notin Terminal /\ h[H] \in 1 .. P
      BY <3>1
    <3>3. pt[P] = p[P]
      BY <3>1, <3>2
    <3> QED BY <2>2, <3>2, <3>3
  <2>3. CASE i > H
    <3> DEFINE j == i - H
    <3>1. j \in 1 .. V - 1 /\ j \in 1 .. V /\ j + 1 \in 1 .. V /\ j \in 1 .. T
          /\ i = H + j /\ i + 1 = H + (j + 1)
      BY <2>3
    <3> HIDE DEF j
    <3>2. /\ g[H + j] = P + j /\ g[H + (j + 1)] = P + (j + 1)
          /\ ty[j] \notin Terminal /\ pt[P + j] = ty[j]
      BY <3>1
    <3> QED BY <3>1, <3>2
  <2> QED BY <2>1, <2>2, <2>3
<1> QED BY <1>1, <1>2

\* What is published goes on the end of the buffer as of the history.
LEMMA TailGrows ==
  ASSUME NEW b \in Seq(Event), NEW p \in Seq(Types), NEW types \in Seq(Types), NEW e \in Seq(Event),
         ComeAfter(e, types, Len(p)),
         TailOf(b, p)
  PROVE  TailOf(b \o e, p \o types)
<1> DEFINE be == b \o e
           pt == p \o types
<1>1. e \in Seq(Event)
  OBVIOUS
<1>2. Len(e) = Len(types) /\ Len(types) \in Nat /\ Len(p) \in Nat
  BY DEF ComeAfter
<1>3. \A i \in 1 .. Len(types) : e[i].n = Len(p) + i /\ e[i].type = types[i]
  BY DEF ComeAfter
<1>4. Len(be) = Len(b) + Len(e) /\ Len(b) \in Nat
  BY <1>1, Joined
<1>5. \A i \in 1 .. Len(b) : be[i] = b[i]
  BY <1>1, Joined
<1>6. \A i \in 1 .. Len(e) : be[Len(b) + i] = e[i]
  BY <1>1, Joined
<1>7. Len(pt) = Len(p) + Len(types)
  BY Joined
<1>8. \A i \in 1 .. Len(p) : pt[i] = p[i]
  BY Joined
<1>9. \A i \in 1 .. Len(types) : pt[Len(p) + i] = types[i]
  BY Joined
<1>10. /\ Len(b) <= Len(p)
       /\ \A i \in 1 .. Len(b) : b[i].n = Len(p) - Len(b) + i /\ b[i].type = p[b[i].n]
  BY DEF TailOf
<1> HIDE DEF be, pt
<1>11. \A i \in 1 .. Len(types) : be[Len(b) + i] = e[i]
  BY <1>2, <1>6
<1>12. \A i \in 1 .. Len(b) + Len(types) :
          be[i].n = Len(p) - Len(b) + i /\ be[i].type = pt[be[i].n]
  <2>1. Tails(Len(b), Len(p), Len(types), b, e, be, p, types, pt)
    BY <1>3, <1>5, <1>8, <1>9, <1>10, <1>11 DEF Tails
  <2>2. Len(b) \in Nat /\ Len(p) \in Nat /\ Len(types) \in Nat
    BY <1>2, <1>4
  <2> QED BY <2>1, <2>2, TailJoins
<1>13. Len(be) <= Len(pt)
  BY <1>2, <1>4, <1>7, <1>10
<1>14. TailOf(be, pt)
  BY <1>2, <1>4, <1>7, <1>12, <1>13 DEF TailOf
<1> QED BY <1>14 DEF be, pt

\* A page that has heard everything, or nothing, goes on in order.
LEMMA HeardGrows ==
  ASSUME NEW h \in Seq(Nat), NEW p \in Seq(Types), NEW types \in Seq(Types), NEW e \in Seq(Event),
         ComeAfter(e, types, Len(p)),
         InOrder(h, p), Len(h) # 0 => h[Len(h)] = Len(p) /\ p[Len(p)] \notin Terminal
  PROVE  LET g == h \o Places(UpToEnd(e)) IN
         /\ g \in Seq(Nat) /\ InOrder(g, p \o types)
         /\ After(e) = "open" /\ Len(g) # 0 =>
              /\ g[Len(g)] = Len(p \o types)
              /\ (p \o types)[Len(p \o types)] \notin Terminal
         /\ Len(h) # 0 => Len(g) # 0 /\ g[1] = h[1]
         /\ Len(h) = 0 /\ Len(g) # 0 => g[1] = Len(p) + 1
         /\ Len(g) = 0 => Len(types) = 0
<1> DEFINE u == UpToEnd(e)
           v == Places(u)
           g == h \o v
           pt == p \o types
<1>1. e \in Seq(Event)
  OBVIOUS
<1>2. Len(e) = Len(types) /\ Len(types) \in Nat /\ Len(p) \in Nat
  BY DEF ComeAfter
<1>3. \A i \in 1 .. Len(types) : e[i].n = Len(p) + i /\ e[i].type = types[i]
  BY DEF ComeAfter
<1>4. u \in Seq(Event)
  BY <1>1, UpToEndIs
<1>5. Len(u) <= Len(e)
  BY <1>1, UpToEndIs
<1>6. \A i \in 1 .. Len(u) : u[i] = e[i]
  BY <1>1, UpToEndIs
<1>7. \A i \in 1 .. Len(u) - 1 : e[i].type \notin Terminal
  BY <1>1, UpToEndIs
<1>8. Ends(e) = {} => u = e /\ \A i \in 1 .. Len(e) : e[i].type \notin Terminal
  BY <1>1, UpToEndIs
<1>9. Ends(e) # {} => Len(u) > 0
  BY <1>1, UpToEndIs
<1> HIDE DEF u
<1>10. v \in Seq(Nat)
  BY <1>4, PlacesIs
<1>11. Len(v) = Len(u)
  BY <1>4, PlacesIs
<1>12. \A i \in 1 .. Len(u) : v[i] = u[i].n
  BY <1>4, PlacesIs
<1> HIDE DEF v
<1>13. Len(g) = Len(h) + Len(v) /\ Len(h) \in Nat /\ Len(v) \in Nat
  BY <1>10, Joined
<1>14. \A i \in 1 .. Len(h) : g[i] = h[i]
  BY <1>10, Joined
<1>15. \A i \in 1 .. Len(v) : g[Len(h) + i] = v[i]
  BY <1>10, Joined
<1>16. g \in Seq(Nat)
  BY <1>10, Joined
<1>17. Len(pt) = Len(p) + Len(types)
  BY Joined
<1>18. \A i \in 1 .. Len(p) : pt[i] = p[i]
  BY Joined
<1>19. \A i \in 1 .. Len(types) : pt[Len(p) + i] = types[i]
  BY Joined
<1> HIDE DEF g, pt
<1>20. Len(v) <= Len(types)
  BY <1>2, <1>5, <1>11
<1>21. \A i \in 1 .. Len(v) : g[Len(h) + i] = Len(p) + i
  <2> TAKE i \in 1 .. Len(v)
  <2>1. i \in 1 .. Len(u) /\ i \in 1 .. Len(types)
    BY <1>2, <1>11, <1>13, <1>20
  <2>2. v[i] = u[i].n /\ u[i] = e[i] /\ e[i].n = Len(p) + i
    BY <2>1, <1>3, <1>6, <1>12
  <2> QED BY <2>2, <1>15
<1>22. \A i \in 1 .. Len(v) - 1 : types[i] \notin Terminal
  <2> TAKE i \in 1 .. Len(v) - 1
  <2>1. i \in 1 .. Len(u) - 1 /\ i \in 1 .. Len(types)
    BY <1>2, <1>11, <1>13, <1>20
  <2> QED BY <2>1, <1>3, <1>7
<1>23. \A i \in 1 .. Len(h) : h[i] \in 1 .. Len(p)
  BY DEF InOrder
<1>24. \A i \in 1 .. Len(h) - 1 : h[i + 1] = h[i] + 1 /\ p[h[i]] \notin Terminal
  BY DEF InOrder
<1>25. /\ \A i \in 1 .. Len(h) + Len(v) : g[i] \in 1 .. Len(p) + Len(types)
       /\ \A i \in 1 .. Len(h) + Len(v) - 1 : g[i + 1] = g[i] + 1 /\ pt[g[i]] \notin Terminal
  <2>1. Orders(Len(h), Len(v), Len(p), Len(types), h, g, p, pt, types)
    BY <1>14, <1>18, <1>19, <1>20, <1>21, <1>22, <1>23, <1>24 DEF Orders
  <2> QED BY <1>2, <1>13, <2>1, OrderJoins
<1>26. InOrder(g, pt)
  BY <1>13, <1>17, <1>25 DEF InOrder
<1>27. ASSUME After(e) = "open", Len(g) # 0
       PROVE  g[Len(g)] = Len(pt) /\ pt[Len(pt)] \notin Terminal
  <2>1. Len(v) = Len(types) /\ \A i \in 1 .. Len(types) : types[i] \notin Terminal
    <3>1. Ends(e) = {}
      BY <1>27 DEF After
    <3>2. u = e /\ \A i \in 1 .. Len(types) : e[i].type \notin Terminal
      BY <1>2, <1>8, <3>1
    <3> QED BY <1>2, <1>3, <1>11, <3>2
  <2>2. CASE Len(types) = 0
    <3>1. Len(h) # 0 /\ Len(g) = Len(h) /\ Len(pt) = Len(p) /\ Len(h) \in 1 .. Len(h)
      BY <1>2, <1>13, <1>17, <1>27, <2>1, <2>2
    <3>2. g[Len(h)] = Len(p) /\ p[Len(p)] \notin Terminal /\ Len(p) \in 1 .. Len(p)
      BY <3>1, <1>14, <1>23
    <3> QED BY <3>1, <3>2, <1>18
  <2>3. CASE Len(types) # 0
    <3>1. Len(types) \in 1 .. Len(types) /\ Len(types) \in 1 .. Len(v)
      BY <1>2, <2>1, <2>3
    <3>2. /\ g[Len(h) + Len(types)] = Len(p) + Len(types)
          /\ pt[Len(p) + Len(types)] = types[Len(types)]
      BY <3>1, <1>19, <1>21
    <3>3. types[Len(types)] \notin Terminal
      BY <2>1, <3>1
    <3> QED BY <3>2, <3>3, <1>13, <1>17, <2>1
  <2> QED BY <2>2, <2>3
<1>28. Len(h) # 0 => Len(g) # 0 /\ g[1] = h[1]
  BY <1>13, <1>14
<1>29. ASSUME Len(h) = 0, Len(g) # 0 PROVE g[1] = Len(p) + 1
  <2>1. Len(h) + 1 = 1 /\ 1 \in 1 .. Len(v)
    BY <1>13, <1>29
  <2>2. g[Len(h) + 1] = Len(p) + 1
    BY <1>21, <2>1
  <2> QED BY <2>1, <2>2
<1>30. ASSUME Len(g) = 0 PROVE Len(types) = 0
  <2>1. Len(u) = 0
    <3>1. \A i, j \in Nat : i + j = 0 => j = 0
      OBVIOUS
    <3>2. Len(v) = 0
      <4> HIDE DEF g
      <4> QED BY <1>13, <1>30, <3>1
    <3> QED BY <1>11, <3>2
  <2>2. u = e
    BY <1>8, <1>9, <2>1
  <2> QED BY <1>2, <2>1, <2>2
<1> QED BY <1>16, <1>26, <1>27, <1>28, <1>29, <1>30 DEF g, pt, v, u

\* What a page that connects is sent of the buffer.
LEMMA FollowsInOrder ==
  ASSUME NEW b \in Seq(Event), NEW p \in Seq(Types), TailOf(b, p)
  PROVE  LET g == Places(UpToEnd(b)) IN
         /\ g \in Seq(Nat) /\ InOrder(g, p)
         /\ After(b) = "open" /\ Len(g) # 0 => g[Len(g)] = Len(p) /\ p[Len(p)] \notin Terminal
         /\ Len(b) = Len(p) /\ Len(g) # 0 => g[1] = 1
         /\ Len(g) = 0 => Len(b) = 0
<1> DEFINE u == UpToEnd(b)
           g == Places(u)
<1>1. u \in Seq(Event)
  BY UpToEndIs
<1>2. Len(u) <= Len(b)
  BY UpToEndIs
<1>3. \A i \in 1 .. Len(u) : u[i] = b[i]
  BY UpToEndIs
<1>4. \A i \in 1 .. Len(u) - 1 : b[i].type \notin Terminal
  BY UpToEndIs
<1>5. Ends(b) = {} => u = b /\ \A i \in 1 .. Len(b) : b[i].type \notin Terminal
  BY UpToEndIs
<1>6. Ends(b) # {} => Len(u) > 0
  BY UpToEndIs
<1> HIDE DEF u
<1>7. g \in Seq(Nat)
  BY <1>1, PlacesIs
<1>8. Len(g) = Len(u)
  BY <1>1, PlacesIs
<1>9. \A i \in 1 .. Len(u) : g[i] = u[i].n
  BY <1>1, PlacesIs
<1>10. Len(b) \in Nat /\ Len(p) \in Nat
  OBVIOUS
<1>11. Len(g) \in Nat
  BY <1>7
<1> HIDE DEF g
<1>12. /\ Len(b) <= Len(p)
       /\ \A i \in 1 .. Len(b) : b[i].n = Len(p) - Len(b) + i /\ b[i].type = p[b[i].n]
  BY DEF TailOf
<1>13. ASSUME NEW i \in 1 .. Len(g)
       PROVE  g[i] = Len(p) - Len(b) + i /\ p[g[i]] = b[i].type /\ i \in 1 .. Len(b)
  <2>1. i \in 1 .. Len(u) /\ i \in 1 .. Len(b)
    BY <1>2, <1>8, <1>10, <1>11
  <2>2. g[i] = u[i].n /\ u[i] = b[i]
    BY <1>3, <1>9, <2>1
  <2> QED BY <1>12, <2>1, <2>2
<1>14. \A i \in 1 .. Len(g) : g[i] \in 1 .. Len(p)
  <2> TAKE i \in 1 .. Len(g)
  <2>1. Len(p) - Len(b) + i \in 1 .. Len(p)
    BY <1>10, <1>12, <1>13
  <2> QED BY <1>13, <2>1
<1>15. \A i \in 1 .. Len(g) - 1 : g[i + 1] = g[i] + 1 /\ p[g[i]] \notin Terminal
  <2> TAKE i \in 1 .. Len(g) - 1
  <2>1. i \in 1 .. Len(g) /\ i + 1 \in 1 .. Len(g) /\ i \in 1 .. Len(u) - 1
    BY <1>8, <1>11
  <2>2. g[i] = Len(p) - Len(b) + i /\ g[i + 1] = Len(p) - Len(b) + (i + 1)
    BY <1>13, <2>1
  <2>3. p[g[i]] = b[i].type /\ b[i].type \notin Terminal
    BY <1>4, <1>13, <2>1
  <2> QED BY <1>10, <2>2, <2>3
<1>16. InOrder(g, p)
  BY <1>14, <1>15 DEF InOrder
<1>17. ASSUME After(b) = "open", Len(g) # 0 PROVE g[Len(g)] = Len(p) /\ p[Len(p)] \notin Terminal
  <2>1. Len(g) = Len(b) /\ \A i \in 1 .. Len(b) : b[i].type \notin Terminal
    BY <1>5, <1>8, <1>17 DEF After
  <2>2. Len(g) \in 1 .. Len(g) /\ Len(p) - Len(b) + Len(g) = Len(p)
    BY <1>10, <1>11, <1>17, <2>1
  <2> QED BY <1>13, <2>1, <2>2
<1>18. Len(b) = Len(p) /\ Len(g) # 0 => g[1] = 1
  <2>1. Len(b) = Len(p) /\ Len(g) # 0 => 1 \in 1 .. Len(g) /\ Len(p) - Len(b) + 1 = 1
    BY <1>10, <1>11
  <2> QED BY <1>13, <2>1
<1>19. ASSUME Len(g) = 0 PROVE Len(b) = 0
  <2>1. Len(u) = 0
    BY <1>8, <1>19
  <2>2. u = b
    BY <1>5, <1>6, <2>1
  <2> QED BY <2>1, <2>2
<1> QED BY <1>7, <1>16, <1>17, <1>18, <1>19 DEF g, u

\* Places stay in order while more is published.
LEMMA OrderKept ==
  ASSUME NEW h, NEW p \in Seq(Types), NEW types \in Seq(Types), InOrder(h, p), Len(h) \in Nat
  PROVE  InOrder(h, p \o types)
<1> DEFINE pt == p \o types
<1>1. Len(pt) = Len(p) + Len(types) /\ Len(p) \in Nat /\ Len(types) \in Nat
  BY Joined
<1>2. \A i \in 1 .. Len(p) : pt[i] = p[i]
  BY Joined
<1> HIDE DEF pt
<1>3. \A i \in 1 .. Len(h) : h[i] \in 1 .. Len(p) /\ h[i] \in 1 .. Len(pt)
  BY <1>1 DEF InOrder
<1>4. \A i \in 1 .. Len(h) - 1 : i \in 1 .. Len(h)
  OBVIOUS
<1>5. \A i \in 1 .. Len(h) - 1 : h[i + 1] = h[i] + 1 /\ pt[h[i]] \notin Terminal
  BY <1>2, <1>3, <1>4 DEF InOrder
<1>6. InOrder(h, pt)
  BY <1>3, <1>5 DEF InOrder
<1> QED BY <1>6 DEF pt

-----------------------------------------------------------------------------
(* One run: its buffer b, its history p, its stream stm and what its page heard. *)

Log(b, p, stm, h) ==
  /\ b \in Seq(Event) /\ p \in Seq(Types) /\ h \in Seq(Nat) /\ stm \in StreamStates
  /\ TailOf(b, p) /\ InOrder(h, p)
  /\ stm = "open" /\ Len(h) # 0 => h[Len(h)] = Len(p) /\ p[Len(p)] \notin Terminal
  /\ stm \in Opening => Len(h) = 0

LEMMA LogPublishes ==
  ASSUME NEW b, NEW p, NEW stm, NEW h, Log(b, p, stm, h), NEW types \in Seq(Types),
         NEW e \in Seq(Event), ComeAfter(e, types, Len(p))
  PROVE  /\ stm = "open" => Log(b \o e, p \o types, After(e), h \o Places(UpToEnd(e)))
         /\ stm # "open" => Log(b \o e, p \o types, stm, h)
<1>1. b \in Seq(Event) /\ p \in Seq(Types) /\ h \in Seq(Nat) /\ stm \in StreamStates
  BY DEF Log
<1>2. TailOf(b \o e, p \o types)
  BY <1>1, TailGrows DEF Log
<1>3. b \o e \in Seq(Event) /\ p \o types \in Seq(Types)
  BY <1>1
<1>4. CASE stm = "open"
  <2> DEFINE g == h \o Places(UpToEnd(e))
  <2>1. Len(h) # 0 => h[Len(h)] = Len(p) /\ p[Len(p)] \notin Terminal
    BY <1>4 DEF Log
  <2>2. /\ g \in Seq(Nat) /\ InOrder(g, p \o types)
        /\ After(e) = "open" /\ Len(g) # 0 =>
              /\ g[Len(g)] = Len(p \o types)
              /\ (p \o types)[Len(p \o types)] \notin Terminal
    BY <1>1, <2>1, HeardGrows DEF Log
  <2>3. After(e) \in {"open", "told"}
    BY DEF After
  <2> HIDE DEF g
  <2>4. Log(b \o e, p \o types, After(e), g)
    BY <1>2, <1>3, <2>2, <2>3 DEF Log, Opening, StreamStates
  <2> QED BY <1>4, <2>4 DEF g
<1>5. CASE stm # "open"
  <2>1. InOrder(h, p \o types)
    BY <1>1, OrderKept DEF Log
  <2> QED BY <1>1, <1>2, <1>3, <1>5, <2>1 DEF Log
<1> QED BY <1>4, <1>5

LEMMA LogFollowed ==
  ASSUME NEW b, NEW p, NEW stm, NEW h, Log(b, p, stm, h), stm \in {"sawRunning", "sawEnd"}
  PROVE  Log(b, p, After(b), h \o Places(UpToEnd(b)))
<1>1. b \in Seq(Event) /\ p \in Seq(Types) /\ h \in Seq(Nat) /\ h = <<>>
  BY DEF Log, Opening
<1> DEFINE g == Places(UpToEnd(b))
<1>2. /\ g \in Seq(Nat) /\ InOrder(g, p)
      /\ After(b) = "open" /\ Len(g) # 0 => g[Len(g)] = Len(p) /\ p[Len(p)] \notin Terminal
  BY <1>1, FollowsInOrder DEF Log
<1>3. After(b) \in {"open", "told"}
  BY DEF After
<1> HIDE DEF g
<1>4. h \o g = g
  BY <1>1, <1>2
<1>5. Log(b, p, After(b), g)
  BY <1>1, <1>2, <1>3 DEF Log, Opening, StreamStates
<1> QED BY <1>4, <1>5 DEF g

LEMMA LogForgets ==
  ASSUME NEW b, NEW p, NEW stm, NEW h, Log(b, p, stm, h)
  PROVE  /\ Log(<<>>, p, stm, h)
         /\ \A other \in StreamStates \ {"open"} :
               (other \in Opening => Len(h) = 0) => Log(b, p, other, h) /\ Log(<<>>, p, other, h)
<1>1. p \in Seq(Types) /\ Len(p) \in Nat
  BY DEF Log
<1>2. TailOf(<<>>, p) /\ <<>> \in Seq(Event)
  BY <1>1 DEF TailOf
<1> QED BY <1>2 DEF Log

-----------------------------------------------------------------------------
(* What the steps of the bus and of the stream do to the runs. *)

Shaped ==
  /\ status \in [Runs -> Statuses] /\ seqs \in [Runs -> Nat] /\ timers \in [Runs -> Nat]
  /\ buffer \in [Runs -> Seq(Event)] /\ published \in [Runs -> Seq(Types)]
  /\ saving \in [Runs -> SUBSET Event] /\ rows \in [Runs -> SUBSET Event]
  /\ stream \in [Runs -> StreamStates] /\ heard \in [Runs -> Seq(Nat)]
  /\ lost \in BOOLEAN

LogInv == \A r \in Runs : Log(buffer[r], published[r], stream[r], heard[r])

\* Run s is as it was, the row's status apart.
Still(s) ==
  /\ seqs'[s] = seqs[s] /\ timers'[s] = timers[s] /\ buffer'[s] = buffer[s]
  /\ published'[s] = published[s] /\ saving'[s] = saving[s] /\ rows'[s] = rows[s]
  /\ stream'[s] = stream[s] /\ heard'[s] = heard[s]

EndsIn(types) == {i \in DOMAIN types : types[i] \in Terminal}

LEMMA EndsInIs ==
  ASSUME NEW types \in Seq(Types)
  PROVE  /\ Cardinality(EndsIn(types)) \in Nat
         /\ (\A i \in 1 .. Len(types) : types[i] \notin Terminal) => Cardinality(EndsIn(types)) = 0
<1>1. DOMAIN types = 1 .. Len(types) /\ Len(types) \in Nat
  OBVIOUS
<1>2. IsFiniteSet(1 .. Len(types)) /\ EndsIn(types) \subseteq 1 .. Len(types)
  BY <1>1, FS_Interval DEF EndsIn
<1>3. IsFiniteSet(EndsIn(types))
  BY <1>2, FS_Subset
<1>4. Cardinality(EndsIn(types)) \in Nat
  BY <1>3, FS_CardinalityType
<1>5. (\A i \in 1 .. Len(types) : types[i] \notin Terminal) => EndsIn(types) = {}
  BY <1>1 DEF EndsIn
<1> QED BY <1>4, <1>5, FS_EmptySet

LEMMA PublishIs ==
  ASSUME Shaped, NEW r \in Runs, NEW types \in Seq(Types), Publish(r, types)
  PROVE  LET e == Batch(types, seqs[r], published[r]) IN
         /\ seqs'[r] = seqs[r] + Len(types)
         /\ buffer'[r] = buffer[r] \o e
         /\ published'[r] = published[r] \o types
         /\ saving'[r] = saving[r] \union ToSet(e)
         /\ timers'[r] = timers[r] + Cardinality(EndsIn(types))
         /\ stream'[r] = IF stream[r] = "open" THEN After(e) ELSE stream[r]
         /\ heard'[r] = IF stream[r] = "open" THEN heard[r] \o Places(UpToEnd(e)) ELSE heard[r]
         /\ rows' = rows /\ lost' = lost
         /\ \A s \in Runs \ {r} : Still(s)
<1> DEFINE e == Batch(types, seqs[r], published[r])
<1>1. /\ seqs' = [seqs EXCEPT ![r] = @ + Len(types)]
      /\ buffer' = [buffer EXCEPT ![r] = @ \o e]
      /\ published' = [published EXCEPT ![r] = @ \o types]
      /\ saving' = [saving EXCEPT ![r] = @ \union ToSet(e)]
      /\ timers' = [timers EXCEPT ![r] = @ + Cardinality(EndsIn(types))]
      /\ rows' = rows /\ lost' = lost
  BY DEF Publish, Batch, EndsIn
<1>2. IF stream[r] = "open"
      THEN /\ stream' = [stream EXCEPT ![r] = After(e)]
           /\ heard' = [heard EXCEPT ![r] = @ \o Places(UpToEnd(e))]
      ELSE UNCHANGED <<stream, heard>>
  BY DEF Publish, Batch
<1> HIDE DEF e
<1>3. /\ seqs'[r] = seqs[r] + Len(types)
      /\ buffer'[r] = buffer[r] \o e
      /\ published'[r] = published[r] \o types
      /\ saving'[r] = saving[r] \union ToSet(e)
      /\ timers'[r] = timers[r] + Cardinality(EndsIn(types))
  BY <1>1 DEF Shaped
<1>4. /\ stream'[r] = IF stream[r] = "open" THEN After(e) ELSE stream[r]
      /\ heard'[r] = IF stream[r] = "open" THEN heard[r] \o Places(UpToEnd(e)) ELSE heard[r]
  BY <1>2 DEF Shaped
<1>5. ASSUME NEW s \in Runs \ {r} PROVE Still(s)
  <2>1. stream'[s] = stream[s] /\ heard'[s] = heard[s]
    BY <1>2 DEF Shaped
  <2> QED BY <1>1, <2>1 DEF Shaped, Still
<1> QED BY <1>1, <1>3, <1>4, <1>5 DEF e

\* Nothing a publish does makes a page's events come out of order.
LEMMA PublishKeeps ==
  ASSUME Shaped, LogInv, NEW r \in Runs, NEW types \in Seq(Types), Publish(r, types),
         status' \in [Runs -> Statuses]
  PROVE  Shaped' /\ LogInv'
<1> DEFINE e == Batch(types, seqs[r], published[r])
<1>1. /\ seqs[r] \in Nat /\ published[r] \in Seq(Types)
      /\ Log(buffer[r], published[r], stream[r], heard[r])
  BY DEF Shaped, LogInv
<1>2. e \in Seq(Event) /\ ComeAfter(e, types, Len(published[r]))
  BY <1>1, BatchIs
<1>3. Log(buffer'[r], published'[r], stream'[r], heard'[r])
  <2>1. /\ buffer'[r] = buffer[r] \o e
        /\ published'[r] = published[r] \o types
        /\ stream'[r] = IF stream[r] = "open" THEN After(e) ELSE stream[r]
        /\ heard'[r] = IF stream[r] = "open" THEN heard[r] \o Places(UpToEnd(e)) ELSE heard[r]
    BY PublishIs
  <2> HIDE DEF e
  <2> QED BY <1>1, <1>2, <2>1, LogPublishes
<1>4. \A s \in Runs \ {r} : Still(s)
  BY PublishIs
<1>5. LogInv'
  BY <1>3, <1>4 DEF LogInv, Still
<1>6. ToSet(e) \subseteq Event
  BY <1>2 DEF ToSet
<1>7. Len(types) \in Nat /\ Cardinality(EndsIn(types)) \in Nat
  BY EndsInIs
<1> HIDE DEF e
<1>8. /\ seqs' \in [Runs -> Nat] /\ timers' \in [Runs -> Nat] /\ saving' \in [Runs -> SUBSET Event]
  <2>1. /\ seqs' = [seqs EXCEPT ![r] = @ + Len(types)]
        /\ saving' = [saving EXCEPT ![r] = @ \union ToSet(e)]
        /\ timers' = [timers EXCEPT ![r] = @ + Cardinality(EndsIn(types))]
    BY DEF Publish, Batch, EndsIn, e
  <2>2. seqs[r] + Len(types) \in Nat /\ timers[r] + Cardinality(EndsIn(types)) \in Nat
    BY <1>7 DEF Shaped
  <2> QED BY <1>6, <2>1, <2>2 DEF Shaped
<1>9. /\ buffer' \in [Runs -> Seq(Event)] /\ published' \in [Runs -> Seq(Types)]
      /\ stream' \in [Runs -> StreamStates] /\ heard' \in [Runs -> Seq(Nat)]
  <2>1. \A s \in Runs : /\ buffer'[s] \in Seq(Event) /\ published'[s] \in Seq(Types)
                        /\ stream'[s] \in StreamStates /\ heard'[s] \in Seq(Nat)
    BY <1>5 DEF LogInv, Log
  <2>2. /\ buffer' = [s \in Runs |-> buffer'[s]] /\ published' = [s \in Runs |-> published'[s]]
        /\ stream' = [s \in Runs |-> stream'[s]] /\ heard' = [s \in Runs |-> heard'[s]]
    BY DEF Publish, Shaped
  <2> QED BY <2>1, <2>2
<1>10. rows' = rows /\ lost' = lost
  BY DEF Publish
<1> QED BY <1>5, <1>8, <1>9, <1>10 DEF Shaped

-----------------------------------------------------------------------------
(* What the steps of a turn do: every one moves one turn that is under way, in *)
(* one of four ways.                                                           *)

Calling == {"tool", "toolStep"}
Pcs == InTry \union Calling \union Ended \union {"begin", "failStep", "failFinish", "tell", "failTell"}
Turn == [pc : Pcs, round : Nat, tools : BOOLEAN, calls : Seq({"ask", "board"}),
         asked : BOOLEAN, outcome : {"completed", "error"}]
Line == [role : {"user", "assistant"}, run : Runs]

TurnsShaped ==
  /\ turn \in [ChatRuns -> Turn] /\ thread \in Seq(Line)
  /\ \A r \in ChatRuns : turn[r].pc \in Calling => turn[r].calls # <<>>

AnswerOf(r) == [role |-> "assistant", run |-> r]

\* Nothing is published; the run's row may be finished.
Works(r) ==
  /\ Quiet
  /\ UNCHANGED status \/ \E end \in {"completed", "error"} : status' = [status EXCEPT ![r] = end]
  /\ turn'[r].pc \notin {"none", "ended", "dead"}
  /\ turn'[r].pc = "finish" => AnswerOf(r) \in ToSet(thread')
  /\ turn'[r].pc = "tell" => /\ turn[r].pc = "finish"
                            /\ status' = [status EXCEPT ![r] = turn'[r].outcome]

\* Something is published that is no end.
Talks(r) ==
  /\ \E types \in Seq(Types) : /\ Publish(r, types)
                               /\ \A i \in 1 .. Len(types) : types[i] \notin Terminal
  /\ UNCHANGED status
  /\ turn'[r].pc \notin {"none", "ended", "dead", "finish", "tell"}

\* The turn is over and the page is told.
Succeeds(r) ==
  /\ turn[r].pc = "tell" /\ turn'[r].pc = "ended"
  /\ Publish(r, <<"message", "run.done">>)
  /\ UNCHANGED status
  /\ turn'[r].outcome = turn[r].outcome

Fails(r) ==
  /\ turn[r].pc = "failTell" /\ turn'[r].pc = "ended"
  /\ Publish(r, <<"run.error">>)
  /\ UNCHANGED status

Moves(r) ==
  /\ turn[r].pc \notin Ended
  /\ \A s \in ChatRuns \ {r} : turn'[s] = turn[s]
  /\ ToSet(thread) \subseteq ToSet(thread')
  /\ Works(r) \/ Talks(r) \/ Succeeds(r) \/ Fails(r)

\* A field of one turn is given a value.
LEMMA TurnToIs ==
  ASSUME TurnsShaped, NEW r \in ChatRuns, NEW pc \in Pcs, TurnTo(r, pc),
         pc \in Calling => turn[r].calls # <<>>
  PROVE  /\ turn' \in [ChatRuns -> Turn]
         /\ turn'[r].pc = pc /\ turn'[r].outcome = turn[r].outcome
         /\ \A s \in ChatRuns \ {r} : turn'[s] = turn[s]
         /\ \A s \in ChatRuns : turn'[s].pc \in Calling => turn'[s].calls # <<>>
<1>1. turn' = [turn EXCEPT ![r] = [turn[r] EXCEPT !.pc = pc]]
  BY DEF TurnTo
<1>2. [turn[r] EXCEPT !.pc = pc] \in Turn
  BY DEF TurnsShaped, Turn
<1>3. turn'[r] = [turn[r] EXCEPT !.pc = pc] /\ turn[r] \in Turn
  BY <1>1 DEF TurnsShaped
<1>4. turn'[r].pc = pc /\ turn'[r].outcome = turn[r].outcome /\ turn'[r].calls = turn[r].calls
  BY <1>3 DEF Turn
<1>5. turn' \in [ChatRuns -> Turn] /\ \A s \in ChatRuns \ {r} : turn'[s] = turn[s]
  BY <1>1, <1>2 DEF TurnsShaped
<1> QED BY <1>4, <1>5 DEF TurnsShaped

LEMMA AppendIs ==
  ASSUME NEW S, NEW s \in Seq(S), NEW x \in S
  PROVE  /\ Append(s, x) \in Seq(S)
         /\ x \in ToSet(Append(s, x)) /\ ToSet(s) \subseteq ToSet(Append(s, x))
<1>1. /\ Append(s, x) \in Seq(S) /\ Len(Append(s, x)) = Len(s) + 1 /\ Len(s) \in Nat
      /\ \A i \in 1 .. Len(s) : Append(s, x)[i] = s[i]
      /\ Append(s, x)[Len(s) + 1] = x
  OBVIOUS
<1>2. DOMAIN s = 1 .. Len(s) /\ DOMAIN Append(s, x) = 1 .. Len(s) + 1
  BY <1>1
<1>3. Len(s) + 1 \in 1 .. Len(s) + 1 /\ \A i \in 1 .. Len(s) : i \in 1 .. Len(s) + 1
  BY <1>1
<1> QED BY <1>1, <1>2, <1>3 DEF ToSet

\* What a step or a tool call says of itself is no end.
NoEnd(types) == types \in Seq(Types) /\ \A i \in 1 .. Len(types) : types[i] \notin Terminal

LEMMA NoEndIs ==
  /\ NoEnd(<<>>)
  /\ \A x \in Types : x \notin Terminal => NoEnd(<<x>>)
  /\ \A s, t : NoEnd(s) /\ NoEnd(t) => NoEnd(s \o t)
<1>1. NoEnd(<<>>) /\ \A x \in Types : x \notin Terminal => NoEnd(<<x>>)
  BY DEF NoEnd
<1>2. ASSUME NEW s, NEW t, NoEnd(s), NoEnd(t) PROVE NoEnd(s \o t)
  <2>1. s \in Seq(Types) /\ t \in Seq(Types)
    BY <1>2 DEF NoEnd
  <2> DEFINE st == s \o t
  <2>2. st \in Seq(Types) /\ Len(st) = Len(s) + Len(t) /\ Len(s) \in Nat /\ Len(t) \in Nat
    BY <2>1, Joined
  <2>3. \A i \in 1 .. Len(s) : st[i] = s[i]
    BY <2>1, Joined
  <2>4. \A i \in 1 .. Len(t) : st[Len(s) + i] = t[i]
    BY <2>1, Joined
  <2> HIDE DEF st
  <2>5. ASSUME NEW i \in 1 .. Len(st) PROVE st[i] \notin Terminal
    <3>1. CASE i \in 1 .. Len(s)
      BY <1>2, <2>3, <3>1 DEF NoEnd
    <3>2. CASE i \notin 1 .. Len(s)
      <4>1. i - Len(s) \in 1 .. Len(t) /\ i = Len(s) + (i - Len(s))
        BY <2>2, <3>2
      <4>2. st[i] = t[i - Len(s)]
        BY <2>4, <4>1
      <4> QED BY <1>2, <4>1, <4>2 DEF NoEnd
    <3> QED BY <3>1, <3>2
  <2>6. NoEnd(st)
    BY <2>2, <2>5 DEF NoEnd
  <2> QED BY <2>6 DEF st
<1> QED BY <1>1, <1>2

LEMMA WordsAreNoEnds ==
  \A x \in Words : x \in Types /\ x \notin Terminal /\ NoEnd(<<x>>)
<1>1. \A x \in Words : x \in Types /\ x \notin Terminal
  BY DEF Words, Types, Terminal
<1> QED BY <1>1, NoEndIs

LEMMA OpensIsNoEnd ==
  ASSUME NEW call
  PROVE  NoEnd(Opens(call))
<1>1. NoEnd(<<"run.step">>) /\ NoEnd(<<"question">>) /\ NoEnd(<<"widget">>)
  BY WordsAreNoEnds DEF Words
<1>2. NoEnd(<<"run.step">> \o <<"question">>) /\ NoEnd(<<"run.step">> \o <<"widget">>)
  BY <1>1, NoEndIs
<1> QED BY <1>2 DEF Opens

LEMMA TurnStepMoves ==
  ASSUME TurnsShaped, NEW r \in ChatRuns, TurnStep(r) \/ Throws(r)
  PROVE  Moves(r) /\ TurnsShaped'
<1> USE DEF Ended
<1>a. /\ "prepare" \in Pcs /\ "direct" \in Pcs /\ "directStep" \in Pcs
      /\ "llm" \in Pcs /\ "billed" \in Pcs /\ "tool" \in Pcs /\ "toolStep" \in Pcs
      /\ "say" \in Pcs /\ "finish" \in Pcs /\ "failStep" \in Pcs
      /\ "failFinish" \in Pcs /\ "ended" \in Pcs /\ "tell" \in Pcs /\ "failTell" \in Pcs
  BY DEF Pcs, InTry, Calling
<1>b. ASSUME UNCHANGED thread PROVE thread' \in Seq(Line) /\ ToSet(thread) \subseteq ToSet(thread')
  BY <1>b DEF TurnsShaped
<1>c. ASSUME NEW types, NoEnd(types), Publish(r, types)
      PROVE  \E ty \in Seq(Types) : /\ Publish(r, ty)
                                    /\ \A i \in 1 .. Len(ty) : ty[i] \notin Terminal
  BY <1>c DEF NoEnd
<1>d. turn[r] \in Turn
  BY DEF TurnsShaped
<1>1. CASE Begin(r)
  <2>1. turn[r].pc = "begin" /\ Publish(r, <<"run.started">>) /\ TurnTo(r, "prepare")
        /\ UNCHANGED <<status, thread>>
    BY <1>1 DEF Begin
  <2>2. NoEnd(<<"run.started">>)
    BY WordsAreNoEnds DEF Words
  <2>3. Talks(r) /\ \A s \in ChatRuns \ {r} : turn'[s] = turn[s]
    BY <1>a, <1>c, <2>1, <2>2, TurnToIs DEF Talks, Calling
  <2>4. TurnsShaped'
    BY <1>a, <1>b, <2>1, TurnToIs DEF TurnsShaped, Calling
  <2> QED BY <1>b, <2>1, <2>3, <2>4 DEF Moves
<1>2. CASE Prepare(r)
  <2>1. PICK tools \in BOOLEAN, submitted \in BOOLEAN, notes \in {<<>>, <<"run.step">>} :
          /\ Publish(r, notes \o <<"run.step">>)
          /\ turn' = [turn EXCEPT ![r].tools = tools,
                                  ![r].pc = IF tools /\ submitted THEN "direct" ELSE "llm"]
    BY <1>2 DEF Prepare
  <2>2. turn[r].pc = "prepare" /\ UNCHANGED <<status, thread>>
    BY <1>2 DEF Prepare
  <2>3. NoEnd(notes \o <<"run.step">>)
    BY NoEndIs, WordsAreNoEnds DEF Words
  <2> DEFINE pc == IF tools /\ submitted THEN "direct" ELSE "llm"
             now == [turn[r] EXCEPT !.tools = tools, !.pc = pc]
  <2>4. pc \in Pcs /\ pc \in {"direct", "llm"}
    BY <1>a
  <2>5. turn' = [turn EXCEPT ![r] = now]
    BY <2>1
  <2> HIDE DEF pc
  <2>6. now \in Turn /\ now.pc = pc
    BY <1>d, <2>4 DEF Turn
  <2> HIDE DEF now
  <2>7. /\ turn' \in [ChatRuns -> Turn] /\ turn'[r] = now
        /\ \A s \in ChatRuns \ {r} : turn'[s] = turn[s]
    BY <2>5, <2>6 DEF TurnsShaped
  <2>8. TurnsShaped'
    BY <1>b, <2>2, <2>4, <2>6, <2>7 DEF TurnsShaped, Calling
  <2>9. Talks(r)
    BY <1>c, <2>1, <2>2, <2>3, <2>4, <2>6, <2>7 DEF Talks
  <2> QED BY <1>b, <2>2, <2>7, <2>8, <2>9 DEF Moves
<1>3. CASE Direct(r)
  <2>1. PICK outcome \in {"completed", "error"} :
          turn' = [turn EXCEPT ![r].pc = "directStep", ![r].outcome = outcome]
    BY <1>3 DEF Direct
  <2>2. turn[r].pc = "direct" /\ UNCHANGED <<status, thread>> /\ Quiet
    BY <1>3 DEF Direct
  <2> DEFINE now == [turn[r] EXCEPT !.pc = "directStep", !.outcome = outcome]
  <2>3. turn' = [turn EXCEPT ![r] = now]
    BY <2>1
  <2>4. now \in Turn /\ now.pc = "directStep"
    BY <1>a, <1>d DEF Turn
  <2> HIDE DEF now
  <2>5. /\ turn' \in [ChatRuns -> Turn] /\ turn'[r] = now
        /\ \A s \in ChatRuns \ {r} : turn'[s] = turn[s]
    BY <2>3, <2>4 DEF TurnsShaped
  <2>6. TurnsShaped'
    BY <1>b, <2>2, <2>4, <2>5 DEF TurnsShaped, Calling
  <2>7. Works(r)
    BY <2>2, <2>4, <2>5 DEF Works
  <2> QED BY <1>b, <2>2, <2>5, <2>6, <2>7 DEF Moves
<1>4. CASE DirectStep(r)
  <2>1. turn[r].pc = "directStep" /\ Publish(r, <<"run.step">>) /\ TurnTo(r, "say")
        /\ UNCHANGED <<status, thread>>
    BY <1>4 DEF DirectStep
  <2>2. NoEnd(<<"run.step">>)
    BY WordsAreNoEnds DEF Words
  <2>3. Talks(r) /\ \A s \in ChatRuns \ {r} : turn'[s] = turn[s]
    BY <1>a, <1>c, <2>1, <2>2, TurnToIs DEF Talks, Calling
  <2>4. TurnsShaped'
    BY <1>a, <1>b, <2>1, TurnToIs DEF TurnsShaped, Calling
  <2> QED BY <1>b, <2>1, <2>3, <2>4 DEF Moves
<1>5. CASE Answer(r)
  <2>1. PICK calls \in {<<>>} \union CallLists :
          turn' = [turn EXCEPT ![r].pc = "billed", ![r].calls = calls]
    BY <1>5 DEF Answer
  <2>2. turn[r].pc = "llm" /\ UNCHANGED <<status, thread>> /\ Quiet
    BY <1>5 DEF Answer
  <2>3. calls \in Seq({"ask", "board"})
    <3>1. CASE calls = <<>>
      BY <3>1
    <3>2. CASE calls \in CallLists
      BY <3>2, ChatAssumption
    <3> QED BY <3>1, <3>2
  <2> DEFINE now == [turn[r] EXCEPT !.pc = "billed", !.calls = calls]
  <2>4. turn' = [turn EXCEPT ![r] = now]
    BY <2>1
  <2>5. now \in Turn /\ now.pc = "billed"
    BY <1>a, <1>d, <2>3 DEF Turn
  <2> HIDE DEF now
  <2>6. /\ turn' \in [ChatRuns -> Turn] /\ turn'[r] = now
        /\ \A s \in ChatRuns \ {r} : turn'[s] = turn[s]
    BY <2>4, <2>5 DEF TurnsShaped
  <2>7. TurnsShaped'
    BY <1>b, <2>2, <2>5, <2>6 DEF TurnsShaped, Calling
  <2>8. Works(r)
    BY <2>2, <2>5, <2>6 DEF Works
  <2> QED BY <1>b, <2>2, <2>6, <2>7, <2>8 DEF Moves
<1>6. CASE Billed(r)
  <2> DEFINE calls == turn[r].calls
             types == <<"cost">> \o (IF calls = <<>> THEN <<>> ELSE Opens(Head(calls)))
             pc == IF calls = <<>> THEN "say" ELSE "tool"
  <2>1. turn[r].pc = "billed" /\ Publish(r, types) /\ TurnTo(r, pc)
        /\ UNCHANGED <<status, thread>>
    BY <1>6 DEF Billed
  <2>2. NoEnd(types)
    BY NoEndIs, WordsAreNoEnds, OpensIsNoEnd DEF Words
  <2>3. pc \in Pcs /\ pc \in {"say", "tool"} /\ (pc \in Calling => calls # <<>>)
    BY <1>a DEF Calling
  <2> HIDE DEF types, pc
  <2>4. Talks(r) /\ \A s \in ChatRuns \ {r} : turn'[s] = turn[s]
    BY <1>c, <2>1, <2>2, <2>3, TurnToIs DEF Talks
  <2>5. TurnsShaped'
    BY <1>b, <2>1, <2>3, TurnToIs DEF TurnsShaped
  <2> QED BY <1>b, <2>1, <2>4, <2>5 DEF Moves
<1>7. CASE ToolReturns(r)
  <2>1. PICK types \in {<<"widget">>, <<>>} : Publish(r, types)
    BY <1>7 DEF ToolReturns
  <2>2. turn[r].pc = "tool" /\ UNCHANGED <<status, thread>>
    BY <1>7 DEF ToolReturns
  <2>3. NoEnd(types)
    BY NoEndIs, WordsAreNoEnds DEF Words
  <2> DEFINE asked == turn[r].asked \/ Head(turn[r].calls) = "ask"
             now == [turn[r] EXCEPT !.pc = "toolStep", !.asked = asked]
  <2>4. turn' = [turn EXCEPT ![r] = now]
    BY <1>7 DEF ToolReturns
  <2>5. asked \in BOOLEAN
    BY <1>d DEF Turn
  <2> HIDE DEF asked
  <2>6. now \in Turn /\ now.pc = "toolStep" /\ now.calls = turn[r].calls
    BY <1>a, <1>d, <2>5 DEF Turn
  <2> HIDE DEF now
  <2>7. /\ turn' \in [ChatRuns -> Turn] /\ turn'[r] = now
        /\ \A s \in ChatRuns \ {r} : turn'[s] = turn[s]
    BY <2>4, <2>6 DEF TurnsShaped
  <2>8. TurnsShaped'
    BY <1>b, <2>2, <2>6, <2>7 DEF TurnsShaped, Calling
  <2>9. Talks(r)
    BY <1>c, <2>1, <2>2, <2>3, <2>6, <2>7 DEF Talks
  <2> QED BY <1>b, <2>2, <2>7, <2>8, <2>9 DEF Moves
<1>8. CASE ToolStep(r)
  <2> DEFINE t == turn[r]
             more == Tail(t.calls)
             again == more = <<>> /\ ~ t.asked /\ t.round + 1 < MaxRounds
             types == <<"run.step">> \o (IF more # <<>> THEN Opens(Head(more))
                                         ELSE IF again THEN <<"run.step">> ELSE <<>>)
             round == IF again THEN t.round + 1 ELSE t.round
             pc == IF more # <<>> THEN "tool" ELSE IF again THEN "llm" ELSE "say"
             now == [t EXCEPT !.calls = more, !.round = round, !.pc = pc]
  <2>1. t.pc = "toolStep" /\ Publish(r, types) /\ UNCHANGED <<status, thread>>
    BY <1>8 DEF ToolStep
  <2>2. turn' = [turn EXCEPT ![r] = now]
    BY <1>8 DEF ToolStep
  <2>3. NoEnd(types)
    BY NoEndIs, WordsAreNoEnds, OpensIsNoEnd DEF Words
  <2>4. more \in Seq({"ask", "board"})
    BY <1>d, <2>1 DEF TurnsShaped, Turn, Calling
  <2>5. round \in Nat
    BY <1>d DEF Turn
  <2>6. pc \in Pcs /\ pc \in {"say", "tool", "llm"} /\ (pc \in Calling => more # <<>>)
    BY <1>a DEF Calling
  <2> HIDE DEF types, round, pc, more
  <2>7. now \in Turn /\ now.pc = pc /\ now.calls = more
    BY <1>d, <2>4, <2>5, <2>6 DEF Turn
  <2> HIDE DEF now
  <2>8. /\ turn' \in [ChatRuns -> Turn] /\ turn'[r] = now
        /\ \A s \in ChatRuns \ {r} : turn'[s] = turn[s]
    BY <2>2, <2>7 DEF TurnsShaped
  <2>9. TurnsShaped'
    BY <1>b, <2>1, <2>6, <2>7, <2>8 DEF TurnsShaped
  <2>10. Talks(r)
    BY <1>c, <2>1, <2>3, <2>6, <2>7, <2>8 DEF Talks
  <2> QED BY <1>b, <2>1, <2>8, <2>9, <2>10 DEF Moves
<1>9. CASE Say(r)
  <2>1. turn[r].pc = "say" /\ TurnTo(r, "finish") /\ UNCHANGED status /\ Quiet
        /\ thread' = Append(thread, AnswerOf(r))
    BY <1>9 DEF Say, AnswerOf
  <2>2. thread \in Seq(Line) /\ AnswerOf(r) \in Line
    BY <1>a, ChatAssumption DEF TurnsShaped, Line, AnswerOf
  <2>3. /\ thread' \in Seq(Line)
        /\ AnswerOf(r) \in ToSet(thread') /\ ToSet(thread) \subseteq ToSet(thread')
    BY <2>1, <2>2, AppendIs
  <2>4. Works(r) /\ \A s \in ChatRuns \ {r} : turn'[s] = turn[s]
    BY <1>a, <2>1, <2>3, TurnToIs DEF Works, Calling
  <2>5. TurnsShaped'
    BY <1>a, <2>1, <2>3, TurnToIs DEF TurnsShaped, Calling
  <2> QED BY <2>1, <2>3, <2>4, <2>5 DEF Moves
<1>10. CASE Finish(r)
  <2>1. turn[r].pc = "finish" /\ TurnTo(r, "tell") /\ UNCHANGED thread /\ Quiet
        /\ status' = [status EXCEPT ![r] = turn[r].outcome]
    BY <1>10 DEF Finish
  <2>2. turn[r].outcome \in {"completed", "error"}
    BY <1>d DEF Turn
  <2>3. turn'[r].pc = "tell" /\ turn'[r].outcome = turn[r].outcome
        /\ \A s \in ChatRuns \ {r} : turn'[s] = turn[s]
    BY <1>a, <2>1, TurnToIs DEF Calling
  <2>4. Works(r)
    BY <2>1, <2>2, <2>3 DEF Works
  <2>5. TurnsShaped'
    BY <1>a, <1>b, <2>1, TurnToIs DEF TurnsShaped, Calling
  <2> QED BY <1>b, <2>1, <2>3, <2>4, <2>5 DEF Moves
<1>11. CASE Throws(r)
  <2>1. turn[r].pc \in InTry /\ TurnTo(r, "failStep") /\ UNCHANGED <<status, thread>> /\ Quiet
    BY <1>11 DEF Throws
  <2>2. Works(r) /\ \A s \in ChatRuns \ {r} : turn'[s] = turn[s]
    BY <1>a, <2>1, TurnToIs DEF Works, Calling
  <2>3. TurnsShaped'
    BY <1>a, <1>b, <2>1, TurnToIs DEF TurnsShaped, Calling
  <2> QED BY <1>b, <2>1, <2>2, <2>3 DEF Moves, InTry
<1>12. CASE FailStep(r)
  <2>1. turn[r].pc = "failStep" /\ TurnTo(r, "failFinish") /\ UNCHANGED <<status, thread>> /\ Quiet
    BY <1>12 DEF FailStep
  <2>2. Works(r) /\ \A s \in ChatRuns \ {r} : turn'[s] = turn[s]
    BY <1>a, <2>1, TurnToIs DEF Works, Calling
  <2>3. TurnsShaped'
    BY <1>a, <1>b, <2>1, TurnToIs DEF TurnsShaped, Calling
  <2> QED BY <1>b, <2>1, <2>2, <2>3 DEF Moves
<1>13. CASE FailFinish(r)
  <2>1. turn[r].pc = "failFinish" /\ TurnTo(r, "failTell") /\ UNCHANGED thread /\ Quiet
        /\ (status' = [status EXCEPT ![r] = "error"] \/ UNCHANGED status)
    BY <1>13 DEF FailFinish
  <2>2. turn'[r].pc = "failTell" /\ \A s \in ChatRuns \ {r} : turn'[s] = turn[s]
    BY <1>a, <2>1, TurnToIs DEF Calling
  <2>3. Works(r)
    BY <2>1, <2>2 DEF Works
  <2>4. TurnsShaped'
    BY <1>a, <1>b, <2>1, TurnToIs DEF TurnsShaped, Calling
  <2> QED BY <1>b, <2>1, <2>2, <2>3, <2>4 DEF Moves
<1>14. CASE Tell(r)
  <2>1. turn[r].pc \in {"tell", "failTell"} /\ TurnTo(r, "ended") /\ UNCHANGED <<status, thread>>
        /\ Publish(r, IF turn[r].pc = "tell" THEN <<"message", "run.done">>
                      ELSE <<"run.error">>)
    BY <1>14 DEF Tell
  <2>2. turn'[r].pc = "ended" /\ turn'[r].outcome = turn[r].outcome
        /\ \A s \in ChatRuns \ {r} : turn'[s] = turn[s]
    BY <1>a, <2>1, TurnToIs DEF Calling
  <2>3. Succeeds(r) \/ Fails(r)
    BY <2>1, <2>2 DEF Succeeds, Fails
  <2>4. TurnsShaped'
    BY <1>a, <1>b, <2>1, TurnToIs DEF TurnsShaped, Calling
  <2> QED BY <1>b, <2>1, <2>2, <2>3, <2>4 DEF Moves
<1> QED BY <1>1, <1>2, <1>3, <1>4, <1>5, <1>6, <1>7, <1>8, <1>9, <1>10, <1>11, <1>12, <1>13,
        <1>14 DEF TurnStep

-----------------------------------------------------------------------------
(* The invariant: of every run, whether its stream was asked for; of a chat turn, *)
(* how its history, buffer, stream, row and events table agree.                   *)

\* The i-th event of the history p as the events table holds it.
Of(p, i) == [type |-> p[i], seq |-> i, n |-> i]
OnlyOf(events, p) == \A e \in events : \E i \in 1 .. Len(p) : e = Of(p, i)
AllOf(events, p) == \A i \in 1 .. Len(p) : Of(p, i) \in events

Unposted(r) ==
  r \in posting \/ status[r] = "none" => stream[r] = "off" /\ Len(heard[r]) = 0

Whole(r) ==
  /\ Len(buffer[r]) \in {0, Len(published[r])}
  /\ Len(heard[r]) # 0 => heard[r][1] = 1
  /\ turn[r].pc = "none" <=> status[r] = "none"
  /\ turn[r].pc = "none" => Len(published[r]) = 0
  /\ turn[r].pc \notin {"ended", "dead"} =>
       /\ Len(buffer[r]) = Len(published[r]) /\ seqs[r] = Len(published[r]) /\ timers[r] = 0
       /\ \A i \in 1 .. Len(published[r]) : published[r][i] \notin Terminal
       /\ stream[r] = "open" /\ Len(heard[r]) = 0 => Len(published[r]) = 0

Saved(r) ==
  /\ OnlyOf(saving[r] \union rows[r], published[r])
  /\ lost \/ AllOf(saving[r] \union rows[r], published[r])

Told(r) ==
  /\ turn[r].pc \in {"finish", "tell"} => AnswerOf(r) \in ToSet(thread)
  /\ turn[r].pc = "tell" => status[r] = turn[r].outcome
  /\ turn[r].pc = "ended" /\ "run.done" \in ToSet(published[r]) =>
       status[r] = turn[r].outcome /\ AnswerOf(r) \in ToSet(thread)

Chat(r) == Whole(r) /\ Saved(r) /\ Told(r)

CopilotInv ==
  /\ Shaped /\ LogInv /\ TurnsShaped
  /\ \A r \in Runs : Unposted(r)
  /\ \A r \in ChatRuns : Chat(r)

LEMMA StillKeeps ==
  ASSUME NEW r \in ChatRuns, Chat(r), Still(r), status'[r] = status[r], turn'[r] = turn[r],
         lost => lost', ToSet(thread) \subseteq ToSet(thread')
  PROVE  Chat(r)'
<1>1. Whole(r)'
  BY DEF Chat, Whole, Still
<1>2. Saved(r)'
  BY DEF Chat, Saved, Still
<1>3. Told(r)'
  BY DEF Chat, Told, Still
<1> QED BY <1>1, <1>2, <1>3 DEF Chat

\* What is published is saved with its place and its number, which are the same.
LEMMA SavedGrows ==
  ASSUME NEW p \in Seq(Types), NEW types \in Seq(Types), NEW events
  PROVE  LET b == ToSet(Batch(types, Len(p), p)) IN
         /\ OnlyOf(events, p) => OnlyOf(events \union b, p \o types)
         /\ AllOf(events, p) => AllOf(events \union b, p \o types)
<1> DEFINE e == Batch(types, Len(p), p)
           pt == p \o types
<1>1. Len(p) \in Nat /\ Len(types) \in Nat /\ DOMAIN types = 1 .. Len(types)
  OBVIOUS
<1>2. Len(pt) = Len(p) + Len(types)
  BY Joined
<1>3. \A i \in 1 .. Len(p) : pt[i] = p[i]
  BY Joined
<1>4. \A i \in 1 .. Len(types) : pt[Len(p) + i] = types[i]
  BY Joined
<1> HIDE DEF pt
<1>5. \A i \in 1 .. Len(types) : e[i] = Of(pt, Len(p) + i)
  BY <1>1, <1>4 DEF Batch, Of
<1>6. DOMAIN e = 1 .. Len(types)
  BY <1>1 DEF Batch
<1> HIDE DEF e
<1>7. \A x \in ToSet(e) : \E i \in 1 .. Len(types) : x = Of(pt, Len(p) + i)
  BY <1>5, <1>6 DEF ToSet
<1>8. \A i \in 1 .. Len(types) : Of(pt, Len(p) + i) \in ToSet(e)
  BY <1>5, <1>6 DEF ToSet
<1>9. \A i \in 1 .. Len(p) : Of(pt, i) = Of(p, i)
  BY <1>3 DEF Of
<1>10. \A i \in 1 .. Len(p) : i \in 1 .. Len(pt)
  BY <1>1, <1>2
<1>11. \A i \in 1 .. Len(types) : Len(p) + i \in 1 .. Len(pt)
  BY <1>1, <1>2
<1>12. ASSUME OnlyOf(events, p) PROVE OnlyOf(events \union ToSet(e), pt)
  <2>1. ASSUME NEW x \in events PROVE \E i \in 1 .. Len(pt) : x = Of(pt, i)
    <3>1. PICK i \in 1 .. Len(p) : x = Of(p, i)
      BY <1>12, <2>1 DEF OnlyOf
    <3> QED BY <1>9, <1>10, <3>1
  <2>2. ASSUME NEW x \in ToSet(e) PROVE \E i \in 1 .. Len(pt) : x = Of(pt, i)
    <3>1. PICK i \in 1 .. Len(types) : x = Of(pt, Len(p) + i)
      BY <1>7
    <3> QED BY <1>11, <3>1
  <2> QED BY <2>1, <2>2 DEF OnlyOf
<1>13. ASSUME AllOf(events, p) PROVE AllOf(events \union ToSet(e), pt)
  <2>1. ASSUME NEW i \in 1 .. Len(pt) PROVE Of(pt, i) \in events \union ToSet(e)
    <3>1. CASE i \in 1 .. Len(p)
      <4>1. Of(p, i) \in events
        BY <1>13, <3>1 DEF AllOf
      <4> QED BY <1>9, <3>1, <4>1
    <3>2. CASE i \notin 1 .. Len(p)
      <4>1. i - Len(p) \in 1 .. Len(types) /\ i = Len(p) + (i - Len(p))
        BY <1>1, <1>2, <3>2
      <4> QED BY <1>8, <4>1
    <3> QED BY <3>1, <3>2
  <2> QED BY <2>1 DEF AllOf
<1> QED BY <1>12, <1>13 DEF e, pt

\* A turn that is under way publishes.
LEMMA ChatPublishes ==
  ASSUME Shaped, LogInv, NEW r \in ChatRuns, Whole(r), Saved(r), turn[r].pc \notin Ended,
         NEW types \in Seq(Types), Publish(r, types)
  PROVE  /\ Len(buffer'[r]) = Len(published'[r]) /\ seqs'[r] = Len(published'[r])
         /\ timers'[r] = Cardinality(EndsIn(types))
         /\ Len(heard'[r]) # 0 => heard'[r][1] = 1
         /\ stream'[r] = "open" /\ Len(heard'[r]) = 0 => Len(published'[r]) = 0
         /\ Saved(r)'
         /\ published'[r] = published[r] \o types
<1> DEFINE e == Batch(types, seqs[r], published[r])
<1>1. r \in Runs
  BY ChatAssumption
<1>2. /\ published[r] \in Seq(Types) /\ buffer[r] \in Seq(Event) /\ heard[r] \in Seq(Nat)
      /\ Log(buffer[r], published[r], stream[r], heard[r])
  BY <1>1 DEF Shaped, LogInv
<1>3. /\ Len(buffer[r]) = Len(published[r]) /\ seqs[r] = Len(published[r]) /\ timers[r] = 0
      /\ stream[r] = "open" /\ Len(heard[r]) = 0 => Len(published[r]) = 0
      /\ Len(heard[r]) # 0 => heard[r][1] = 1
  BY DEF Whole, Ended
<1>4. Len(published[r]) \in Nat /\ Len(types) \in Nat
  BY <1>2
<1>5. e \in Seq(Event) /\ ComeAfter(e, types, Len(published[r])) /\ Len(e) = Len(types)
  BY <1>2, <1>3, <1>4, BatchIs
<1>6. seqs'[r] = seqs[r] + Len(types)
  BY <1>1, PublishIs
<1>7. buffer'[r] = buffer[r] \o e
  BY <1>1, PublishIs
<1>8. published'[r] = published[r] \o types
  BY <1>1, PublishIs
<1>9. saving'[r] = saving[r] \union ToSet(e) /\ rows' = rows /\ lost' = lost
  BY <1>1, PublishIs
<1>10. timers'[r] = timers[r] + Cardinality(EndsIn(types))
  BY <1>1, PublishIs
<1>11. /\ stream'[r] = IF stream[r] = "open" THEN After(e) ELSE stream[r]
       /\ heard'[r] = IF stream[r] = "open" THEN heard[r] \o Places(UpToEnd(e)) ELSE heard[r]
  BY <1>1, PublishIs
<1>12. Saved(r)'
  <2>1. e = Batch(types, Len(published[r]), published[r])
    BY <1>3
  <2>2. /\ OnlyOf(saving[r] \union rows[r], published[r])
        /\ lost \/ AllOf(saving[r] \union rows[r], published[r])
    BY DEF Saved
  <2> HIDE DEF e
  <2> DEFINE events == saving[r] \union rows[r]
  <2>3. /\ OnlyOf(events \union ToSet(e), published'[r])
        /\ lost \/ AllOf(events \union ToSet(e), published'[r])
    BY <1>2, <1>8, <2>1, <2>2, SavedGrows
  <2>4. saving'[r] \union rows'[r] = events \union ToSet(e)
    BY <1>9
  <2> HIDE DEF events
  <2> QED BY <1>9, <2>3, <2>4 DEF Saved
<1>13. Len(published'[r]) = Len(published[r]) + Len(types)
  BY <1>2, <1>8, Joined
<1>14. Len(buffer'[r]) = Len(buffer[r]) + Len(e)
  <2>1. e \in Seq(Event)
    BY <1>5
  <2>2. buffer[r] \in Seq(Event)
    BY <1>2
  <2> HIDE DEF e
  <2>3. Len(buffer[r] \o e) = Len(buffer[r]) + Len(e)
    BY <2>1, <2>2, Joined
  <2> QED BY <1>7, <2>3
<1>15. timers'[r] = Cardinality(EndsIn(types))
  <2>1. Cardinality(EndsIn(types)) \in Nat
    BY EndsInIs
  <2> QED BY <1>3, <1>10, <2>1
<1> HIDE DEF e
<1>16. /\ Len(heard'[r]) # 0 => heard'[r][1] = 1
       /\ stream'[r] = "open" /\ Len(heard'[r]) = 0 => Len(published'[r]) = 0
  <2>1. CASE stream[r] = "open"
    <3> DEFINE h == heard[r]
               g == h \o Places(UpToEnd(e))
               p == published[r]
    <3>1. InOrder(h, p) /\ (Len(h) # 0 => h[Len(h)] = Len(p) /\ p[Len(p)] \notin Terminal)
      BY <1>2, <2>1 DEF Log
    <3>2. Len(h) # 0 => Len(g) # 0 /\ g[1] = h[1]
      BY <1>2, <1>5, <3>1, HeardGrows
    <3>3. Len(h) = 0 /\ Len(g) # 0 => g[1] = Len(p) + 1
      BY <1>2, <1>5, <3>1, HeardGrows
    <3>4. Len(g) = 0 => Len(types) = 0
      BY <1>2, <1>5, <3>1, HeardGrows
    <3>5. heard'[r] = g
      BY <1>11, <2>1
    <3>6. Len(h) \in Nat
      BY <1>2
    <3> HIDE DEF h, g, p
    <3>7. stream[r] = "open" /\ Len(h) = 0 => Len(p) = 0
      BY <1>3 DEF h, p
    <3>8. Len(h) # 0 => h[1] = 1
      BY <1>3 DEF h
    <3>9. Len(published'[r]) = Len(p) + Len(types)
      BY <1>13 DEF p
    <3> QED BY <1>4, <2>1, <3>2, <3>3, <3>4, <3>5, <3>7, <3>8, <3>9
  <2>2. CASE stream[r] # "open"
    BY <1>3, <1>11, <2>2
  <2> QED BY <2>1, <2>2
<1> QED BY <1>3, <1>4, <1>5, <1>6, <1>8, <1>12, <1>13, <1>14, <1>15, <1>16

\* Steps that leave the runs' rows and the page alone.
LEMMA UnpostedKept ==
  ASSUME NEW r \in Runs, Unposted(r), posting' = posting,
         status'[r] = "none" => status[r] = "none",
         stream[r] = "off" => stream'[r] = "off" /\ heard'[r] = heard[r]
  PROVE  Unposted(r)'
BY DEF Unposted

LEMMA PublishKeepsUnposted ==
  ASSUME CopilotInv, NEW r \in Runs, NEW types \in Seq(Types), Publish(r, types),
         posting' = posting,
         \A s \in Runs : status'[s] = "none" => status[s] = "none"
  PROVE  \A s \in Runs : Unposted(s)'
<1>1. Shaped /\ \A s \in Runs : Unposted(s)
  BY DEF CopilotInv
<1> DEFINE e == Batch(types, seqs[r], published[r])
<1>2. /\ stream'[r] = IF stream[r] = "open" THEN After(e) ELSE stream[r]
      /\ heard'[r] = IF stream[r] = "open" THEN heard[r] \o Places(UpToEnd(e)) ELSE heard[r]
  BY <1>1, PublishIs
<1>3. \A s \in Runs \ {r} : Still(s)
  BY <1>1, PublishIs
<1> HIDE DEF e
<1>4. \A s \in Runs : stream[s] = "off" => stream'[s] = "off" /\ heard'[s] = heard[s]
  BY <1>2, <1>3 DEF Still
<1> QED BY <1>1, <1>4, UnpostedKept

LEMMA QuietKeeps ==
  ASSUME CopilotInv, Quiet, status' \in [Runs -> Statuses]
  PROVE  Shaped' /\ LogInv' /\ \A s \in Runs : Still(s)
BY DEF CopilotInv, Quiet, busVars, Shaped, LogInv, Still

LEMMA MovesKeep ==
  ASSUME CopilotInv, NEW r \in ChatRuns, Moves(r), TurnsShaped', posting' = posting
  PROVE  CopilotInv'
<1>1. /\ Shaped /\ LogInv /\ TurnsShaped /\ \A s \in Runs : Unposted(s)
      /\ \A s \in ChatRuns : Chat(s)
  BY DEF CopilotInv
<1>2. r \in Runs /\ turn[r].pc \notin Ended /\ status[r] # "none" /\ Whole(r) /\ Saved(r) /\ Told(r)
  BY <1>1, ChatAssumption DEF Moves, Chat, Whole, Ended
<1>3. \A s \in ChatRuns \ {r} : turn'[s] = turn[s] /\ s \in Runs
  BY ChatAssumption DEF Moves
<1>4. ToSet(thread) \subseteq ToSet(thread')
  BY DEF Moves
<1>5. CASE Works(r)
  <2>1. /\ Quiet
        /\ UNCHANGED status \/ \E end \in {"completed", "error"} : status' = [status EXCEPT ![r] = end]
    BY <1>5 DEF Works
  <2>a. /\ status' \in [Runs -> Statuses] /\ \A s \in Runs \ {r} : status'[s] = status[s]
        /\ status'[r] # "none"
    BY <1>1, <1>2, <2>1 DEF Shaped, Statuses
  <2>2. Shaped' /\ LogInv' /\ \A s \in Runs : Still(s)
    BY <1>1, <2>1, <2>a, QuietKeeps
  <2>3. lost' = lost
    BY <2>1 DEF Quiet
  <2>4. \A s \in ChatRuns \ {r} : Chat(s)'
    BY <1>1, <1>3, <1>4, <2>a, <2>2, <2>3, StillKeeps
  <2>5. Still(r)
    BY <1>2, <2>2
  <2>6. Whole(r)'
    BY <1>2, <1>5, <2>a, <2>5 DEF Whole, Still, Works, Ended
  <2>7. Saved(r)'
    BY <1>2, <2>3, <2>5 DEF Saved, Still
  <2>8. Told(r)'
    <3>1. turn'[r].pc # "ended" /\ (turn'[r].pc = "finish" => AnswerOf(r) \in ToSet(thread'))
      BY <1>5 DEF Works
    <3>2. ASSUME turn'[r].pc = "tell"
          PROVE  status'[r] = turn'[r].outcome /\ AnswerOf(r) \in ToSet(thread')
      <4>1. turn[r].pc = "finish" /\ status' = [status EXCEPT ![r] = turn'[r].outcome]
        BY <1>5, <3>2 DEF Works
      <4>2. status'[r] = turn'[r].outcome
        BY <1>1, <1>2, <4>1 DEF Shaped
      <4> QED BY <1>2, <1>4, <4>1, <4>2 DEF Told
    <3> QED BY <3>1, <3>2 DEF Told
  <2>9. \A s \in Runs : Unposted(s)'
    BY <1>1, <2>a, <2>1, <2>2, UnpostedKept DEF Still
  <2> QED BY <1>1, <2>2, <2>4, <2>6, <2>7, <2>8, <2>9 DEF CopilotInv, Chat
<1>6. CASE Talks(r)
  <2>1. PICK types \in Seq(Types) : /\ Publish(r, types)
                                    /\ \A i \in 1 .. Len(types) : types[i] \notin Terminal
    BY <1>6 DEF Talks
  <2>2. status' = status /\ turn'[r].pc \notin {"none", "ended", "dead", "finish", "tell"}
    BY <1>6 DEF Talks
  <2>3. Shaped' /\ LogInv'
    BY <1>1, <1>2, <2>1, <2>2, PublishKeeps DEF Shaped
  <2>4. \A s \in Runs \ {r} : Still(s)
    BY <1>1, <1>2, <2>1, PublishIs
  <2>5. lost' = lost
    BY <2>1 DEF Publish
  <2>6. \A s \in ChatRuns \ {r} : Chat(s)'
    BY <1>1, <1>3, <1>4, <2>2, <2>4, <2>5, StillKeeps
  <2>7. /\ Len(buffer'[r]) = Len(published'[r]) /\ seqs'[r] = Len(published'[r])
        /\ Len(heard'[r]) # 0 => heard'[r][1] = 1
        /\ stream'[r] = "open" /\ Len(heard'[r]) = 0 => Len(published'[r]) = 0
    BY <1>1, <1>2, <2>1, ChatPublishes
  <2>8. Saved(r)' /\ published'[r] = published[r] \o types
    BY <1>1, <1>2, <2>1, ChatPublishes
  <2>9. timers'[r] = 0
    BY <1>1, <1>2, <2>1, ChatPublishes, EndsInIs
  <2>10. NoEnd(published[r] \o types)
    <3>1. NoEnd(published[r]) /\ NoEnd(types)
      BY <1>1, <1>2, <2>1 DEF Shaped, Whole, NoEnd, Ended
    <3> QED BY <3>1, NoEndIs
  <2>11. Whole(r)'
    BY <1>2, <2>2, <2>7, <2>8, <2>9, <2>10 DEF Whole, NoEnd
  <2>12. Told(r)'
    BY <2>2 DEF Told
  <2>13. \A s \in Runs : Unposted(s)'
    BY <1>2, <2>1, <2>2, PublishKeepsUnposted
  <2> QED BY <1>1, <2>3, <2>6, <2>8, <2>11, <2>12, <2>13 DEF CopilotInv, Chat
<1>7. ASSUME Succeeds(r) \/ Fails(r) PROVE CopilotInv'
  <2>1. PICK types \in {<<"message", "run.done">>, <<"run.error">>} :
          /\ Publish(r, types)
          /\ types = <<"message", "run.done">> => Succeeds(r)
    BY <1>7 DEF Succeeds, Fails
  <2>2. types \in Seq(Types)
    <3>1. "message" \in Types /\ "run.done" \in Types /\ "run.error" \in Types
      BY DEF Types, Words, Terminal
    <3>2. CASE types = <<"message", "run.done">>
      BY <3>1, <3>2
    <3>3. CASE types = <<"run.error">>
      BY <3>1, <3>3
    <3> QED BY <3>2, <3>3
  <2>3. turn'[r].pc = "ended" /\ turn'[r].outcome \in {"completed", "error"}
    BY <1>1, <1>7, <1>2 DEF Succeeds, Fails, TurnsShaped, Turn
  <2>4. status' \in [Runs -> Statuses] /\ \A s \in Runs \ {r} : status'[s] = status[s]
    BY <1>1, <1>2, <1>7 DEF Succeeds, Fails, Shaped
  <2>5. status'[r] # "none"
    BY <1>2, <1>7 DEF Succeeds, Fails
  <2>6. Shaped' /\ LogInv'
    BY <1>1, <1>2, <2>1, <2>2, <2>4, PublishKeeps
  <2>7. \A s \in Runs \ {r} : Still(s)
    BY <1>1, <1>2, <2>1, <2>2, PublishIs
  <2>8. lost' = lost
    BY <2>1 DEF Publish
  <2>9. \A s \in ChatRuns \ {r} : Chat(s)'
    BY <1>1, <1>3, <1>4, <2>4, <2>7, <2>8, StillKeeps
  <2>10. /\ Len(buffer'[r]) = Len(published'[r])
         /\ Len(heard'[r]) # 0 => heard'[r][1] = 1
    BY <1>1, <1>2, <2>1, <2>2, ChatPublishes
  <2>11. Saved(r)' /\ published'[r] = published[r] \o types
    BY <1>1, <1>2, <2>1, <2>2, ChatPublishes
  <2>12. Whole(r)'
    BY <2>3, <2>5, <2>10 DEF Whole
  <2>13. Told(r)'
    <3>1. CASE Succeeds(r)
      <4>1. status'[r] = turn'[r].outcome
        BY <1>2, <3>1 DEF Succeeds, Told
      <4>2. AnswerOf(r) \in ToSet(thread')
        BY <1>2, <1>4, <3>1 DEF Succeeds, Told
      <4> QED BY <2>3, <4>1, <4>2 DEF Told
    <3>2. CASE ~ Succeeds(r)
      <4>1. types = <<"run.error">>
        BY <2>1, <3>2
      <4> DEFINE p == published[r]
                 pt == published'[r]
      <4>2. p \in Seq(Types) /\ Len(p) \in Nat /\ Len(types) = 1 /\ types[1] = "run.error"
        BY <1>1, <1>2, <4>1 DEF Shaped
      <4>a. pt = p \o types
        BY <2>11
      <4>b. p \in Seq(Types)
        BY <4>2
      <4> HIDE DEF p, pt
      <4>3. Len(pt) = Len(p) + 1
        <5>1. Len(pt) = Len(p) + Len(types)
          BY <2>2, <4>a, <4>b, Joined
        <5> QED BY <4>2, <5>1
      <4>4. \A i \in 1 .. Len(p) : pt[i] = p[i]
        BY <2>2, <4>a, <4>b, Joined
      <4>5. \A i \in 1 .. Len(types) : pt[Len(p) + i] = types[i]
        BY <2>2, <4>a, <4>b, Joined
      <4>6. \A i \in 1 .. Len(p) : p[i] \notin Terminal
        BY <1>2 DEF Whole, Ended, p
      <4>7. pt \in Seq(Types)
        BY <1>2, <2>6 DEF Shaped, pt
      <4>8. pt[Len(p) + 1] = "run.error"
        BY <4>2, <4>5
      <4>9. DOMAIN pt = 1 .. Len(p) + 1
        BY <4>3, <4>7
      <4>10. \A i \in 1 .. Len(p) + 1 : pt[i] # "run.done"
        BY <4>2, <4>4, <4>6, <4>8 DEF Terminal
      <4>11. "run.done" \notin ToSet(pt)
        BY <4>9, <4>10 DEF ToSet
      <4> QED BY <2>3, <4>11 DEF Told, pt
    <3> QED BY <3>1, <3>2
  <2>14. \A s \in Runs : Unposted(s)'
    BY <1>2, <2>1, <2>2, <2>4, <2>5, PublishKeepsUnposted
  <2> QED BY <1>1, <2>6, <2>9, <2>11, <2>12, <2>13, <2>14 DEF CopilotInv, Chat
<1> QED BY <1>5, <1>6, <1>7 DEF Moves

\* A playbook run publishes, or ends in its row.
LEMMA PlansKeep ==
  ASSUME CopilotInv, NEW r \in PlanRuns, PlanStep(r), UNCHANGED pageVars
  PROVE  CopilotInv'
<1>1. /\ Shaped /\ LogInv /\ TurnsShaped /\ \A s \in Runs : Unposted(s)
      /\ \A s \in ChatRuns : Chat(s)
  BY DEF CopilotInv
<1>2. r \in Runs /\ r \notin ChatRuns /\ \A s \in ChatRuns : s \in Runs \ {r}
  BY ChatAssumption DEF PlanRuns
<1>3. posting' = posting /\ turn' = turn /\ thread' = thread
  BY DEF PlanStep, PlanBegins, PlanPauses, PlanFinishes, PlanTells, pageVars, turnVars
<1>4. TurnsShaped'
  BY <1>1, <1>3 DEF TurnsShaped
<1>5. ASSUME NEW types \in Seq(Types), Publish(r, types), status' = status PROVE CopilotInv'
  <2>1. Shaped' /\ LogInv'
    BY <1>1, <1>2, <1>5, PublishKeeps DEF Shaped
  <2>2. \A s \in Runs \ {r} : Still(s)
    BY <1>1, <1>2, <1>5, PublishIs
  <2>3. lost' = lost
    BY <1>5 DEF Publish
  <2>4. \A s \in ChatRuns : Chat(s)'
    BY <1>1, <1>2, <1>3, <1>5, <2>2, <2>3, StillKeeps
  <2>5. \A s \in Runs : Unposted(s)'
    BY <1>2, <1>3, <1>5, PublishKeepsUnposted
  <2> QED BY <1>4, <2>1, <2>4, <2>5 DEF CopilotInv
<1>6. ASSUME NEW outcome \in {"completed", "blocked"},
             status' = [status EXCEPT ![r] = outcome], Quiet
      PROVE  CopilotInv'
  <2>1. /\ status' \in [Runs -> Statuses] /\ \A s \in Runs \ {r} : status'[s] = status[s]
        /\ status'[r] # "none"
    BY <1>1, <1>2, <1>6 DEF Shaped, Statuses
  <2>2. Shaped' /\ LogInv' /\ \A s \in Runs : Still(s)
    BY <1>6, <2>1, QuietKeeps
  <2>3. lost' = lost
    BY <1>6 DEF Quiet
  <2>4. \A s \in ChatRuns : Chat(s)'
    BY <1>1, <1>2, <1>3, <2>1, <2>2, <2>3, StillKeeps
  <2>5. \A s \in Runs : Unposted(s)'
    BY <1>1, <1>3, <2>1, <2>2, UnpostedKept DEF Still
  <2> QED BY <1>4, <2>2, <2>4, <2>5 DEF CopilotInv
<1>7. /\ <<"run.started">> \in Seq(Types) /\ <<"approval.required">> \in Seq(Types)
      /\ <<"truth_card", "message", "run.done">> \in Seq(Types)
      /\ <<"truth_card", "run.error">> \in Seq(Types)
  <2>1. /\ "run.started" \in Types /\ "approval.required" \in Types /\ "truth_card" \in Types
        /\ "message" \in Types /\ "run.done" \in Types /\ "run.error" \in Types
    BY DEF Types, Words, Terminal
  <2> QED BY <2>1
<1>8. CASE PlanBegins(r)
  BY <1>5, <1>7, <1>8 DEF PlanBegins
<1>9. CASE PlanPauses(r)
  BY <1>5, <1>7, <1>9 DEF PlanPauses
<1>10. CASE PlanFinishes(r)
  BY <1>6, <1>10 DEF PlanFinishes
<1>11. CASE PlanTells(r)
  BY <1>5, <1>7, <1>11 DEF PlanTells
<1> QED BY <1>8, <1>9, <1>10, <1>11 DEF PlanStep

\* A request of the page reaches the agent.
LEMMA ReachesKeeps ==
  ASSUME CopilotInv, NEW r \in Runs, Reaches(r)
  PROVE  CopilotInv'
<1>1. /\ Shaped /\ LogInv /\ TurnsShaped /\ \A s \in Runs : Unposted(s)
      /\ \A s \in ChatRuns : Chat(s)
  BY DEF CopilotInv
<1>2. r \in posting /\ posting' = posting /\ Quiet /\ status[r] = "none"
  BY DEF Reaches, AcceptMessage, AcceptPlan, pageVars
<1>3. status' \in [Runs -> Statuses] /\ \A s \in Runs \ {r} : status'[s] = status[s]
  BY <1>1 DEF Reaches, AcceptMessage, AcceptPlan, Shaped, Statuses
<1>4. Shaped' /\ LogInv' /\ \A s \in Runs : Still(s)
  BY <1>2, <1>3, QuietKeeps
<1>5. lost' = lost
  BY <1>2 DEF Quiet
<1>6. \A s \in Runs : Unposted(s)'
  BY <1>1, <1>2, <1>3, <1>4 DEF Still, Unposted
<1>7. CASE r \in PlanRuns
  <2>1. turn' = turn /\ thread' = thread /\ r \notin ChatRuns
    BY <1>7 DEF Reaches, AcceptPlan, turnVars, PlanRuns
  <2>2. \A s \in ChatRuns : s \in Runs \ {r}
    BY <2>1, ChatAssumption
  <2>3. \A s \in ChatRuns : Chat(s)'
    BY <1>1, <1>3, <1>4, <1>5, <2>1, <2>2, StillKeeps
  <2>4. TurnsShaped'
    BY <1>1, <2>1 DEF TurnsShaped
  <2> QED BY <1>4, <1>6, <2>3, <2>4 DEF CopilotInv
<1>8. CASE r \in ChatRuns
  <2>1. AcceptMessage(r)
    BY <1>8 DEF Reaches, PlanRuns
  <2> DEFINE line == [role |-> "user", run |-> r]
  <2>2. thread' = Append(thread, line) /\ line \in Line
    BY <2>1 DEF AcceptMessage, Line
  <2> HIDE DEF line
  <2>3. thread' \in Seq(Line) /\ ToSet(thread) \subseteq ToSet(thread')
    BY <1>1, <2>2, AppendIs DEF TurnsShaped
  <2>4. turn[r].pc = "none" /\ Chat(r)
    BY <1>1, <1>2, <1>8 DEF Chat, Whole
  <2>5. \A s \in ChatRuns \ {r} : s \in Runs \ {r}
    BY ChatAssumption
  <2>6. CASE status' = [status EXCEPT ![r] = "running"] /\ TurnTo(r, "begin")
    <3>1. "begin" \in Pcs /\ "begin" \notin Calling
      BY DEF Pcs, Calling
    <3>2. /\ turn' \in [ChatRuns -> Turn]
          /\ turn'[r].pc = "begin" /\ turn'[r].outcome = turn[r].outcome
          /\ \A s \in ChatRuns \ {r} : turn'[s] = turn[s]
          /\ \A s \in ChatRuns : turn'[s].pc \in Calling => turn'[s].calls # <<>>
      BY <1>1, <1>8, <2>6, <3>1, TurnToIs
    <3>3. TurnsShaped'
      BY <2>3, <3>2 DEF TurnsShaped
    <3>4. \A s \in ChatRuns \ {r} : Chat(s)'
      BY <1>1, <1>3, <1>4, <1>5, <2>3, <2>5, <3>2, StillKeeps
    <3>5. status'[r] = "running"
      BY <1>1, <2>6 DEF Shaped
    <3>6. Still(r)
      BY <1>4
    <3>7. Whole(r)'
      BY <2>4, <3>2, <3>5, <3>6 DEF Whole, Chat, Still
    <3>8. Saved(r)'
      BY <1>5, <2>4, <3>6 DEF Saved, Chat, Still
    <3>9. Told(r)'
      BY <3>2 DEF Told
    <3> QED BY <1>4, <1>6, <3>3, <3>4, <3>7, <3>8, <3>9 DEF CopilotInv, Chat
  <2>7. CASE UNCHANGED <<status, turn>>
    <3>1. TurnsShaped'
      BY <1>1, <2>3, <2>7 DEF TurnsShaped
    <3>2. \A s \in ChatRuns : s \in Runs
      BY ChatAssumption
    <3>3. \A s \in ChatRuns : Chat(s)'
      BY <1>1, <1>4, <1>5, <2>3, <2>7, <3>2, StillKeeps
    <3> QED BY <1>4, <1>6, <3>1, <3>3 DEF CopilotInv
  <2> QED BY <2>1, <2>6, <2>7 DEF AcceptMessage
<1> QED BY <1>7, <1>8 DEF PlanRuns

\* An insert ends: the row of an event, which has the event's number, is the event.
LEMMA InsertsKeep ==
  ASSUME CopilotInv, NEW r \in Runs, Persist(r) \/ PersistFails(r),
         UNCHANGED <<turn, thread, posting>>
  PROVE  CopilotInv'
<1>1. /\ Shaped /\ LogInv /\ TurnsShaped /\ \A s \in Runs : Unposted(s)
      /\ \A s \in ChatRuns : Chat(s)
  BY DEF CopilotInv
<1>2. UNCHANGED <<status, seqs, buffer, timers, published, stream, heard>> /\ (lost => lost')
      /\ lost' \in BOOLEAN
  BY <1>1 DEF Persist, PersistFails, Shaped
<1>3. /\ saving' \in [Runs -> SUBSET Event] /\ rows' \in [Runs -> SUBSET Event]
      /\ \A s \in Runs \ {r} : saving'[s] = saving[s] /\ rows'[s] = rows[s]
  <2>1. CASE Persist(r)
    <3>1. PICK e \in saving[r] : /\ saving' = [saving EXCEPT ![r] = @ \ {e}]
                                 /\ rows' = [rows EXCEPT ![r] = Inserted(@, e)]
      BY <2>1 DEF Persist
    <3>2. Inserted(rows[r], e) \in SUBSET Event
      BY <1>1 DEF Shaped, Inserted
    <3> QED BY <1>1, <3>1, <3>2 DEF Shaped
  <2>2. CASE PersistFails(r)
    BY <1>1, <2>2 DEF Shaped, PersistFails
  <2> QED BY <2>1, <2>2
<1>4. Shaped' /\ LogInv' /\ TurnsShaped'
  BY <1>1, <1>2, <1>3 DEF Shaped, LogInv, TurnsShaped
<1>5. \A s \in Runs : Unposted(s)'
  BY <1>1, <1>2 DEF Unposted
<1>6. ASSUME NEW s \in ChatRuns, s # r PROVE Chat(s)'
  <2>1. s \in Runs \ {r}
    BY <1>6, ChatAssumption
  <2>2. Still(s)
    BY <1>2, <1>3, <2>1 DEF Still
  <2> QED BY <1>1, <1>2, <2>2, StillKeeps
<1>7. ASSUME r \in ChatRuns PROVE Chat(r)'
  <2>1. Chat(r)
    BY <1>1, <1>7
  <2>2. Whole(r)' /\ Told(r)'
    BY <1>2, <2>1 DEF Chat, Whole, Told
  <2>3. /\ OnlyOf(saving[r] \union rows[r], published[r])
        /\ lost \/ AllOf(saving[r] \union rows[r], published[r])
    BY <2>1 DEF Chat, Saved
  <2>4. CASE Persist(r)
    <3>1. PICK e \in saving[r] : /\ saving' = [saving EXCEPT ![r] = @ \ {e}]
                                 /\ rows' = [rows EXCEPT ![r] = Inserted(@, e)]
      BY <2>4 DEF Persist
    <3>2. Inserted(rows[r], e) = rows[r] \union {e}
      <4>1. ASSUME NEW row \in rows[r], row.seq = e.seq PROVE row = e
        <5>1. PICK i \in 1 .. Len(published[r]) : row = Of(published[r], i)
          BY <2>3 DEF OnlyOf
        <5>2. PICK j \in 1 .. Len(published[r]) : e = Of(published[r], j)
          BY <2>3 DEF OnlyOf
        <5>3. i = j
          BY <4>1, <5>1, <5>2 DEF Of
        <5> QED BY <5>1, <5>2, <5>3
      <4> QED BY <4>1 DEF Inserted
    <3>3. saving'[r] \union rows'[r] = saving[r] \union rows[r]
      BY <1>1, <3>1, <3>2 DEF Shaped
    <3> QED BY <1>2, <2>2, <2>3, <3>3 DEF Chat, Saved
  <2>5. CASE PersistFails(r)
    <3>1. saving'[r] \union rows'[r] \subseteq saving[r] \union rows[r] /\ lost'
      BY <1>1, <2>5 DEF Shaped, PersistFails
    <3>2. OnlyOf(saving'[r] \union rows'[r], published'[r])
      BY <1>2, <2>3, <3>1 DEF OnlyOf
    <3> QED BY <2>2, <3>1, <3>2 DEF Chat, Saved
  <2> QED BY <2>4, <2>5
<1> QED BY <1>4, <1>5, <1>6, <1>7 DEF CopilotInv

\* The stream of a run goes on, or the bus forgets the run.
LEMMA StreamsKeep ==
  ASSUME CopilotInv, NEW r \in Runs, StreamStep(r) \/ (r \notin posting /\ Expire(r)),
         UNCHANGED <<turn, thread, posting>>
  PROVE  CopilotInv'
<1>1. /\ Shaped /\ LogInv /\ TurnsShaped /\ \A s \in Runs : Unposted(s)
      /\ \A s \in ChatRuns : Chat(s)
  BY DEF CopilotInv
<1>2. UNCHANGED <<status, published, saving, rows, lost>>
  BY DEF StreamStep, StreamReadsRow, StreamSynthesizes, StreamFollows, Expire, busVars
<1> DEFINE b == buffer[r]
           p == published[r]
<1>3. /\ b \in Seq(Event) /\ p \in Seq(Types) /\ heard[r] \in Seq(Nat) /\ stream[r] \in StreamStates
      /\ Log(b, p, stream[r], heard[r]) /\ Unposted(r)
  BY <1>1 DEF Shaped, LogInv
<1>4. ASSUME Shaped', \A s \in Runs \ {r} : Still(s),
             Log(buffer'[r], p, stream'[r], heard'[r]),
             stream[r] = "off" => stream'[r] = "off" /\ heard'[r] = heard[r],
             r \in ChatRuns => Whole(r)'
      PROVE  CopilotInv'
  <2>1. LogInv'
    BY <1>1, <1>2, <1>4 DEF LogInv, Still
  <2>2. TurnsShaped'
    BY <1>1 DEF TurnsShaped
  <2>3. \A s \in Runs : Unposted(s)'
    BY <1>1, <1>2, <1>4 DEF Unposted, Still
  <2>4. ASSUME NEW s \in ChatRuns, s # r PROVE Chat(s)'
    <3>1. s \in Runs \ {r}
      BY <2>4, ChatAssumption
    <3> QED BY <1>1, <1>2, <1>4, <2>4, <3>1, StillKeeps
  <2>5. r \in ChatRuns => Saved(r)' /\ Told(r)'
    BY <1>1, <1>2 DEF Chat, Saved, Told
  <2> QED BY <1>4, <2>1, <2>2, <2>3, <2>4, <2>5 DEF CopilotInv, Chat
<1>5. ASSUME StreamReadsRow(r) \/ StreamSynthesizes(r) PROVE CopilotInv'
  <2>1. PICK to \in {"sawRunning", "sawEnd", "told"} : stream' = [stream EXCEPT ![r] = to]
    BY <1>5 DEF StreamReadsRow, StreamSynthesizes
  <2>2. stream[r] \in Opening /\ UNCHANGED <<busVars, heard>>
    BY <1>5 DEF StreamReadsRow, StreamSynthesizes, Opening
  <2>3. to \in StreamStates \ {"open"} /\ stream'[r] = to
    BY <1>1, <2>1 DEF StreamStates, Shaped
  <2>4. Shaped' /\ \A s \in Runs \ {r} : Still(s)
    BY <1>1, <1>2, <2>1, <2>2, <2>3 DEF Shaped, Still, busVars
  <2>5. Log(buffer'[r], p, stream'[r], heard'[r])
    <3>1. Len(heard[r]) = 0
      BY <1>3, <2>2 DEF Log
    <3>2. Log(b, p, to, heard[r])
      BY <1>3, <2>3, <3>1, LogForgets
    <3> QED BY <2>2, <2>3, <3>2 DEF busVars
  <2>6. r \in ChatRuns => Whole(r)'
    BY <1>1, <1>2, <2>2, <2>3 DEF Whole, Chat, busVars
  <2> QED BY <1>4, <2>2, <2>4, <2>5, <2>6 DEF Opening
<1>6. ASSUME StreamFollows(r) PROVE CopilotInv'
  <2> DEFINE g == Places(UpToEnd(b))
  <2>1. /\ stream[r] \in {"sawRunning", "sawEnd"}
        /\ stream' = [stream EXCEPT ![r] = After(b)]
        /\ heard' = [heard EXCEPT ![r] = @ \o g]
        /\ UNCHANGED busVars
    BY <1>6 DEF StreamFollows
  <2>2. Log(b, p, After(b), heard[r] \o g)
    BY <1>3, <2>1, LogFollowed
  <2>3. TailOf(b, p)
    BY <1>3 DEF Log
  <2>4. g \in Seq(Nat)
    BY <1>3, <2>3, FollowsInOrder
  <2>5. Len(b) = Len(p) /\ Len(g) # 0 => g[1] = 1
    BY <1>3, <2>3, FollowsInOrder
  <2>6. Len(g) = 0 => Len(b) = 0
    BY <1>3, <2>3, FollowsInOrder
  <2>7. heard[r] = <<>>
    BY <1>3, <2>1 DEF Log, Opening
  <2>8. After(b) \in {"open", "told"}
    BY DEF After
  <2>14. Len(b) = 0 => Len(g) = 0
    <3>1. UpToEnd(b) \in Seq(Event) /\ Len(UpToEnd(b)) <= Len(b)
      BY <1>3, UpToEndIs
    <3>2. Len(g) = Len(UpToEnd(b)) /\ Len(g) \in Nat
      BY <2>4, <3>1, PlacesIs
    <3> HIDE DEF g, b
    <3> QED BY <3>1, <3>2
  <2> HIDE DEF g, b, p
  <2>9. heard[r] \o g = g
    BY <2>4, <2>7
  <2>10. stream'[r] = After(b) /\ heard'[r] = g
    BY <1>1, <2>1, <2>9 DEF Shaped
  <2>11. Shaped' /\ \A s \in Runs \ {r} : Still(s)
    BY <1>1, <1>2, <2>1, <2>4, <2>8, <2>9 DEF Shaped, Still, busVars, StreamStates
  <2>12. Log(buffer'[r], p, stream'[r], heard'[r])
    BY <2>1, <2>2, <2>9, <2>10 DEF busVars, b
  <2>13. r \in ChatRuns => Whole(r)'
    BY <1>1, <1>2, <2>1, <2>5, <2>6, <2>10, <2>14 DEF Whole, Chat, busVars, b, p
  <2> QED BY <1>4, <2>1, <2>11, <2>12, <2>13
<1>7. ASSUME Expire(r), r \notin posting PROVE CopilotInv'
  <2>1. /\ timers[r] > 0
        /\ timers' = [timers EXCEPT ![r] = @ - 1]
        /\ seqs' = [seqs EXCEPT ![r] = 0]
        /\ buffer' = [buffer EXCEPT ![r] = <<>>]
        /\ UNCHANGED <<stream, heard>>
    BY <1>7 DEF Expire
  <2>2. Shaped' /\ \A s \in Runs \ {r} : Still(s)
    BY <1>1, <1>2, <2>1 DEF Shaped, Still
  <2>3. buffer'[r] = <<>>
    BY <1>1, <2>1 DEF Shaped
  <2>4. Log(buffer'[r], p, stream'[r], heard'[r])
    BY <1>3, <2>1, <2>3, LogForgets
  <2>5. r \in ChatRuns => Whole(r)'
    <3>1. timers[r] # 0
      BY <1>1, <2>1 DEF Shaped
    <3>2. r \in ChatRuns => turn[r].pc \in {"ended", "dead"}
      BY <1>1, <3>1 DEF Chat, Whole
    <3> QED BY <1>1, <1>2, <2>1, <2>3, <3>2 DEF Whole, Chat
  <2> QED BY <1>4, <2>1, <2>2, <2>4, <2>5
<1> QED BY <1>5, <1>6, <1>7 DEF StreamStep

\* The page leaves a stream and asks for another, the one of a run that it asked for.
LEMMA FollowKeeps ==
  ASSUME CopilotInv, NEW q, Follow(q), q = NoRun \/ (q \in posting /\ status[q] # "none"),
         posting' \subseteq posting, q \in Runs => q \notin posting'
  PROVE  CopilotInv'
<1>1. /\ Shaped /\ LogInv /\ TurnsShaped /\ \A s \in Runs : Unposted(s)
      /\ \A s \in ChatRuns : Chat(s)
  BY DEF CopilotInv
<1>2. /\ UNCHANGED <<status, busVars, rows, heard, lost, turnVars>>
      /\ stream' = [s \in Runs |-> IF s = q THEN "asked"
                                   ELSE IF s = followed /\ stream[s] # "told" THEN "off"
                                   ELSE stream[s]]
  BY DEF Follow
<1>3. UNCHANGED <<seqs, timers, buffer, published, saving>>
  BY <1>2 DEF busVars
<1>4. UNCHANGED <<turn, thread>>
  BY <1>2 DEF turnVars
<1>5. \A s \in Runs : stream'[s] \in {"asked", "off", stream[s]} \intersect StreamStates
  BY <1>1, <1>2 DEF Shaped, StreamStates
<1>6. Shaped' /\ TurnsShaped'
  BY <1>1, <1>2, <1>3, <1>4, <1>5 DEF Shaped, TurnsShaped
<1>7. \A s \in Runs : stream'[s] = "asked" => s = q \/ stream[s] = "asked"
  BY <1>2
<1>8. \A s \in Runs : s = q => Len(heard[s]) = 0
  BY <1>1, NoRunAssumption DEF Unposted
<1>9. ASSUME NEW s \in Runs PROVE Log(buffer'[s], published'[s], stream'[s], heard'[s])
  <2>1. Log(buffer[s], published[s], stream[s], heard[s])
    BY <1>1 DEF LogInv
  <2>2. CASE stream'[s] = stream[s]
    BY <1>2, <1>3, <2>1, <2>2
  <2>3. CASE stream'[s] = "off"
    <3>1. "off" \in StreamStates \ {"open"} /\ "off" \notin Opening
      BY DEF StreamStates, Opening
    <3>2. Log(buffer[s], published[s], "off", heard[s])
      BY <2>1, <3>1, LogForgets
    <3> QED BY <1>2, <1>3, <2>3, <3>2
  <2>4. CASE stream'[s] = "asked" /\ stream[s] # "asked"
    <3>1. "asked" \in StreamStates \ {"open"} /\ Len(heard[s]) = 0
      BY <1>7, <1>8, <2>4 DEF StreamStates
    <3>2. Log(buffer[s], published[s], "asked", heard[s])
      BY <2>1, <3>1, LogForgets
    <3> QED BY <1>2, <1>3, <2>4, <3>2
  <2> QED BY <1>5, <2>2, <2>3, <2>4
<1>10. LogInv'
  BY <1>9 DEF LogInv
<1>11. ASSUME NEW s \in Runs PROVE Unposted(s)'
  <2>1. CASE s = q
    BY <1>2, <2>1, NoRunAssumption DEF Unposted
  <2>2. CASE s # q
    BY <1>1, <1>2, <2>2 DEF Unposted
  <2> QED BY <2>1, <2>2
<1>12. ASSUME NEW s \in ChatRuns PROVE Chat(s)'
  <2>1. s \in Runs /\ Chat(s)
    BY <1>1, ChatAssumption
  <2>2. Saved(s)' /\ Told(s)'
    BY <1>2, <1>3, <1>4, <2>1 DEF Chat, Saved, Told
  <2>3. stream'[s] = "open" => stream[s] = "open"
    BY <1>2, <2>1
  <2>4. Whole(s)'
    BY <1>2, <1>3, <1>4, <2>1, <2>3 DEF Chat, Whole
  <2> QED BY <2>2, <2>4 DEF Chat
<1> QED BY <1>6, <1>10, <1>11, <1>12 DEF CopilotInv

\* What the page or an approval changes besides.
LEMMA PageKeeps ==
  ASSUME CopilotInv, UNCHANGED <<eventVars, turn, thread>>,
         \A r \in posting' : r \in posting \/ status[r] = "none"
  PROVE  CopilotInv'
<1>1. UNCHANGED <<status, seqs, timers, buffer, published, saving, rows, stream, heard, lost>>
  BY DEF eventVars, busVars
<1>2. Shaped' /\ LogInv' /\ TurnsShaped'
  BY <1>1 DEF CopilotInv, Shaped, LogInv, TurnsShaped
<1>3. \A r \in Runs : Unposted(r)'
  BY <1>1 DEF CopilotInv, Unposted
<1>4. \A r \in ChatRuns : Chat(r)'
  BY <1>1 DEF CopilotInv, Chat, Whole, Saved, Told
<1> QED BY <1>2, <1>3, <1>4 DEF CopilotInv

\* The agent dies: of the inserts under way some are made.
LEMMA AgentDiesKeeps ==
  ASSUME CopilotInv, AgentDies
  PROVE  CopilotInv'
<1>1. /\ Shaped /\ LogInv /\ TurnsShaped /\ \A s \in Runs : Unposted(s)
      /\ \A s \in ChatRuns : Chat(s)
  BY DEF CopilotInv
<1>2. /\ seqs' = [r \in Runs |-> 0] /\ timers' = [r \in Runs |-> 0]
      /\ buffer' = [r \in Runs |-> <<>>] /\ saving' = [r \in Runs |-> {}]
      /\ stream' = [r \in Runs |-> IF stream[r] \in {"off", "told"} THEN stream[r] ELSE "cut"]
      /\ UNCHANGED <<status, published, heard>>
  BY DEF AgentDies, BusDies
<1>3. PICK inserts \in SUBSET InFlight : /\ rows' = [r \in Runs |-> Made(r, inserts)]
                                         /\ lost' = (lost \/ inserts # InFlight)
  BY DEF AgentDies, BusDies
<1>4. /\ turn' = [r \in ChatRuns |-> IF turn[r].pc \in Ended THEN turn[r]
                                     ELSE [turn[r] EXCEPT !.pc = "dead"]]
      /\ thread' = thread /\ posting' = posting
  BY DEF AgentDies, TurnsDie, pageVars
<1>5. \A r \in Runs : Made(r, inserts) \subseteq rows[r] \union saving[r]
  BY DEF Made
<1>6. lost' \in BOOLEAN
  BY <1>1, <1>3 DEF Shaped
<1>7. \A r \in Runs :
        stream'[r] \in StreamStates /\ stream'[r] \notin Opening /\ stream'[r] # "open"
  BY <1>1, <1>2 DEF Shaped, StreamStates, Opening
<1>8. Shaped'
  <2>1. <<>> \in Seq(Event) /\ {} \in SUBSET Event
    OBVIOUS
  <2>2. \A r \in Runs : Made(r, inserts) \in SUBSET Event
    BY <1>1, <1>5 DEF Shaped
  <2>3. rows' \in [Runs -> SUBSET Event]
    BY <1>3, <2>2
  <2>4. stream' \in [Runs -> StreamStates]
    BY <1>2, <1>7
  <2> QED BY <1>1, <1>2, <1>6, <2>1, <2>3, <2>4 DEF Shaped
<1>9. ASSUME NEW r \in Runs PROVE Log(buffer'[r], published'[r], stream'[r], heard'[r])
  <2>1. Log(buffer[r], published[r], stream[r], heard[r])
    BY <1>1 DEF LogInv
  <2>2. stream'[r] \in StreamStates \ {"open"} /\ stream'[r] \notin Opening
    BY <1>7
  <2>3. Log(<<>>, published[r], stream'[r], heard[r])
    BY <2>1, <2>2, LogForgets
  <2> QED BY <1>2, <2>3
<1>10. LogInv'
  BY <1>9 DEF LogInv
<1>11. \A r \in Runs : Unposted(r)'
  BY <1>1, <1>2, <1>4 DEF Unposted
<1>12. ASSUME NEW r \in ChatRuns
       PROVE  /\ turn'[r] \in Turn /\ turn'[r].outcome = turn[r].outcome
              /\ turn[r].pc \in Ended => turn'[r] = turn[r]
              /\ turn[r].pc \notin Ended => turn'[r].pc = "dead"
  <2>1. turn[r] \in Turn /\ "dead" \in Pcs
    BY <1>1 DEF TurnsShaped, Pcs, Ended
  <2>2. CASE turn[r].pc \in Ended
    BY <1>4, <2>1, <2>2
  <2>3. CASE turn[r].pc \notin Ended
    <3>1. turn'[r] = [turn[r] EXCEPT !.pc = "dead"]
      BY <1>4, <2>3
    <3> QED BY <2>1, <2>3, <3>1 DEF Turn
  <2> QED BY <2>2, <2>3
<1>13. TurnsShaped'
  <2>1. turn' \in [ChatRuns -> Turn]
    BY <1>4, <1>12
  <2>2. \A r \in ChatRuns : turn'[r].pc \in Calling => FALSE
    BY <1>12 DEF Calling, Ended
  <2> QED BY <1>1, <1>4, <2>1, <2>2 DEF TurnsShaped
<1>14. ASSUME NEW r \in ChatRuns PROVE Chat(r)'
  <2>1. r \in Runs /\ Chat(r)
    BY <1>1, ChatAssumption
  <2>2. Whole(r)'
    <3>1. buffer'[r] = <<>> /\ seqs'[r] = 0 /\ timers'[r] = 0
      BY <1>2, <2>1
    <3>2. published'[r] = published[r] /\ status' = status /\ heard' = heard
      BY <1>2
    <3>3. turn[r].pc = "none" => turn'[r].pc = "none" /\ Len(published[r]) = 0
      BY <1>12, <2>1 DEF Chat, Whole, Ended
    <3>4. turn[r].pc # "none" => turn'[r].pc \in {"ended", "dead"}
      BY <1>12 DEF Ended
    <3> QED BY <2>1, <3>1, <3>2, <3>3, <3>4 DEF Chat, Whole
  <2>3. Told(r)'
    BY <1>2, <1>4, <1>12, <2>1 DEF Chat, Told, Ended
  <2>4. /\ OnlyOf(saving[r] \union rows[r], published[r])
        /\ lost \/ AllOf(saving[r] \union rows[r], published[r])
    BY <2>1 DEF Chat, Saved
  <2>5. saving'[r] \union rows'[r] = Made(r, inserts)
    BY <1>2, <1>3, <2>1
  <2>6. OnlyOf(Made(r, inserts), published[r])
    BY <1>5, <2>1, <2>4 DEF OnlyOf
  <2>7. ASSUME ~ lost' PROVE AllOf(Made(r, inserts), published[r])
    <3>1. inserts = InFlight /\ ~ lost
      BY <1>3, <2>7
    <3>2. ASSUME NEW e \in saving[r] \union rows[r] PROVE e \in Made(r, inserts)
      <4>1. CASE e \in rows[r]
        BY <4>1 DEF Made
      <4>2. CASE e \notin rows[r]
        <5>1. e \in saving[r] /\ <<r, e>> \in inserts
          BY <2>1, <3>1, <3>2, <4>2 DEF InFlight
        <5>2. ASSUME NEW row \in rows[r], row.seq = e.seq PROVE FALSE
          <6>1. PICK i \in 1 .. Len(published[r]) : row = Of(published[r], i)
            BY <2>4 DEF OnlyOf
          <6>2. PICK j \in 1 .. Len(published[r]) : e = Of(published[r], j)
            BY <2>4 DEF OnlyOf
          <6>3. i = j
            BY <5>2, <6>1, <6>2 DEF Of
          <6> QED BY <4>2, <6>1, <6>2, <6>3
        <5> QED BY <5>1, <5>2 DEF Made
      <4> QED BY <4>1, <4>2
    <3> QED BY <2>4, <3>1, <3>2 DEF AllOf
  <2>8. Saved(r)'
    BY <1>2, <1>6, <2>5, <2>6, <2>7 DEF Saved
  <2> QED BY <2>2, <2>3, <2>8 DEF Chat
<1> QED BY <1>8, <1>10, <1>11, <1>13, <1>14 DEF CopilotInv

-----------------------------------------------------------------------------
LEMMA CopilotInvInitially == CopilotInit => CopilotInv
<1> SUFFICES ASSUME CopilotInit PROVE CopilotInv
  OBVIOUS
<1>1. /\ EventsInit /\ TurnInit /\ posting = {}
  BY DEF CopilotInit
<1>2. <<>> \in Seq(Event) /\ <<>> \in Seq(Types) /\ <<>> \in Seq(Nat) /\ <<>> \in Seq(Line)
      /\ <<>> \in Seq({"ask", "board"})
  OBVIOUS
<1>3. Shaped
  BY <1>1, <1>2 DEF EventsInit, Shaped, Statuses, StreamStates
<1>4. TurnsShaped
  <2>1. NoTurn \in Turn /\ NoTurn.pc = "none"
    BY <1>2 DEF NoTurn, Turn, Pcs, Ended
  <2> QED BY <1>1, <1>2, <2>1 DEF TurnInit, TurnsShaped, Calling
<1>5. LogInv
  <2>1. TailOf(<<>>, <<>>) /\ InOrder(<<>>, <<>>)
    BY DEF TailOf, InOrder
  <2>2. Log(<<>>, <<>>, "off", <<>>)
    BY <1>2, <2>1 DEF Log, StreamStates, Opening
  <2> QED BY <1>1, <2>2 DEF LogInv, EventsInit
<1>6. \A r \in Runs : Unposted(r)
  BY <1>1 DEF EventsInit, Unposted
<1>7. ASSUME NEW r \in ChatRuns PROVE Chat(r)
  <2>1. r \in Runs /\ turn[r].pc = "none" /\ status[r] = "none"
    BY <1>1, ChatAssumption DEF TurnInit, NoTurn, EventsInit
  <2>2. Whole(r) /\ Told(r)
    BY <1>1, <2>1 DEF Whole, Told, EventsInit
  <2>3. Saved(r)
    BY <1>1, <2>1 DEF Saved, OnlyOf, AllOf, EventsInit
  <2> QED BY <2>2, <2>3 DEF Chat
<1> QED BY <1>3, <1>4, <1>5, <1>6, <1>7 DEF CopilotInv

LEMMA CopilotInvKept == CopilotInv /\ [CopilotNext]_copilotVars => CopilotInv'
<1> SUFFICES ASSUME CopilotInv, [CopilotNext]_copilotVars PROVE CopilotInv'
  OBVIOUS
<1>1. ASSUME NEW r \in ChatRuns, TurnStep(r) \/ Throws(r), UNCHANGED pageVars PROVE CopilotInv'
  <2>1. TurnsShaped /\ posting' = posting
    BY <1>1 DEF CopilotInv, pageVars
  <2>2. Moves(r) /\ TurnsShaped'
    BY <1>1, <2>1, TurnStepMoves
  <2> QED BY <2>1, <2>2, MovesKeep
<1>2. ASSUME NEW r \in PlanRuns, PlanStep(r), UNCHANGED pageVars PROVE CopilotInv'
  BY <1>2, PlansKeep
<1>3. ASSUME NEW r \in PlanRuns, Approve(r) PROVE CopilotInv'
  BY <1>3, PageKeeps DEF Approve, turnVars, pageVars
<1>4. ASSUME NEW r \in Runs, BusStep(r), UNCHANGED <<turnVars, pageVars>> PROVE CopilotInv'
  <2>1. UNCHANGED <<turn, thread, posting>>
    BY <1>4 DEF turnVars, pageVars
  <2> QED BY <1>4, <2>1, InsertsKeep, StreamsKeep DEF BusStep
<1>5. ASSUME NEW r \in Runs, RunAgent(r) PROVE CopilotInv'
  BY <1>5, PageKeeps DEF RunAgent, turnVars
<1>6. ASSUME NEW r \in Runs, Reaches(r) PROVE CopilotInv'
  BY <1>6, ReachesKeeps
<1>7. ASSUME NEW r \in Runs, PostReturns(r) PROVE CopilotInv'
  BY <1>7, FollowKeeps DEF PostReturns
<1>8. ASSUME NEW r \in Runs, PostFails(r) PROVE CopilotInv'
  BY <1>8, PageKeeps DEF PostFails, turnVars
<1>9. ASSUME NEW r \in Runs, LosesInsert(r) PROVE CopilotInv'
  BY <1>9, InsertsKeep DEF LosesInsert, pageVars
<1>10. ASSUME Leave PROVE CopilotInv'
  BY <1>10, FollowKeeps, NoRunAssumption DEF Leave
<1>11. ASSUME AgentDies PROVE CopilotInv'
  BY <1>11, AgentDiesKeeps
<1>12. ASSUME UNCHANGED copilotVars PROVE CopilotInv'
  BY <1>12, PageKeeps DEF copilotVars, turnVars, pageVars
<1> QED BY <1>1, <1>2, <1>3, <1>4, <1>5, <1>6, <1>7, <1>8, <1>9, <1>10, <1>11, <1>12
        DEF CopilotNext

\* The invariant of chat turns, their streams and their rows, for every behaviour of the
\* page, the agent and the database (bus.ts, server.ts, engine.ts).
THEOREM CopilotInvariant == CopilotSpec => []CopilotInv
<1> QED BY CopilotInvInitially, CopilotInvKept, PTL DEF CopilotSpec

\* The invariant says that every stream is in order.
LEMMA OrderIs == CopilotInv => StreamsInOrder
<1> SUFFICES ASSUME CopilotInv PROVE StreamsInOrder
  OBVIOUS
<1>1. ASSUME NEW r \in Runs, NEW i \in 1 .. Len(heard[r]) - 1
      PROVE  heard[r][i + 1] = heard[r][i] + 1 /\ published[r][heard[r][i]] \notin Terminal
  BY DEF CopilotInv, LogInv, Log, InOrder
<1>2. ASSUME NEW r \in ChatRuns, heard[r] # <<>> PROVE heard[r][1] = 1
  <2>1. heard[r] \in Seq(Nat)
    BY ChatAssumption DEF CopilotInv, Shaped
  <2>2. Len(heard[r]) # 0
    BY <1>2, <2>1
  <2> QED BY <2>2 DEF CopilotInv, Chat, Whole
<1> QED BY <1>1, <1>2 DEF StreamsInOrder

(* A page that connects at any moment is sent every event of a chat turn from the *)
(* first, once and in order, and nothing behind its end; of a playbook run no gap *)
(* (bus.ts:72, server.ts:743-768): for any number of runs, requests of the page,  *)
(* approvals, failed statements and deaths of the agent.                          *)
THEOREM StreamsOrdered == CopilotSpec => []StreamsInOrder
<1> QED BY CopilotInvariant, OrderIs, PTL

\* The invariant says that what is told as done is saved.
LEMMA DurableIs == CopilotInv => DoneIsDurable
<1> SUFFICES ASSUME CopilotInv, NEW r \in ChatRuns, turn[r].pc = "ended"
             PROVE  /\ "run.done" \in ToSet(published[r]) =>
                          /\ status[r] = turn[r].outcome
                          /\ [role |-> "assistant", run |-> r] \in ToSet(thread)
                    /\ saving[r] = {} /\ ~ lost =>
                          \A i \in DOMAIN published[r] :
                              [type |-> published[r][i], seq |-> i, n |-> i] \in rows[r]
  BY DEF DoneIsDurable
<1>1. r \in Runs /\ Chat(r) /\ published[r] \in Seq(Types)
  BY ChatAssumption DEF CopilotInv, Shaped
<1>2. "run.done" \in ToSet(published[r]) =>
         status[r] = turn[r].outcome /\ [role |-> "assistant", run |-> r] \in ToSet(thread)
  BY <1>1 DEF Chat, Told, AnswerOf
<1>3. DOMAIN published[r] = 1 .. Len(published[r])
  BY <1>1
<1>4. saving[r] = {} /\ ~ lost =>
         \A i \in DOMAIN published[r] :
             [type |-> published[r][i], seq |-> i, n |-> i] \in rows[r]
  BY <1>1, <1>3 DEF Chat, Saved, AllOf, Of
<1> QED BY <1>2, <1>4

(* Whoever is told that a turn is done can read its answer in the thread and its *)
(* end in the run's row, and once the inserts are through the events table holds *)
(* the whole turn (engine.ts:336-345, bus.ts:42): of any number of turns.        *)
THEOREM DoneDurable == CopilotSpec => []DoneIsDurable
<1> QED BY CopilotInvariant, DurableIs, PTL
=============================================================================
