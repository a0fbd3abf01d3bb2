------------------------ MODULE SkynetDispatch_proofs ------------------------
(***************************************************************************)
(* Proofs about SkynetDispatch, for every number of workers, pushers,      *)
(* services and messages.                                                  *)
(***************************************************************************)
EXTENDS SkynetDispatch, TLAPS

(***************************************************************************)
(* What the two operations on Q do to the set of linked queues.            *)
(***************************************************************************)
LEMMA AppendLinks ==
  ASSUME NEW S, NEW g \in Seq(S), NEW x \in S
  PROVE  /\ Append(g, x) \in Seq(S)
         /\ Len(Append(g, x)) = Len(g) + 1
         /\ \A i \in 1..Len(g) : Append(g, x)[i] = g[i]
         /\ Append(g, x)[Len(g) + 1] = x
  OBVIOUS

LEMMA TailUnlinks ==
  ASSUME NEW S, NEW g \in Seq(S), g # << >>
  PROVE  /\ Tail(g) \in Seq(S)
         /\ Head(g) = g[1]
         /\ Head(g) \in S
         /\ Len(g) \in Nat \ {0}
         /\ Len(Tail(g)) = Len(g) - 1
         /\ \A i \in 1..(Len(g) - 1) : Tail(g)[i] = g[i + 1]
  OBVIOUS

\* NULL is no queue and no message.
LEMMA NoneFresh == None \notin Service /\ None \notin Message
  BY DispatchAssumption

\* No step of the dispatcher leaves the types or the control structure.
LEMMA TypeStep == TypeOK /\ [Next]_vars => TypeOK'
<1> SUFFICES ASSUME TypeOK, [Next]_vars PROVE TypeOK'
  OBVIOUS
<1> USE NoneFresh DEF TypeOK, Labels, Goto
<1>1. ASSUME NEW p \in Pusher, NEW s \in Service, NEW m \in Message,
             Push(p, s, m)
      PROVE  TypeOK'
  <2>1. mail' \in [Service -> Seq(Message)]
    BY <1>1, AppendLinks DEF Push
  <2>2. QED
    BY <1>1, <2>1 DEF Push
<1>2. ASSUME NEW p \in Pusher, Publish(p)
      PROVE  TypeOK'
  <2>1. glob' \in Seq(Service)
    BY <1>2, AppendLinks DEF Publish, GlobalmqPush
  <2>2. QED
    BY <1>2, <2>1 DEF Publish
<1>3. ASSUME NEW w \in Worker, FetchQueue(w)
      PROVE  TypeOK'
  <2>1. Head(glob) \in Service /\ glob' \in Seq(Service)
    BY <1>3, TailUnlinks DEF FetchQueue, GlobalmqPop
  <2>2. QED
    BY <1>3, <2>1 DEF FetchQueue
<1>4. ASSUME NEW w \in Worker, PopMessage(w)
      PROVE  TypeOK'
  <2>1. q[w] \in Service
    BY <1>4 DEF PopMessage
  <2>2. Head(mail[q[w]]) \in Message /\ Tail(mail[q[w]]) \in Seq(Message)
    BY <1>4, <2>1, TailUnlinks DEF PopMessage
  <2>3. QED
    BY <1>4, <2>1, <2>2 DEF PopMessage
<1>5. ASSUME NEW w \in Worker, PopEmpty(w)
      PROVE  TypeOK'
  BY <1>5 DEF PopEmpty
<1>6. ASSUME NEW w \in Worker, Callback(w)
      PROVE  TypeOK'
  BY <1>6 DEF Callback
<1>7. ASSUME NEW w \in Worker, SwapNone(w)
      PROVE  TypeOK'
  BY <1>7 DEF SwapNone
<1>8. ASSUME NEW w \in Worker, SwapNext(w)
      PROVE  TypeOK'
  <2>1. Head(glob) \in Service /\ glob' \in Seq(Service)
    BY <1>8, TailUnlinks DEF SwapNext, GlobalmqPop
  <2>2. QED
    BY <1>8, <2>1 DEF SwapNext
<1>9. ASSUME NEW w \in Worker, PutBack(w)
      PROVE  TypeOK'
  <2>1. q[w] \in Service
    BY <1>9 DEF PutBack
  <2>2. glob' \in Seq(Service)
    BY <1>9, <2>1, AppendLinks DEF PutBack, GlobalmqPush
  <2>3. QED
    BY <1>9, <2>1, <2>2 DEF PutBack
<1>10. CASE UNCHANGED vars
  BY <1>10 DEF vars
<1>11. QED
  BY <1>1, <1>2, <1>3, <1>4, <1>5, <1>6, <1>7, <1>8, <1>9, <1>10
  DEF Next, Dispatch

\* The type invariant holds in every state of every instance.
THEOREM TypeCorrect == Safety => []TypeOK
<1>1. Init => TypeOK
  BY DispatchAssumption DEF Init, TypeOK, Labels
<1>2. QED
  BY <1>1, TypeStep, PTL DEF Safety

-----------------------------------------------------------------------------
(***************************************************************************)
(* Ownership.  Every queue has at most one reference: a link in Q, a local *)
(* of a worker, or a pusher about to link it; and it has one exactly while *)
(* its in_global flag is set.  Each of the properties below is preserved   *)
(* only together with the others.                                          *)
(***************************************************************************)
IInv ==
  /\ TypeOK
  /\ Exclusive
  /\ LinkedOnce
  /\ FlagTruth
  /\ NoLostWakeup

\* Linking a queue that is not linked adds it to the linked ones, and no queue
\* is linked twice.
LEMMA AppendFresh ==
  ASSUME NEW S, NEW g \in Seq(S), NEW x \in S,
         \A i, j \in 1..Len(g) : g[i] = g[j] => i = j,
         \A i \in 1..Len(g) : g[i] # x
  PROVE  LET h == Append(g, x)
         IN  /\ \A i, j \in 1..Len(h) : h[i] = h[j] => i = j
             /\ \A y : (\E i \in 1..Len(h) : h[i] = y)
                         <=> (\E i \in 1..Len(g) : g[i] = y) \/ y = x
<1> DEFINE h == Append(g, x)
<1> Len(g) \in Nat
  OBVIOUS
<1>1. /\ Len(h) = Len(g) + 1
      /\ \A i \in 1..Len(g) : h[i] = g[i]
      /\ h[Len(g) + 1] = x
  BY AppendLinks
<1> HIDE DEF h
<1>2. \A i \in 1..Len(h) : i \in 1..Len(g) \/ i = Len(g) + 1
  BY <1>1
<1>3. \A i, j \in 1..Len(h) : h[i] = h[j] => i = j
  BY <1>1, <1>2
<1>4. ASSUME NEW y
      PROVE  (\E i \in 1..Len(h) : h[i] = y)
               <=> (\E i \in 1..Len(g) : g[i] = y) \/ y = x
  BY <1>1, <1>2
<1>5. QED
  BY <1>3, <1>4 DEF h

\* Taking the head of Q unlinks that queue and no other.
LEMMA TailFresh ==
  ASSUME NEW S, NEW g \in Seq(S), g # << >>,
         \A i, j \in 1..Len(g) : g[i] = g[j] => i = j
  PROVE  LET h == Tail(g)
         IN  /\ \A i, j \in 1..Len(h) : h[i] = h[j] => i = j
             /\ \A y : (\E i \in 1..Len(h) : h[i] = y)
                         <=> (\E i \in 1..Len(g) : g[i] = y) /\ y # Head(g)
             /\ \E i \in 1..Len(g) : g[i] = Head(g)
<1> DEFINE h == Tail(g)
<1>1. /\ Head(g) = g[1]
      /\ Len(g) \in Nat \ {0}
      /\ Len(h) = Len(g) - 1
      /\ \A i \in 1..(Len(g) - 1) : h[i] = g[i + 1]
  BY TailUnlinks
<1> HIDE DEF h
<1>2. \A i, j \in 1..Len(h) : h[i] = h[j] => i = j
  BY <1>1
<1>3. ASSUME NEW y, NEW i \in 1..Len(h), h[i] = y
      PROVE  (\E k \in 1..Len(g) : g[k] = y) /\ y # Head(g)
  <2>1. i + 1 \in 1..Len(g) /\ g[i + 1] = y /\ i + 1 # 1 /\ 1 \in 1..Len(g)
    BY <1>1, <1>3
  <2>2. QED
    BY <1>1, <2>1
<1>4. ASSUME NEW y, NEW i \in 1..Len(g), g[i] = y, y # Head(g)
      PROVE  \E k \in 1..Len(h) : h[k] = y
  <2>1. i - 1 \in 1..Len(h) /\ h[i - 1] = y
    BY <1>1, <1>4
  <2>2. QED
    BY <2>1
<1>5. 1 \in 1..Len(g)
  BY <1>1
<1>6. QED
  BY <1>1, <1>2, <1>3, <1>4, <1>5 DEF h

\* Q with one queue more, as skynet_globalmq_push leaves it.
LEMMA LinkTail ==
  ASSUME TypeOK, LinkedOnce, NEW s \in Service, ~Linked(s), GlobalmqPush(s)
  PROVE  /\ (\A i, j \in 1..Len(glob) : glob[i] = glob[j] => i = j)'
         /\ \A r \in Service : Linked(r)' <=> Linked(r) \/ r = s
<1>1. /\ glob \in Seq(Service)
      /\ \A i, j \in 1..Len(glob) : glob[i] = glob[j] => i = j
      /\ \A i \in 1..Len(glob) : glob[i] # s
  BY DEF TypeOK, LinkedOnce, Linked
<1>2. glob' = Append(glob, s)
  BY DEF GlobalmqPush
<1>3. QED
  BY <1>1, <1>2, AppendFresh DEF Linked

\* Q with one queue less, as skynet_globalmq_pop leaves it; the queue it
\* returns is nobody else's.
LEMMA UnlinkHead ==
  ASSUME TypeOK, LinkedOnce, glob # << >>, GlobalmqPop
  PROVE  /\ Head(glob) \in Service
         /\ (\A i, j \in 1..Len(glob) : glob[i] = glob[j] => i = j)'
         /\ \A r \in Service : Linked(r)' <=> Linked(r) /\ r # Head(glob)
         /\ Linked(Head(glob))
         /\ ~Held(Head(glob)) /\ ~BeingLinked(Head(glob))
<1>1. /\ glob \in Seq(Service)
      /\ \A i, j \in 1..Len(glob) : glob[i] = glob[j] => i = j
      /\ glob' = Tail(glob)
  BY DEF TypeOK, LinkedOnce, GlobalmqPop
<1>2. /\ \A i, j \in 1..Len(Tail(glob)) : Tail(glob)[i] = Tail(glob)[j] => i = j
      /\ \A y : (\E i \in 1..Len(Tail(glob)) : Tail(glob)[i] = y)
                  <=> (\E i \in 1..Len(glob) : glob[i] = y) /\ y # Head(glob)
      /\ \E i \in 1..Len(glob) : glob[i] = Head(glob)
  BY <1>1, TailFresh
<1>3. Head(glob) \in Service
  BY <1>1, TailUnlinks
<1>4. /\ (\A i, j \in 1..Len(glob) : glob[i] = glob[j] => i = j)'
      /\ \A r \in Service : Linked(r)' <=> Linked(r) /\ r # Head(glob)
      /\ Linked(Head(glob))
  BY <1>1, <1>2 DEF Linked
<1>5. QED
  BY <1>3, <1>4 DEF LinkedOnce

LEMMA OwnershipInit == Init => IInv
<1> SUFFICES ASSUME Init PROVE IInv
  OBVIOUS
<1>1. TypeOK
  BY DispatchAssumption DEF Init, TypeOK, Labels
<1>2. Exclusive /\ \A w \in Worker : HeldBy(w) = {}
  BY DEF Init, Exclusive, HeldBy
<1>3. LinkedOnce
  BY <1>2, DispatchAssumption DEF Init, LinkedOnce, Held, BeingLinked, Linked
<1>4. FlagTruth
  BY DispatchAssumption DEF Init, FlagTruth, Linked
<1>5. NoLostWakeup
  BY DEF Init, NoLostWakeup
<1>6. QED
  BY <1>1, <1>2, <1>3, <1>4, <1>5 DEF IInv

LEMMA OwnershipStep == IInv /\ [Next]_vars => IInv'
<1> SUFFICES ASSUME IInv, [Next]_vars PROVE IInv'
  OBVIOUS
<1>0. TypeOK'
  BY TypeStep DEF IInv
<1> USE NoneFresh DEF IInv
<1>1. ASSUME NEW p \in Pusher, NEW s \in Service, NEW m \in Message,
             Push(p, s, m)
      PROVE  IInv'
  <2>1. \A w \in Worker : HeldBy(w)' = HeldBy(w)
    BY <1>1 DEF Push, HeldBy
  <2>2. \A r \in Service : (Linked(r)' <=> Linked(r)) /\ (Held(r)' <=> Held(r))
    BY <1>1, <2>1 DEF Push, Linked, Held
  <2>3. \A r \in Service :
          BeingLinked(r)' <=> BeingLinked(r) \/ (r = s /\ ~inGlobal[s])
    BY <1>1 DEF Push, BeingLinked, TypeOK, Unlocked
  <2>4. Exclusive'
    BY <2>1 DEF Exclusive
  <2>5. LinkedOnce'
    <3>1. (\A i, j \in 1..Len(glob) : glob[i] = glob[j] => i = j)'
      BY <1>1 DEF Push, LinkedOnce
    <3>2. \A r \in Service : /\ Linked(r)' => ~Held(r)' /\ ~BeingLinked(r)'
                             /\ BeingLinked(r)' => ~Held(r)'
      BY <2>2, <2>3 DEF LinkedOnce, FlagTruth
    <3>3. (\A a, b \in Pusher :
             publishing[a] = publishing[b] => a = b \/ publishing[a] = None)'
      BY <1>1 DEF Push, LinkedOnce, Unlocked, TypeOK
    <3>4. (\A w \in Worker : q[w] = nq[w] => q[w] = None)'
      BY <1>1 DEF Push, LinkedOnce
    <3>5. QED
      BY <3>1, <3>2, <3>3, <3>4 DEF LinkedOnce
  <2>6. FlagTruth'
    BY <1>1, <2>2, <2>3 DEF Push, FlagTruth, TypeOK
  <2>7. NoLostWakeup'
    BY <1>1, <2>2, <2>3 DEF Push, NoLostWakeup, FlagTruth, TypeOK
  <2>8. QED
    BY <1>0, <2>4, <2>5, <2>6, <2>7
<1>2. ASSUME NEW p \in Pusher, Publish(p)
      PROVE  IInv'
  <2> DEFINE s == publishing[p]
  <2>0. s \in Service /\ BeingLinked(s) /\ ~Linked(s) /\ ~Held(s)
    BY <1>2 DEF Publish, TypeOK, BeingLinked, LinkedOnce
  <2>1. \A w \in Worker : HeldBy(w)' = HeldBy(w)
    BY <1>2 DEF Publish, HeldBy
  <2>2. /\ (\A i, j \in 1..Len(glob) : glob[i] = glob[j] => i = j)'
        /\ \A r \in Service : Linked(r)' <=> Linked(r) \/ r = s
    BY <1>2, <2>0, LinkTail DEF Publish
  <2>3. \A r \in Service : /\ Held(r)' <=> Held(r)
                           /\ BeingLinked(r)' <=> BeingLinked(r) /\ r # s
    BY <1>2, <2>0, <2>1 DEF Publish, Held, BeingLinked, TypeOK, LinkedOnce
  <2>4. Exclusive'
    BY <2>1 DEF Exclusive
  <2>5. LinkedOnce'
    <3>1. (\A a, b \in Pusher :
             publishing[a] = publishing[b] => a = b \/ publishing[a] = None)'
      BY <1>2 DEF Publish, LinkedOnce, TypeOK
    <3>2. (\A w \in Worker : q[w] = nq[w] => q[w] = None)'
      BY <1>2 DEF Publish, LinkedOnce
    <3>3. \A r \in Service : /\ Linked(r)' => ~Held(r)' /\ ~BeingLinked(r)'
                             /\ BeingLinked(r)' => ~Held(r)'
      BY <2>0, <2>2, <2>3 DEF LinkedOnce
    <3>4. QED
      BY <2>2, <3>1, <3>2, <3>3 DEF LinkedOnce
  <2>6. FlagTruth'
    BY <1>2, <2>0, <2>2, <2>3 DEF Publish, FlagTruth
  <2>7. NoLostWakeup'
    BY <1>2, <2>0, <2>2, <2>3 DEF Publish, NoLostWakeup
  <2>8. QED
    BY <1>0, <2>4, <2>5, <2>6, <2>7
<1>3. ASSUME NEW w \in Worker, FetchQueue(w)
      PROVE  IInv'
  <2> DEFINE s == Head(glob)
  <2>1. GlobalmqPop /\ glob # << >> /\ s \in Service
    BY <1>3, UnlinkHead DEF FetchQueue
  <2>2. /\ (\A i, j \in 1..Len(glob) : glob[i] = glob[j] => i = j)'
        /\ \A r \in Service : Linked(r)' <=> Linked(r) /\ r # s
        /\ Linked(s)
    BY <2>1, UnlinkHead
  <2>3. ~Held(s) /\ ~BeingLinked(s)
    BY <2>1, UnlinkHead
  <2>4. /\ HeldBy(w) = {} /\ HeldBy(w)' = {s}
        /\ \A v \in Worker : v # w => HeldBy(v)' = HeldBy(v)
    BY <1>3, <2>1 DEF FetchQueue, HeldBy, TypeOK
  <2>5. \A r \in Service : /\ Held(r)' <=> Held(r) \/ r = s
                           /\ BeingLinked(r)' <=> BeingLinked(r)
    BY <1>3, <2>4 DEF FetchQueue, Held, BeingLinked
  <2>6. Exclusive'
    BY <2>1, <2>3, <2>4 DEF Exclusive, Held
  <2>7. LinkedOnce'
    <3>1. (\A a, b \in Pusher :
             publishing[a] = publishing[b] => a = b \/ publishing[a] = None)'
      BY <1>3 DEF FetchQueue, LinkedOnce
    <3>2. (\A v \in Worker : q[v] = nq[v] => q[v] = None)'
      BY <1>3, <2>1 DEF FetchQueue, LinkedOnce, TypeOK
    <3>3. \A r \in Service : /\ Linked(r)' => ~Held(r)' /\ ~BeingLinked(r)'
                             /\ BeingLinked(r)' => ~Held(r)'
      BY <2>2, <2>3, <2>5 DEF LinkedOnce
    <3>4. QED
      BY <2>2, <3>1, <3>2, <3>3 DEF LinkedOnce
  <2>8. FlagTruth'
    BY <1>3, <2>2, <2>5 DEF FetchQueue, FlagTruth
  <2>9. NoLostWakeup'
    BY <1>3, <2>2, <2>5 DEF FetchQueue, NoLostWakeup
  <2>10. QED
    BY <1>0, <2>6, <2>7, <2>8, <2>9
<1>4. ASSUME NEW w \in Worker, PopMessage(w)
      PROVE  IInv'
  <2>1. /\ \A v \in Worker : HeldBy(v)' = HeldBy(v)
        /\ UNCHANGED <<glob, inGlobal, publishing, q, nq>>
    BY <1>4 DEF PopMessage, HeldBy
  <2>2. \A r \in Service : mail'[r] # << >> => mail[r] # << >>
    BY <1>4 DEF PopMessage, TypeOK
  <2>3. QED
    BY <1>0, <2>1, <2>2 DEF Exclusive, LinkedOnce, FlagTruth, NoLostWakeup,
       Linked, Held, BeingLinked
<1>5. ASSUME NEW w \in Worker, PopEmpty(w)
      PROVE  IInv'
  <2> DEFINE s == q[w]
  <2>1. s \in Service /\ mail[s] = << >> /\ HeldBy(w) = {s} /\ Held(s)
    BY <1>5 DEF PopEmpty, TypeOK, HeldBy, Held
  <2>2. /\ HeldBy(w)' = {}
        /\ \A v \in Worker : v # w => HeldBy(v)' = HeldBy(v)
    BY <1>5 DEF PopEmpty, HeldBy, TypeOK
  <2>3. \A r \in Service : /\ Held(r)' <=> Held(r) /\ r # s
                           /\ BeingLinked(r)' <=> BeingLinked(r)
                           /\ Linked(r)' <=> Linked(r)
    BY <1>5, <2>1, <2>2 DEF PopEmpty, Held, BeingLinked, Linked, Exclusive
  <2>4. Exclusive'
    BY <2>2 DEF Exclusive
  <2>5. LinkedOnce'
    <3>1. (\A v \in Worker : q[v] = nq[v] => q[v] = None)'
      BY <1>5 DEF PopEmpty, LinkedOnce, TypeOK
    <3>2. QED
      BY <1>5, <2>3, <3>1 DEF PopEmpty, LinkedOnce
  <2>6. FlagTruth'
    <3>1. \A r \in Service : inGlobal'[r] <=> inGlobal[r] /\ r # s
      BY <1>5, <2>1 DEF PopEmpty, TypeOK
    <3>2. ~Linked(s) /\ ~BeingLinked(s)
      BY <2>1 DEF LinkedOnce
    <3>3. QED
      BY <2>3, <3>1, <3>2 DEF FlagTruth
  <2>7. NoLostWakeup'
    BY <1>5, <2>1, <2>3 DEF PopEmpty, NoLostWakeup
  <2>8. QED
    BY <1>0, <2>4, <2>5, <2>6, <2>7
<1>6. ASSUME NEW w \in Worker, Callback(w) \/ SwapNone(w)
      PROVE  IInv'
  <2>1. UNCHANGED <<glob, mail, inGlobal, publishing, q, nq>>
    BY <1>6 DEF Callback, SwapNone
  <2>2. QED
    BY <1>0, <2>1 DEF Exclusive, LinkedOnce, FlagTruth, NoLostWakeup,
       Linked, Held, BeingLinked, HeldBy
<1>7. ASSUME NEW w \in Worker, SwapNext(w)
      PROVE  IInv'
  <2> DEFINE s == Head(glob)
  <2>1. GlobalmqPop /\ glob # << >> /\ s \in Service
    BY <1>7, UnlinkHead DEF SwapNext
  <2>2. /\ (\A i, j \in 1..Len(glob) : glob[i] = glob[j] => i = j)'
        /\ \A r \in Service : Linked(r)' <=> Linked(r) /\ r # s
        /\ Linked(s)
    BY <2>1, UnlinkHead
  <2>3. ~Held(s) /\ ~BeingLinked(s)
    BY <2>1, UnlinkHead
  <2>4. /\ HeldBy(w)' = HeldBy(w) \cup {s}
        /\ \A v \in Worker : v # w => HeldBy(v)' = HeldBy(v)
    BY <1>7, <2>1 DEF SwapNext, HeldBy, TypeOK
  <2>5. \A r \in Service : /\ Held(r)' <=> Held(r) \/ r = s
                           /\ BeingLinked(r)' <=> BeingLinked(r)
    BY <1>7, <2>4 DEF SwapNext, Held, BeingLinked
  <2>6. Exclusive'
    BY <2>1, <2>3, <2>4 DEF Exclusive, Held
  <2>7. LinkedOnce'
    <3>1. (\A a, b \in Pusher :
             publishing[a] = publishing[b] => a = b \/ publishing[a] = None)'
      BY <1>7 DEF SwapNext, LinkedOnce
    <3>2. (\A v \in Worker : q[v] = nq[v] => q[v] = None)'
      BY <1>7, <2>1, <2>3 DEF SwapNext, LinkedOnce, TypeOK, Held, HeldBy
    <3>3. \A r \in Service : /\ Linked(r)' => ~Held(r)' /\ ~BeingLinked(r)'
                             /\ BeingLinked(r)' => ~Held(r)'
      BY <2>2, <2>3, <2>5 DEF LinkedOnce
    <3>4. QED
      BY <2>2, <3>1, <3>2, <3>3 DEF LinkedOnce
  <2>8. FlagTruth'
    BY <1>7, <2>2, <2>5 DEF SwapNext, FlagTruth
  <2>9. NoLostWakeup'
    BY <1>7, <2>2, <2>5 DEF SwapNext, NoLostWakeup
  <2>10. QED
    BY <1>0, <2>6, <2>7, <2>8, <2>9
<1>8. ASSUME NEW w \in Worker, PutBack(w)
      PROVE  IInv'
  <2> DEFINE s == q[w]
             n == nq[w]
  <2>1. /\ s \in Service /\ n \in Service /\ s # n
        /\ HeldBy(w) = {s, n} /\ Held(s) /\ Held(n)
    BY <1>8 DEF PutBack, TypeOK, HeldBy, Held, LinkedOnce
  <2>2. ~Linked(s) /\ ~BeingLinked(s)
    BY <2>1 DEF LinkedOnce
  <2>3. /\ (\A i, j \in 1..Len(glob) : glob[i] = glob[j] => i = j)'
        /\ \A r \in Service : Linked(r)' <=> Linked(r) \/ r = s
    BY <1>8, <2>1, <2>2, LinkTail DEF PutBack
  <2>4. /\ HeldBy(w)' = {n}
        /\ \A v \in Worker : v # w => HeldBy(v)' = HeldBy(v)
    BY <1>8, <2>1 DEF PutBack, HeldBy, TypeOK
  <2>5. \A r \in Service : /\ Held(r)' <=> Held(r) /\ r # s
                           /\ BeingLinked(r)' <=> BeingLinked(r)
    BY <1>8, <2>1, <2>4 DEF PutBack, Held, BeingLinked, Exclusive
  <2>6. Exclusive'
    BY <2>1, <2>4 DEF Exclusive
  <2>7. LinkedOnce'
    <3>1. (\A a, b \in Pusher :
             publishing[a] = publishing[b] => a = b \/ publishing[a] = None)'
      BY <1>8 DEF PutBack, LinkedOnce
    <3>2. (\A v \in Worker : q[v] = nq[v] => q[v] = None)'
      BY <1>8, <2>1 DEF PutBack, LinkedOnce, TypeOK
    <3>3. \A r \in Service : /\ Linked(r)' => ~Held(r)' /\ ~BeingLinked(r)'
                             /\ BeingLinked(r)' => ~Held(r)'
      BY <2>1, <2>2, <2>3, <2>5 DEF LinkedOnce
    <3>4. QED
      BY <2>3, <3>1, <3>2, <3>3 DEF LinkedOnce
  <2>8. FlagTruth'
    BY <1>8, <2>1, <2>3, <2>5 DEF PutBack, FlagTruth
  <2>9. NoLostWakeup'
    BY <1>8, <2>3, <2>5 DEF PutBack, NoLostWakeup
  <2>10. QED
    BY <1>0, <2>6, <2>7, <2>8, <2>9
<1>9. CASE UNCHANGED vars
  BY <1>0, <1>9 DEF vars, Exclusive, LinkedOnce, FlagTruth, NoLostWakeup,
     Linked, Held, BeingLinked, HeldBy
<1>10. QED
  BY <1>1, <1>2, <1>3, <1>4, <1>5, <1>6, <1>7, <1>8, <1>9 DEF Next, Dispatch

(***************************************************************************)
(* The ownership invariant, and the properties of the runs it gives.       *)
(***************************************************************************)
THEOREM Ownership == Safety => []IInv
  BY OwnershipInit, OwnershipStep, PTL DEF Safety

\* No service is ever run by two workers at once.
THEOREM ExclusiveDispatch == Safety => []Exclusive
<1>1. IInv => Exclusive
  BY DEF IInv
<1>2. QED
  BY <1>1, Ownership, PTL

\* The list behind Q is never linked through one queue twice.
THEOREM NeverLinkedTwice == Safety => []LinkedOnce
<1>1. IInv => LinkedOnce
  BY DEF IInv
<1>2. QED
  BY <1>1, Ownership, PTL

\* in_global says what the comment at its definition says.
THEOREM FlagIsTrue == Safety => []FlagTruth
<1>1. IInv => FlagTruth
  BY DEF IInv
<1>2. QED
  BY <1>1, Ownership, PTL

\* Mail never waits in a queue that no worker can reach.
THEOREM NoWakeupIsLost == Safety => []NoLostWakeup
<1>1. IInv => NoLostWakeup
  BY DEF IInv
<1>2. QED
  BY <1>1, Ownership, PTL

(***************************************************************************)
(* The dispatcher implements the mailboxes (their safety part): a push is  *)
(* Send, a successful pop is Begin, the return of a callback is End, and   *)
(* whatever is done to Q and to the flags is invisible.                    *)
(***************************************************************************)
Running == {<<q[w], msg[w]>> : w \in {v \in Worker : pc[v] = "callback"}}

LEMMA MailboxStep == IInv /\ [Next]_vars => [Box!Next]_(Box!vars)
<1> SUFFICES ASSUME IInv, [Next]_vars PROVE [Box!Next]_(Box!vars)
  OBVIOUS
<1> USE NoneFresh DEF IInv
<1>1. ASSUME NEW p \in Pusher, NEW s \in Service, NEW m \in Message,
             Push(p, s, m)
      PROVE  Box!Next
  <2>1. Box!Send(s, m)
    BY <1>1 DEF Push, Box!Send
  <2>2. QED
    BY <2>1 DEF Box!Next
<1>2. ASSUME NEW w \in Worker, PopMessage(w)
      PROVE  Box!Next
  <2>1. q[w] \in Service /\ q[w] \in HeldBy(w) /\ msg'[w] = Head(mail[q[w]])
    BY <1>2 DEF PopMessage, TypeOK, HeldBy
  <2>2. PICK s \in Service : s = q[w]
    BY <2>1
  <2>3. \A v \in Worker : pc[v] = "callback" => q[v] # s
    BY <1>2, <2>1, <2>2 DEF PopMessage, Exclusive, HeldBy, TypeOK
  <2>4. Running' = Running \cup {<<s, Head(mail[s])>>}
    <3>1. {v \in Worker : pc'[v] = "callback"}
            = {v \in Worker : pc[v] = "callback"} \cup {w}
      BY <1>2 DEF PopMessage, Goto, TypeOK
    <3>2. /\ q' = q
          /\ \A v \in Worker : v # w => msg'[v] = msg[v]
          /\ pc[w] # "callback"
      BY <1>2 DEF PopMessage, TypeOK
    <3>3. QED
      BY <2>1, <2>2, <3>1, <3>2 DEF Running
  <2>5. \A m \in Message : <<s, m>> \notin Running
    BY <2>3 DEF Running
  <2>6. Box!Begin(s)
    BY <1>2, <2>2, <2>4, <2>5 DEF PopMessage, Box!Begin, Box!Idle, Running
  <2>7. QED
    BY <2>6 DEF Box!Next
<1>3. ASSUME NEW w \in Worker, Callback(w)
      PROVE  Box!Next
  <2>1. q[w] \in Service /\ q[w] \in HeldBy(w) /\ msg[w] \in Message
    BY <1>3 DEF Callback, TypeOK, HeldBy
  <2>2. PICK s \in Service, m \in Message : s = q[w] /\ m = msg[w]
    BY <2>1
  <2>3. \A v \in Worker : v # w => q[v] # s
    BY <2>1, <2>2 DEF Exclusive, HeldBy
  <2>4. {v \in Worker : pc'[v] = "callback"}
          = {v \in Worker : pc[v] = "callback"} \ {w}
    BY <1>3 DEF Callback, Goto, TypeOK
  <2>5. q' = q /\ \A v \in Worker : v # w => msg'[v] = msg[v]
    BY <1>3 DEF Callback, TypeOK
  <2>6. Running' = Running \ {<<s, m>>}
    BY <2>2, <2>3, <2>4, <2>5 DEF Running
  <2>7. <<s, m>> \in Running
    BY <1>3, <2>2 DEF Callback, Running
  <2>8. Box!End(s, m)
    BY <1>3, <2>6, <2>7 DEF Callback, Box!End, Running
  <2>9. QED
    BY <2>8 DEF Box!Next
<1>4. ASSUME NEW w \in Worker,
             FetchQueue(w) \/ PopEmpty(w) \/ SwapNone(w) \/ SwapNext(w) \/ PutBack(w)
      PROVE  UNCHANGED Box!vars
  <2>1. UNCHANGED <<mail, msg>>
    BY <1>4 DEF FetchQueue, PopEmpty, SwapNone, SwapNext, PutBack
  <2>2. /\ pc[w] # "callback" /\ pc'[w] # "callback"
        /\ \A v \in Worker : v # w => pc'[v] = pc[v] /\ q'[v] = q[v]
    BY <1>4 DEF FetchQueue, PopEmpty, SwapNone, SwapNext, PutBack, Goto, TypeOK
  <2>3. {v \in Worker : pc'[v] = "callback"} = {v \in Worker : pc[v] = "callback"}
    BY <2>2
  <2>4. Running' = Running
    BY <2>1, <2>2, <2>3 DEF Running
  <2>5. QED
    BY <2>1, <2>4 DEF Box!vars, Running
<1>5. ASSUME NEW p \in Pusher, Publish(p)
      PROVE  UNCHANGED Box!vars
  BY <1>5 DEF Publish, Box!vars
<1>6. CASE UNCHANGED vars
  BY <1>6 DEF vars, Box!vars
<1>7. QED
  BY <1>1, <1>2, <1>3, <1>4, <1>5, <1>6 DEF Next, Dispatch

\* Messages of one service are handled in the order they were stored and one
\* at a time, for any number of threads and services.
THEOREM ImplementsMailbox == Safety => Box!Safety
<1>1. Init => Box!Init
  <2> SUFFICES ASSUME Init PROVE Box!Init
    OBVIOUS
  <2>1. {v \in Worker : pc[v] = "callback"} = {}
    BY DEF Init
  <2>2. QED
    BY <2>1 DEF Init, Box!Init
<1>2. QED
  BY <1>1, MailboxStep, Ownership, PTL DEF Safety, Box!Safety
=============================================================================
