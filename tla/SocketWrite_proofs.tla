-------------------------- MODULE SocketWrite_proofs --------------------------
(***************************************************************************)
(* The safety of the write path, for any number of threads and packages,   *)
(* any sizes and however long the control pipe is: the count s->sending    *)
(* is exact, every byte is accounted for, packages stay whole and in order *)
(* on the wire, and a graceful close loses none.                           *)
(***************************************************************************)
EXTENDS SocketWrite, FiniteSetTheorems, FunctionTheorems, TLAPS

\* A package is counted by s->sending from inc_sending_ref on: first its thread
\* is about to send the command, then the command is in the pipe.
Waiting == {t \in Thread : pc[t] = "command"}

Carries(c) == c[1] \in {"D", "P"}

OnWay(p) == {i \in 1..Len(p) : Carries(p[i])}

Request == Commands \X (Package \cup {None})

PathType ==
  /\ pc \in [Thread -> {"idle", "peek", "try", "look", "double", "write",
                        "enable", "count", "command"}]
  /\ hand \in [Thread -> Package \cup {None}]
  /\ cmd \in [Thread -> {"D", "P"}]
  /\ pipe \in Seq(Request)

IInv == PathType /\ SendingTrue
-----------------------------------------------------------------------------
(* What a step does to the two sets.                                       *)

LEMMA WaitingFinite == IsFiniteSet(Waiting) /\ Cardinality(Waiting) \in Nat
<1>1. IsFiniteSet(Waiting)
  BY WriteAssumption, FS_Subset DEF Waiting
<1> QED
  BY <1>1, FS_CardinalityType

LEMMA WaitingStays ==
  ASSUME PathType, NEW t \in Thread, pc[t] # "command",
         NEW label, Goto(t, label), label # "command"
  PROVE  Waiting' = Waiting
  BY DEF PathType, Goto, Waiting

LEMMA WaitingGrows ==
  ASSUME PathType, NEW t \in Thread, pc[t] # "command", Goto(t, "command")
  PROVE  Cardinality(Waiting') = Cardinality(Waiting) + 1
<1>1. Waiting' = Waiting \cup {t} /\ t \notin Waiting
  BY DEF PathType, Goto, Waiting
<1> QED
  BY <1>1, WaitingFinite, FS_AddElement

LEMMA WaitingShrinks ==
  ASSUME PathType, NEW t \in Thread, pc[t] = "command", Goto(t, "idle")
  PROVE  Cardinality(Waiting') = Cardinality(Waiting) - 1
<1>1. Waiting' = Waiting \ {t} /\ t \in Waiting
  BY DEF PathType, Goto, Waiting
<1> QED
  BY <1>1, WaitingFinite, FS_RemoveElement

LEMMA OnWayFinite ==
  ASSUME NEW p \in Seq(Request)
  PROVE  IsFiniteSet(OnWay(p)) /\ Cardinality(OnWay(p)) \in Nat
<1>1. IsFiniteSet(1..Len(p))
  BY FS_Interval
<1>2. IsFiniteSet(OnWay(p))
  BY <1>1, FS_Subset DEF OnWay
<1> QED
  BY <1>2, FS_CardinalityType

\* A command that is written to the pipe.
LEMMA OnWayAppend ==
  ASSUME NEW p \in Seq(Request), NEW c \in Request
  PROVE  Cardinality(OnWay(Append(p, c)))
           = Cardinality(OnWay(p)) + (IF Carries(c) THEN 1 ELSE 0)
<1> DEFINE n == Len(p) + 1
<1>1. OnWay(Append(p, c)) = IF Carries(c) THEN OnWay(p) \cup {n} ELSE OnWay(p)
  BY DEF OnWay
<1>2. n \notin OnWay(p)
  BY DEF OnWay
<1>3. IsFiniteSet(OnWay(p)) /\ Cardinality(OnWay(p)) \in Nat
  BY OnWayFinite
<1>4. Cardinality(OnWay(p) \cup {n}) = Cardinality(OnWay(p)) + 1
  BY <1>2, <1>3, FS_AddElement
<1> QED
  BY <1>1, <1>3, <1>4

\* The command that the socket thread reads: the others move up by one.
LEMMA OnWayTail ==
  ASSUME NEW p \in Seq(Request), p # << >>
  PROVE  Cardinality(OnWay(Tail(p)))
           = Cardinality(OnWay(p)) - (IF Carries(Head(p)) THEN 1 ELSE 0)
<1> DEFINE rest == OnWay(p) \ {1}
           shift == [i \in rest |-> i - 1]
<1>1. Len(p) \in Nat /\ Len(p) > 0 /\ Head(p) = p[1] /\ Len(Tail(p)) = Len(p) - 1
      /\ \A i \in 1..(Len(p) - 1) : Tail(p)[i] = p[i + 1]
  OBVIOUS
<1>2. 1 \in OnWay(p) <=> Carries(Head(p))
  BY <1>1 DEF OnWay
<1>3. IsFiniteSet(rest)
      /\ Cardinality(rest) = Cardinality(OnWay(p)) - (IF 1 \in OnWay(p) THEN 1 ELSE 0)
  BY OnWayFinite, FS_RemoveElement
<1>4. shift \in Bijection(rest, OnWay(Tail(p)))
  <2>1. \A i \in rest : i \in 2..Len(p) /\ Carries(p[i])
    BY <1>1 DEF OnWay
  <2>2. \A i \in rest : shift[i] \in OnWay(Tail(p))
    BY <1>1, <2>1 DEF OnWay
  <2>3. \A i, j \in rest : shift[i] = shift[j] => i = j
    BY <2>1
  <2>4. \A k \in OnWay(Tail(p)) : k + 1 \in rest /\ shift[k + 1] = k
    BY <1>1 DEF OnWay
  <2> HIDE DEF rest
  <2>5. QED
    BY <2>2, <2>3, <2>4 DEF Bijection, Injection, Surjection, IsInjective
<1>5. Cardinality(OnWay(Tail(p))) = Cardinality(rest)
  <2> HIDE DEF rest, shift
  <2>1. ExistsBijection(rest, OnWay(Tail(p)))
    BY <1>4 DEF ExistsBijection
  <2>2. QED
    BY <1>3, <2>1, FS_Bijection
<1> QED
  BY <1>2, <1>3, <1>5
-----------------------------------------------------------------------------
(* The invariant.                                                          *)

\* The sum of SendingTrue, in the names of this module.
Total == Cardinality(Waiting) + Cardinality(OnWay(pipe)) + (IF sp = "dec" THEN 1 ELSE 0)

LEMMA SendingIsTotal == SendingTrue <=> sending = Total
BY DEF SendingTrue, Total, Waiting, OnWay, Carries

LEMMA TotalAfter ==
  SendingTrue' <=> sending' = Cardinality(Waiting') + Cardinality(OnWay(pipe'))
                                + (IF sp' = "dec" THEN 1 ELSE 0)
BY DEF SendingTrue, Waiting, OnWay, Carries

LEMMA PathInit == Init => IInv
<1> SUFFICES ASSUME Init PROVE IInv
  OBVIOUS
<1>1. PathType
  BY DEF Init, PathType
<1>2. Waiting = {} /\ OnWay(pipe) = {}
  BY DEF Init, Waiting, OnWay
<1>3. Cardinality(Waiting) = 0 /\ Cardinality(OnWay(pipe)) = 0 /\ sp # "dec"
  <2>1. sp # "dec"
    BY DEF Init
  <2>2. QED
    BY <1>2, <2>1, FS_EmptySet
<1>4. Total = 0
  BY <1>3 DEF Total
<1> QED
  BY <1>1, <1>4, SendingIsTotal DEF Init, IInv

\* A step that touches neither set, nor the count.
LEMMA Untouched ==
  ASSUME IInv, UNCHANGED <<sending, pipe>>, Waiting' = Waiting,
         sp' = "dec" <=> sp = "dec"
  PROVE  SendingTrue'
<1>1. sending = Cardinality(Waiting) + Cardinality(OnWay(pipe))
                  + (IF sp = "dec" THEN 1 ELSE 0)
  BY SendingIsTotal DEF IInv, Total
<1>2. Cardinality(Waiting') = Cardinality(Waiting) /\ OnWay(pipe') = OnWay(pipe)
  OBVIOUS
<1>3. (IF sp' = "dec" THEN 1 ELSE 0) = (IF sp = "dec" THEN 1 ELSE 0)
  OBVIOUS
<1> QED
  BY <1>1, <1>2, <1>3, TotalAfter

LEMMA PathTypeStep == PathType /\ [Next]_vars => PathType'
<1> SUFFICES ASSUME PathType, [Next]_vars PROVE PathType'
  OBVIOUS
<1> USE DEF PathType
<1>1. ASSUME NEW t \in Thread, NEW m \in Package, NEW c \in {"D", "P"}, Send(t, m, c)
      PROVE  PathType'
  BY <1>1, WriteAssumption DEF Send, Goto
<1>2. ASSUME NEW t \in Thread, SendStep(t)
      PROVE  PathType'
  <2>1. CASE Peek(t) \/ TryLock(t) \/ Look(t) \/ DoubleCheck(t) \/ IncSendingRef(t)
    BY <2>1 DEF Peek, TryLock, Look, DoubleCheck, IncSendingRef, Goto
  <2>2. CASE DirectWrite(t)
    BY <2>2 DEF DirectWrite, Done, Goto
  <2>3. CASE EnableWrite(t)
    BY <2>3 DEF EnableWrite, Done, Goto
  <2>4. CASE SendRequest(t)
    <3>1. <<cmd[t], hand[t]>> \in Request
      BY DEF Request, Commands
    <3>2. QED
      BY <2>4, <3>1 DEF SendRequest, Done, Goto
  <2>5. QED
    BY <1>2, <2>1, <2>2, <2>3, <2>4 DEF SendStep
<1>3. ASSUME NEW t \in Thread, NEW how \in {"K", "shutdown"}, Close(t, how)
      PROVE  PathType'
  <2>1. <<how, None>> \in Request
    BY DEF Request, Commands
  <2>2. QED
    BY <1>3, <2>1 DEF Close, senders
<1>4. ASSUME SocketThread
      PROVE  PathType'
  <2>1. CASE CtrlSend \/ CloseSocket
    <3>1. UNCHANGED <<pc, hand, cmd>>
      BY <2>1 DEF CtrlSend, CloseSocket, senders
    <3>2. pipe # << >> /\ pipe' = Tail(pipe)
      BY <2>1 DEF CtrlSend, CloseSocket, Command
    <3>3. QED
      BY <3>1, <3>2
  <2>2. CASE ForceClose \/ DecSendingRef \/ CloseDecide \/ ReportConnect
    BY <2>2 DEF ForceClose, DecSendingRef, CloseDecide, ReportConnect, senders
  <2>3. CASE ConnectNomore \/ DisableWrite \/ WriteEvent \/ ReadEnd
    BY <2>3 DEF ConnectNomore, DisableWrite, WriteEvent, ReadEnd, senders
  <2>4. QED
    BY <1>4, <2>1, <2>2, <2>3 DEF SocketThread
<1>5. CASE Connected \/ PeerReads \/ PeerEnds \/ PeerFails \/ UNCHANGED vars
  BY <1>5 DEF Connected, PeerReads, PeerEnds, PeerFails, vars, senders
<1> QED
  BY <1>1, <1>2, <1>3, <1>4, <1>5 DEF Next

\* What the threads do.
LEMMA SendersCount ==
  ASSUME IInv, NEW t \in Thread, SendStep(t)
  PROVE  SendingTrue'
<1> USE DEF IInv
<1>1. CASE Peek(t)
  BY <1>1, WaitingStays, Untouched DEF Peek, socket
<1>2. CASE TryLock(t)
  BY <1>2, WaitingStays, Untouched DEF TryLock
<1>3. CASE Look(t)
  BY <1>3, WaitingStays, Untouched DEF Look
<1>4. CASE DoubleCheck(t)
  BY <1>4, WaitingStays, Untouched DEF DoubleCheck
<1>5. CASE DirectWrite(t)
  <2>1. UNCHANGED <<sending, pipe, sp>> /\ pc[t] = "write"
        /\ (Goto(t, "idle") \/ Goto(t, "enable"))
    BY <1>5 DEF DirectWrite, Done
  <2>2. QED
    BY <2>1, WaitingStays, Untouched
<1>6. CASE EnableWrite(t)
  BY <1>6, WaitingStays, Untouched DEF EnableWrite, Done
<1>7. CASE IncSendingRef(t)
  <2>1. sending' = sending + 1 /\ UNCHANGED <<pipe, sp>> /\ pc[t] = "count"
        /\ Goto(t, "command")
    BY <1>7 DEF IncSendingRef
  <2>2. QED
    BY <2>1, WaitingGrows, WaitingFinite, OnWayFinite, SendingIsTotal, TotalAfter
       DEF Total, PathType
<1>8. CASE SendRequest(t)
  <2>1. UNCHANGED <<sending, sp>> /\ pipe' = Append(pipe, <<cmd[t], hand[t]>>)
        /\ pc[t] = "command" /\ Goto(t, "idle")
    BY <1>8 DEF SendRequest, Done, socket
  <2>2. <<cmd[t], hand[t]>> \in Request /\ Carries(<<cmd[t], hand[t]>>)
    BY DEF PathType, Request, Commands, Carries
  <2>3. Cardinality(OnWay(pipe')) = Cardinality(OnWay(pipe)) + 1
    BY <2>1, <2>2, OnWayAppend DEF PathType
  <2>4. Cardinality(Waiting') = Cardinality(Waiting) - 1
    BY <2>1, WaitingShrinks
  <2>5. sending = Cardinality(Waiting) + Cardinality(OnWay(pipe))
                    + (IF sp = "dec" THEN 1 ELSE 0)
    BY SendingIsTotal DEF Total
  <2>6. Cardinality(Waiting) \in Nat /\ Cardinality(OnWay(pipe)) \in Nat
    BY WaitingFinite, OnWayFinite DEF PathType
  <2>7. sending' = Cardinality(Waiting') + Cardinality(OnWay(pipe'))
                     + (IF sp' = "dec" THEN 1 ELSE 0)
    BY <2>1, <2>3, <2>4, <2>5, <2>6
  <2>8. QED
    BY <2>7, TotalAfter
<1> QED
  BY <1>1, <1>2, <1>3, <1>4, <1>5, <1>6, <1>7, <1>8 DEF SendStep

\* What the socket thread does.
LEMMA SocketThreadCounts ==
  ASSUME IInv, SocketThread
  PROVE  SendingTrue'
<1> USE DEF IInv
<1>1. pipe \in Seq(Request)
  BY DEF PathType
<1>2. CASE CtrlSend
  <2>1. pipe # << >> /\ Carries(Head(pipe)) /\ pipe' = Tail(pipe) /\ sp = "poll"
        /\ sp' = "dec" /\ sending' = sending /\ pc' = pc
    BY <1>2 DEF CtrlSend, Command, Carries, senders
  <2>2. Cardinality(OnWay(pipe')) = Cardinality(OnWay(pipe)) - 1
    BY <1>1, <2>1, OnWayTail
  <2>3. Waiting' = Waiting
    BY <2>1 DEF Waiting
  <2>4. QED
    BY <1>1, <2>1, <2>2, <2>3, WaitingFinite, OnWayFinite, SendingIsTotal, TotalAfter
       DEF Total
<1>3. CASE DecSendingRef
  <2>1. sp = "dec" /\ sp' = "poll" /\ sending' = sending - 1 /\ UNCHANGED <<pipe, pc>>
    BY <1>3 DEF DecSendingRef, senders
  <2>2. Waiting' = Waiting
    BY <2>1 DEF Waiting
  <2>3. sending = Cardinality(Waiting) + Cardinality(OnWay(pipe)) + 1
    BY <2>1, SendingIsTotal DEF Total
  <2>4. Cardinality(Waiting) \in Nat /\ Cardinality(OnWay(pipe)) \in Nat
    BY <1>1, WaitingFinite, OnWayFinite
  <2>5. sending' = Cardinality(Waiting') + Cardinality(OnWay(pipe')) + 0
    BY <2>1, <2>2, <2>3, <2>4
  <2>6. QED
    BY <2>1, <2>5, TotalAfter
<1>4. CASE CloseSocket
  <2>1. pipe # << >> /\ ~Carries(Head(pipe)) /\ pipe' = Tail(pipe) /\ sp = "poll"
        /\ sp' # "dec" /\ sending' = sending /\ pc' = pc
    BY <1>4 DEF CloseSocket, Command, Carries, senders, socket
  <2>2. Cardinality(OnWay(pipe')) = Cardinality(OnWay(pipe))
    BY <1>1, <2>1, OnWayTail, OnWayFinite
  <2>3. Waiting' = Waiting
    BY <2>1 DEF Waiting
  <2>4. QED
    BY <1>1, <2>1, <2>2, <2>3, SendingIsTotal, TotalAfter DEF Total
<1>5. CASE ForceClose \/ CloseDecide \/ ReportConnect \/ ConnectNomore
             \/ DisableWrite \/ WriteEvent \/ ReadEnd
  <2>1. UNCHANGED <<sending, pipe, pc>>
    BY <1>5 DEF ForceClose, CloseDecide, ReportConnect, ConnectNomore, DisableWrite,
       WriteEvent, ReadEnd, senders, socket
  <2>2. sp' = "dec" <=> sp = "dec"
    BY <1>5 DEF ForceClose, CloseDecide, ReportConnect, ConnectNomore, DisableWrite,
       WriteEvent, ReadEnd, FreeLists, Writable
  <2>3. Waiting' = Waiting
    BY <2>1 DEF Waiting
  <2>4. QED
    BY <2>1, <2>2, <2>3, Untouched
<1> QED
  BY <1>2, <1>3, <1>4, <1>5 DEF SocketThread

LEMMA PathStep == IInv /\ [Next]_vars => IInv'
<1> SUFFICES ASSUME IInv, [Next]_vars PROVE SendingTrue'
  BY PathTypeStep DEF IInv
<1>1. ASSUME NEW t \in Thread, NEW m \in Package, NEW c \in {"D", "P"}, Send(t, m, c)
      PROVE  SendingTrue'
  <2>1. UNCHANGED <<sending, pipe, sp>> /\ pc[t] = "idle"
        /\ (pc' = pc \/ Goto(t, "peek") \/ Goto(t, "count"))
    BY <1>1 DEF Send, socket
  <2>2. Waiting' = Waiting
    BY <2>1, WaitingStays DEF Waiting, IInv
  <2>3. QED
    BY <2>1, <2>2, Untouched
<1>2. ASSUME NEW t \in Thread, SendStep(t) PROVE SendingTrue'
  BY <1>2, SendersCount
<1>3. ASSUME NEW t \in Thread, NEW how \in {"K", "shutdown"}, Close(t, how)
      PROVE  SendingTrue'
  <2>1. UNCHANGED <<sending, sp, pc>> /\ pipe' = Append(pipe, <<how, None>>)
    BY <1>3 DEF Close, senders, socket
  <2>2. <<how, None>> \in Request /\ ~Carries(<<how, None>>)
    BY DEF Request, Commands, Carries
  <2>3. Cardinality(OnWay(pipe')) = Cardinality(OnWay(pipe))
    BY <2>1, <2>2, OnWayAppend, OnWayFinite DEF IInv, PathType
  <2>4. Waiting' = Waiting
    BY <2>1 DEF Waiting
  <2>5. QED
    BY <2>1, <2>3, <2>4, SendingIsTotal, TotalAfter DEF Total, IInv
<1>4. CASE SocketThread
  BY <1>4, SocketThreadCounts
<1>5. CASE Connected \/ PeerReads \/ PeerEnds \/ PeerFails \/ UNCHANGED vars
  <2>1. UNCHANGED <<sending, pipe, sp, pc>>
    BY <1>5 DEF Connected, PeerReads, PeerEnds, PeerFails, vars, senders, socket
  <2>2. Waiting' = Waiting
    BY <2>1 DEF Waiting
  <2>3. QED
    BY <2>1, <2>2, Untouched
<1> QED
  BY <1>1, <1>2, <1>3, <1>4, <1>5 DEF Next

LEMMA PathInvariant == Safety => []IInv
BY PathInit, PathStep, PTL DEF Safety

\* s->sending is the number of packages between inc_sending_ref and
\* dec_sending_ref, whatever becomes of them and of the socket.
THEOREM CountIsExact == Safety => []SendingTrue
<1>1. IInv => SendingTrue
  BY DEF IInv
<1> QED
  BY <1>1, PathInvariant, PTL

\* The assertion of dec_sending_ref: it never finds the count at zero.
THEOREM DecNeverBelowZero == Safety => [](sp = "dec" => sending > 0)
<1>1. IInv => (sp = "dec" => sending > 0)
  BY WaitingFinite, OnWayFinite, SendingIsTotal DEF IInv, Total, PathType
<1> QED
  BY <1>1, PathInvariant, PTL
-----------------------------------------------------------------------------
(* Streams of bytes: packages that follow each other, each in order.       *)

Byte == Package \X (1..Size)

\* Where the package of the i-th byte of s ends.
End(s, i) == i + (Size - s[i][2])

\* s is made of packages that follow each other, of which the first may lack
\* its head.
Follows(s, i) ==
  /\ End(s, i) <= Len(s)
  /\ \A j \in i..End(s, i) : s[j] = <<s[i][1], s[i][2] + (j - i)>>
  /\ End(s, i) < Len(s) => s[End(s, i) + 1][2] = 1

Tidy(s) == \A i \in 1..Len(s) : Follows(s, i)

Starts(s) == s # << >> => s[1][2] = 1

Stream(s) == Starts(s) /\ Tidy(s)

LEMMA SizePositive == Size \in Nat /\ Size > 0
BY WriteAssumption

LEMMA ByteOf ==
  ASSUME NEW s \in Seq(Byte), NEW i \in 1..Len(s)
  PROVE  /\ s[i] \in Byte
         /\ s[i][1] \in Package /\ s[i][2] \in 1..Size
         /\ s[i][2] \in Int
         /\ End(s, i) \in Int /\ i <= End(s, i)
<1>1. s[i] \in Byte
  OBVIOUS
<1>2. s[i][1] \in Package /\ s[i][2] \in 1..Size
  BY <1>1 DEF Byte
<1> QED
  BY <1>1, <1>2, SizePositive DEF End

LEMMA EmptyTidy == Tidy(<< >>) /\ Stream(<< >>)
BY DEF Tidy, Stream, Starts

LEMMA BytesStream ==
  ASSUME NEW m \in Package
  PROVE  Bytes(m) \in Seq(Byte) /\ Len(Bytes(m)) = Size /\ Stream(Bytes(m))
         /\ \A i \in 1..Size : Bytes(m)[i] = <<m, i>>
<1>1. Bytes(m) \in Seq(Byte)
  BY SizePositive DEF Bytes, Byte
<1>2. Len(Bytes(m)) = Size /\ \A i \in 1..Size : Bytes(m)[i] = <<m, i>>
  BY SizePositive DEF Bytes
<1>3. Tidy(Bytes(m))
  BY <1>2, SizePositive DEF Tidy, Follows, End
<1>4. Starts(Bytes(m))
  BY <1>2, SizePositive DEF Starts
<1> QED
  BY <1>1, <1>2, <1>3, <1>4 DEF Stream

LEMMA Joined ==
  ASSUME NEW S, NEW s \in Seq(S), NEW t \in Seq(S)
  PROVE  /\ s \o t \in Seq(S) /\ Len(s \o t) = Len(s) + Len(t)
         /\ Len(s) \in Nat /\ Len(t) \in Nat
         /\ \A i \in 1..Len(s) : (s \o t)[i] = s[i]
         /\ \A i \in 1..Len(t) : (s \o t)[Len(s) + i] = t[i]
         /\ \A i \in (Len(s) + 1)..(Len(s) + Len(t)) : (s \o t)[i] = t[i - Len(s)]
OBVIOUS

\* Two runs of packages one behind the other.
LEMMA TidyJoin ==
  ASSUME NEW s \in Seq(Byte), NEW t \in Seq(Byte), Tidy(s), Stream(t)
  PROVE  Tidy(s \o t)
<1> DEFINE u == s \o t
<1>0. u \in Seq(Byte) /\ Len(u) = Len(s) + Len(t) /\ Len(s) \in Nat /\ Len(t) \in Nat
      /\ (\A i \in 1..Len(s) : u[i] = s[i])
      /\ (\A i \in (Len(s) + 1)..(Len(s) + Len(t)) : u[i] = t[i - Len(s)])
  BY Joined
<1> HIDE DEF u
<1>1. ASSUME NEW i \in 1..Len(s)
      PROVE  Follows(u, i)
  <2>1. /\ End(s, i) <= Len(s)
        /\ \A j \in i..End(s, i) : s[j] = <<s[i][1], s[i][2] + (j - i)>>
        /\ End(s, i) < Len(s) => s[End(s, i) + 1][2] = 1
    BY DEF Tidy, Follows
  <2>2. End(s, i) \in Int /\ i <= End(s, i)
    BY ByteOf
  <2>3. End(u, i) = End(s, i) /\ u[i] = s[i]
    BY <1>0 DEF End
  <2>4. ASSUME NEW j \in i..End(s, i) PROVE u[j] = <<s[i][1], s[i][2] + (j - i)>>
    <3>1. j \in 1..Len(s)
      BY <1>0, <2>1, <2>2
    <3>2. u[j] = s[j]
      BY <1>0, <3>1
    <3>3. QED
      BY <2>1, <3>2
  <2>5. ASSUME End(s, i) < Len(u) PROVE u[End(s, i) + 1][2] = 1
    <3>1. CASE End(s, i) < Len(s)
      BY <1>0, <2>1, <2>2, <3>1
    <3>2. CASE End(s, i) = Len(s)
      <4>1. Len(t) > 0 /\ u[End(s, i) + 1] = t[1]
        BY <1>0, <2>5, <3>2
      <4>2. t[1][2] = 1
        BY <4>1 DEF Stream, Starts
      <4>3. QED
        BY <4>1, <4>2
    <3>3. QED
      BY <1>0, <2>1, <2>2, <3>1, <3>2
  <2>6. End(u, i) <= Len(u)
    BY <1>0, <2>1, <2>2, <2>3
  <2>7. \A j \in i..End(u, i) : u[j] = <<u[i][1], u[i][2] + (j - i)>>
    BY <2>3, <2>4
  <2>8. QED
    BY <2>3, <2>5, <2>6, <2>7 DEF Follows
<1>2. ASSUME NEW i \in (Len(s) + 1)..(Len(s) + Len(t))
      PROVE  Follows(u, i)
  <2> DEFINE p == i - Len(s)
  <2>0. p \in 1..Len(t) /\ u[i] = t[p]
    BY <1>0
  <2>1. /\ End(t, p) <= Len(t)
        /\ \A j \in p..End(t, p) : t[j] = <<t[p][1], t[p][2] + (j - p)>>
        /\ End(t, p) < Len(t) => t[End(t, p) + 1][2] = 1
    BY <2>0 DEF Tidy, Stream, Follows
  <2>2. End(t, p) \in Int /\ p <= End(t, p) /\ t[p][2] \in Int
    BY <2>0, ByteOf
  <2>3. End(u, i) = Len(s) + End(t, p)
    <3>1. u[i][2] = t[p][2] /\ i = Len(s) + p /\ Len(s) \in Int /\ p \in Int
      BY <1>0, <2>0
    <3> HIDE DEF p
    <3>2. QED
      BY <2>2, <3>1, SizePositive DEF End
  <2>4. ASSUME NEW j \in i..End(u, i) PROVE u[j] = <<u[i][1], u[i][2] + (j - i)>>
    <3>1. (j - Len(s)) \in p..End(t, p) /\ j \in (Len(s) + 1)..(Len(s) + Len(t))
      BY <1>0, <2>0, <2>1, <2>2, <2>3
    <3>2. u[j] = t[j - Len(s)] /\ (j - Len(s)) - p = j - i
      BY <1>0, <3>1
    <3>3. QED
      BY <2>0, <2>1, <3>1, <3>2
  <2>5. ASSUME End(u, i) < Len(u) PROVE u[End(u, i) + 1][2] = 1
    <3>1. End(t, p) < Len(t) /\ (End(u, i) + 1) \in (Len(s) + 1)..(Len(s) + Len(t))
          /\ (End(u, i) + 1) - Len(s) = End(t, p) + 1
      <4>1. Len(u) = Len(s) + Len(t) /\ Len(s) \in Nat /\ Len(t) \in Nat /\ p \in Int /\ p >= 1
        BY <1>0, <2>0
      <4>2. End(t, p) \in Int /\ End(t, p) >= 1
        BY <2>2, <4>1
      <4> HIDE DEF p
      <4>3. QED
        BY ONLY <2>3, <2>5, <4>1, <4>2
    <3>3. u[End(u, i) + 1] = t[End(t, p) + 1]
      BY <1>0, <3>1
    <3>4. QED
      BY <2>1, <3>1, <3>3
  <2>6. End(u, i) <= Len(u)
    BY <1>0, <2>1, <2>2, <2>3
  <2>7. QED
    BY <2>4, <2>5, <2>6 DEF Follows
<1>3. \A i \in 1..Len(u) : i \in 1..Len(s) \/ i \in (Len(s) + 1)..(Len(s) + Len(t))
  BY <1>0
<1>4. Tidy(u)
  BY <1>1, <1>2, <1>3 DEF Tidy
<1> QED
  BY <1>4 DEF u

\* What is left when the front of such a run has been written.
LEMMA TidyBack ==
  ASSUME NEW s \in Seq(Byte), NEW t \in Seq(Byte), Tidy(s \o t)
  PROVE  Tidy(t)
<1> DEFINE u == s \o t
<1>0. u \in Seq(Byte) /\ Len(u) = Len(s) + Len(t) /\ Len(s) \in Nat /\ Len(t) \in Nat
      /\ (\A i \in 1..Len(t) : u[Len(s) + i] = t[i])
  BY Joined
<1>1. Tidy(u)
  OBVIOUS
<1> HIDE DEF u
<1> SUFFICES ASSUME NEW i \in 1..Len(t)
             PROVE  Follows(t, i)
  BY DEF Tidy
<1> DEFINE p == Len(s) + i
<1>2. p \in 1..Len(u) /\ u[p] = t[i]
  BY <1>0
<1>3. /\ End(u, p) <= Len(u)
      /\ \A j \in p..End(u, p) : u[j] = <<u[p][1], u[p][2] + (j - p)>>
      /\ End(u, p) < Len(u) => u[End(u, p) + 1][2] = 1
  BY <1>1, <1>2 DEF Tidy, Follows
<1>4. End(t, i) \in Int /\ i <= End(t, i) /\ t[i][2] \in Int
  BY ByteOf
<1>5. End(u, p) = Len(s) + End(t, i)
  BY <1>0, <1>2, <1>4, SizePositive DEF End
<1>6. ASSUME NEW j \in i..End(t, i) PROVE t[j] = <<t[i][1], t[i][2] + (j - i)>>
  <2>1. (Len(s) + j) \in p..End(u, p) /\ j \in 1..Len(t) /\ (Len(s) + j) - p = j - i
    BY <1>0, <1>3, <1>4, <1>5
  <2>2. QED
    BY <1>0, <1>2, <1>3, <2>1
<1>7. ASSUME End(t, i) < Len(t) PROVE t[End(t, i) + 1][2] = 1
  <2>1. (End(t, i) + 1) \in 1..Len(t) /\ End(u, p) < Len(u)
        /\ End(u, p) + 1 = Len(s) + (End(t, i) + 1)
    BY <1>0, <1>4, <1>5, <1>7
  <2>2. u[End(u, p) + 1] = t[End(t, i) + 1]
    BY <1>0, <2>1
  <2>3. QED
    BY <1>3, <2>1, <2>2
<1>8. End(t, i) <= Len(t)
  BY <1>0, <1>3, <1>4, <1>5
<1> QED
  BY <1>6, <1>7, <1>8 DEF Follows

\* What has been written of it, when the rest starts with a new package.
LEMMA TidyFront ==
  ASSUME NEW s \in Seq(Byte), NEW t \in Seq(Byte), Tidy(s \o t), Starts(t)
  PROVE  Tidy(s)
<1> DEFINE u == s \o t
<1>0. u \in Seq(Byte) /\ Len(u) = Len(s) + Len(t) /\ Len(s) \in Nat /\ Len(t) \in Nat
      /\ (\A i \in 1..Len(s) : u[i] = s[i])
      /\ (\A i \in 1..Len(t) : u[Len(s) + i] = t[i])
  BY Joined
<1>1. Tidy(u)
  OBVIOUS
<1> HIDE DEF u
<1> SUFFICES ASSUME NEW i \in 1..Len(s)
             PROVE  Follows(s, i)
  BY DEF Tidy
<1>2. i \in 1..Len(u) /\ u[i] = s[i] /\ End(u, i) = End(s, i)
  BY <1>0 DEF End
<1>3. /\ End(u, i) <= Len(u)
      /\ \A j \in i..End(u, i) : u[j] = <<u[i][1], u[i][2] + (j - i)>>
      /\ End(u, i) < Len(u) => u[End(u, i) + 1][2] = 1
  BY <1>1, <1>2 DEF Tidy, Follows
<1>4. End(s, i) \in Int /\ i <= End(s, i) /\ s[i][2] \in 1..Size
  BY ByteOf
<1>5. End(s, i) <= Len(s)
  <2> SUFFICES ASSUME End(s, i) > Len(s) PROVE FALSE
    BY <1>0, <1>4
  <2>1. (Len(s) + 1) \in i..End(u, i) /\ Len(t) > 0
    BY <1>0, <1>2, <1>3, <1>4
  <2>2. u[Len(s) + 1] = <<s[i][1], s[i][2] + ((Len(s) + 1) - i)>> /\ u[Len(s) + 1] = t[1]
    BY <1>0, <1>2, <1>3, <2>1
  <2>3. t[1][2] = 1
    BY <2>1 DEF Starts
  <2>4. t[1][2] = s[i][2] + ((Len(s) + 1) - i)
    BY <2>2
  <2>5. QED
    BY <1>0, <1>4, <2>3, <2>4
<1>6. ASSUME NEW j \in i..End(s, i) PROVE s[j] = <<s[i][1], s[i][2] + (j - i)>>
  <2>1. j \in 1..Len(s)
    BY <1>0, <1>4, <1>5
  <2>2. u[j] = s[j]
    BY <1>0, <2>1
  <2>3. QED
    BY <1>2, <1>3, <2>2
<1>7. ASSUME End(s, i) < Len(s) PROVE s[End(s, i) + 1][2] = 1
  <2>1. (End(s, i) + 1) \in 1..Len(s) /\ End(u, i) < Len(u)
    BY <1>0, <1>2, <1>4, <1>7
  <2>2. u[End(u, i) + 1] = s[End(s, i) + 1]
    BY <1>0, <1>2, <2>1
  <2>3. QED
    BY <1>3, <2>1, <2>2
<1> QED
  BY <1>5, <1>6, <1>7 DEF Follows
LEMMA StreamJoin ==
  ASSUME NEW s \in Seq(Byte), NEW t \in Seq(Byte), Stream(s), Stream(t)
  PROVE  Stream(s \o t)
<1>1. Tidy(s \o t)
  BY TidyJoin DEF Stream
<1>2. Starts(s \o t)
  BY Joined DEF Stream, Starts
<1> QED
  BY <1>1, <1>2 DEF Stream

LEMMA StreamFront ==
  ASSUME NEW s \in Seq(Byte), NEW t \in Seq(Byte), Stream(s \o t), Starts(t)
  PROVE  Stream(s)
<1>1. Tidy(s)
  BY TidyFront DEF Stream
<1>2. Starts(s)
  BY Joined DEF Stream, Starts
<1> QED
  BY <1>1, <1>2 DEF Stream

LEMMA StartsJoin ==
  ASSUME NEW s \in Seq(Byte), NEW t \in Seq(Byte), Starts(s), Starts(t)
  PROVE  Starts(s \o t)
BY Joined DEF Starts

LEMMA SameSeq ==
  ASSUME NEW S, NEW s \in Seq(S), NEW t \in Seq(S), Len(s) = Len(t),
         \A i \in 1..Len(s) : s[i] = t[i]
  PROVE  s = t
OBVIOUS

\* A sequence and its two parts.
LEMMA Split ==
  ASSUME NEW S, NEW s \in Seq(S), NEW n \in 0..Len(s)
  PROVE  /\ SubSeq(s, 1, n) \in Seq(S) /\ SubSeq(s, n + 1, Len(s)) \in Seq(S)
         /\ SubSeq(s, 1, n) \o SubSeq(s, n + 1, Len(s)) = s
         /\ Len(SubSeq(s, 1, n)) = n /\ Len(SubSeq(s, n + 1, Len(s))) = Len(s) - n
         /\ \A i \in 1..n : SubSeq(s, 1, n)[i] = s[i]
         /\ \A i \in 1..(Len(s) - n) : SubSeq(s, n + 1, Len(s))[i] = s[n + i]
<1> DEFINE x == SubSeq(s, 1, n)
           y == SubSeq(s, n + 1, Len(s))
<1>1. x \in Seq(S) /\ Len(x) = n /\ \A i \in 1..n : x[i] = s[i]
  OBVIOUS
<1>2. y \in Seq(S) /\ Len(y) = Len(s) - n /\ \A i \in 1..(Len(s) - n) : y[i] = s[n + i]
  OBVIOUS
<1>3. x \o y = s
  <2> HIDE DEF x, y
  <2>1. x \o y \in Seq(S) /\ Len(x \o y) = Len(s)
    BY <1>1, <1>2
  <2>2. \A i \in 1..Len(s) : (x \o y)[i] = s[i]
    BY <1>1, <1>2
  <2>3. QED
    BY <2>1, <2>2, SameSeq
<1> QED
  BY <1>1, <1>2, <1>3

LEMMA Regroup ==
  ASSUME NEW S, NEW s \in Seq(S), NEW t \in Seq(S), NEW u \in Seq(S)
  PROVE  (s \o t) \o u = s \o (t \o u)
OBVIOUS

LEMMA Nothing ==
  ASSUME NEW S, NEW s \in Seq(S)
  PROVE  s \o << >> = s /\ << >> \o s = s /\ << >> \in Seq(S)
OBVIOUS

\* The rest of the first package, and the packages after it.
LEMMA HeadPart ==
  ASSUME NEW l \in Seq(Byte), Tidy(l), l # << >>,
         NEW rest, rest = (Size - l[1][2]) + 1
  PROVE  /\ rest \in 1..Len(l)
         /\ SubSeq(l, 1, rest) \in Seq(Byte) /\ SubSeq(l, 1, rest) # << >>
         /\ SubSeq(l, rest + 1, Len(l)) \in Seq(Byte)
         /\ l = SubSeq(l, 1, rest) \o SubSeq(l, rest + 1, Len(l))
         /\ Tidy(SubSeq(l, 1, rest)) /\ Stream(SubSeq(l, rest + 1, Len(l)))
<1> DEFINE R == SubSeq(l, 1, rest)
           L == SubSeq(l, rest + 1, Len(l))
<1>1. Len(l) \in Nat /\ Len(l) > 0 /\ 1 \in 1..Len(l)
  OBVIOUS
<1>2. Follows(l, 1) /\ l[1][2] \in 1..Size /\ End(l, 1) = rest
  <2>1. Follows(l, 1) /\ l[1][2] \in 1..Size
    BY <1>1, ByteOf DEF Tidy
  <2>2. QED
    BY <2>1, SizePositive DEF End
<1>3. rest \in 1..Len(l)
  <2>1. rest <= Len(l) /\ rest \in Int
    BY <1>1, <1>2, SizePositive DEF Follows
  <2>2. rest >= 1
    BY <1>2, SizePositive
  <2>3. QED
    BY <1>1, <2>1, <2>2
<1>4. R \in Seq(Byte) /\ L \in Seq(Byte) /\ R \o L = l /\ Len(R) = rest /\ Len(L) = Len(l) - rest
      /\ (\A i \in 1..(Len(l) - rest) : L[i] = l[rest + i])
  <2>1. rest \in 0..Len(l)
    BY <1>1, <1>3
  <2>2. QED
    BY <2>1, Split
<1> HIDE DEF R, L
<1>5. Starts(L)
  <2> SUFFICES ASSUME L # << >> PROVE L[1][2] = 1
    BY DEF Starts
  <2>1. Len(L) > 0
    BY <1>4
  <2>2. rest < Len(l) /\ 1 \in 1..(Len(l) - rest)
    BY <1>1, <1>3, <1>4, <2>1
  <2>3. L[1] = l[rest + 1]
    BY <1>4, <2>2
  <2>4. l[rest + 1][2] = 1
    BY <1>2, <2>2 DEF Follows
  <2>5. QED
    BY <2>3, <2>4
<1>6. Tidy(R) /\ Tidy(L)
  BY <1>4, <1>5, TidyFront, TidyBack
<1>7. R # << >>
  BY <1>3, <1>4
<1>8. QED
  BY <1>3, <1>4, <1>5, <1>6, <1>7 DEF R, L, Stream

\* A package that has a byte in such a list has its last byte there.
LEMMA LastByte ==
  ASSUME NEW s \in Seq(Byte), Tidy(s), NEW m \in PackagesOf(s)
  PROVE  \E i \in 1..Len(s) : s[i] = <<m, Size>>
<1>1. PICK k \in 1..Len(s) : m = s[k][1]
  BY DEF PackagesOf
<1>2. Follows(s, k) /\ End(s, k) \in Int /\ k <= End(s, k) /\ s[k][2] \in 1..Size
  BY <1>1, ByteOf DEF Tidy
<1>3. End(s, k) \in k..End(s, k) /\ End(s, k) \in 1..Len(s)
  BY <1>2 DEF Follows
<1>4. s[End(s, k)] = <<m, s[k][2] + (End(s, k) - k)>>
  BY <1>1, <1>2, <1>3 DEF Follows
<1>5. s[k][2] + (End(s, k) - k) = Size
  BY <1>2, SizePositive DEF End
<1> QED
  BY <1>3, <1>4, <1>5
-----------------------------------------------------------------------------
(* Counting.                                                               *)

Hits(s, X) == {i \in 1..Len(s) : s[i] \in X}

LEMMA DisjointUnion ==
  ASSUME NEW A, IsFiniteSet(A), NEW B, IsFiniteSet(B), A \cap B = {}
  PROVE  Cardinality(A \cup B) = Cardinality(A) + Cardinality(B)
<1>1. Cardinality(A \cap B) = 0
  BY FS_EmptySet
<1>2. Cardinality(A) \in Nat /\ Cardinality(B) \in Nat
  BY FS_CardinalityType
<1>3. Cardinality(A \cup B) = Cardinality(A) + Cardinality(B) - Cardinality(A \cap B)
  BY FS_Union
<1> QED
  BY <1>1, <1>2, <1>3

LEMMA HitsFinite ==
  ASSUME NEW S, NEW s \in Seq(S), NEW X
  PROVE  IsFiniteSet(Hits(s, X)) /\ Cardinality(Hits(s, X)) \in Nat
<1>1. IsFiniteSet(1..Len(s))
  BY FS_Interval
<1>2. IsFiniteSet(Hits(s, X))
  BY <1>1, FS_Subset DEF Hits
<1> QED
  BY <1>2, FS_CardinalityType

LEMMA HitsJoin ==
  ASSUME NEW S, NEW s \in Seq(S), NEW t \in Seq(S), NEW X
  PROVE  Cardinality(Hits(s \o t, X)) = Cardinality(Hits(s, X)) + Cardinality(Hits(t, X))
<1> DEFINE u == s \o t
           back == Hits(u, X) \ Hits(s, X)
           shift == [i \in Hits(t, X) |-> Len(s) + i]
<1>1. Len(u) = Len(s) + Len(t) /\ Len(s) \in Nat /\ Len(t) \in Nat
      /\ (\A i \in 1..Len(s) : u[i] = s[i])
      /\ (\A i \in 1..Len(t) : u[Len(s) + i] = t[i])
      /\ (\A i \in (Len(s) + 1)..(Len(s) + Len(t)) : u[i] = t[i - Len(s)])
  BY Joined
<1> HIDE DEF u
<1>2. Hits(s, X) \subseteq Hits(u, X)
  BY <1>1 DEF Hits
<1>3. \A i \in back : i \in (Len(s) + 1)..(Len(s) + Len(t)) /\ (i - Len(s)) \in Hits(t, X)
  BY <1>1 DEF Hits
<1>4. \A i \in Hits(t, X) : (Len(s) + i) \in back
  BY <1>1 DEF Hits
<1>5. shift \in Bijection(Hits(t, X), back)
  <2>1. \A i \in Hits(t, X) : i \in Int
    BY DEF Hits
  <2>2. \A i \in Hits(t, X) : shift[i] \in back
    BY <1>4
  <2>3. \A i, j \in Hits(t, X) : shift[i] = shift[j] => i = j
    BY <1>1, <2>1
  <2>4. \A k \in back : (k - Len(s)) \in Hits(t, X) /\ shift[k - Len(s)] = k
    BY <1>1, <1>3
  <2> HIDE DEF back
  <2>5. QED
    BY <2>2, <2>3, <2>4 DEF Bijection, Injection, Surjection, IsInjective
<1>6. IsFiniteSet(Hits(t, X)) /\ IsFiniteSet(Hits(s, X)) /\ Cardinality(Hits(s, X)) \in Nat
  BY HitsFinite
<1>7. IsFiniteSet(back) /\ Cardinality(back) = Cardinality(Hits(t, X))
  <2> HIDE DEF back, shift
  <2>1. ExistsBijection(Hits(t, X), back)
    BY <1>5 DEF ExistsBijection
  <2>2. QED
    BY <1>6, <2>1, FS_Bijection
<1>8. Hits(u, X) = Hits(s, X) \cup back /\ Hits(s, X) \cap back = {}
  BY <1>2
<1>9. Cardinality(Hits(u, X)) = Cardinality(Hits(s, X)) + Cardinality(back)
  <2> HIDE DEF back
  <2>1. QED
    BY <1>6, <1>7, <1>8, DisjointUnion
<1> QED
  BY <1>7, <1>9 DEF u

LEMMA HitsNone ==
  ASSUME NEW S, NEW s \in Seq(S), NEW X
  PROVE  /\ Cardinality(Hits(s, X)) = 0 <=> \A i \in 1..Len(s) : s[i] \notin X
         /\ Cardinality(Hits(<< >>, X)) = 0
<1>1. Cardinality(Hits(s, X)) = 0 <=> Hits(s, X) = {}
  BY HitsFinite, FS_EmptySet
<1>2. Hits(<< >>, X) = {}
  BY DEF Hits
<1>3. Cardinality(Hits(<< >>, X)) = 0
  BY <1>2, FS_EmptySet
<1> QED
  BY <1>1, <1>3 DEF Hits

LEMMA HitsOne ==
  ASSUME NEW x, NEW X
  PROVE  Cardinality(Hits(<<x>>, X)) = IF x \in X THEN 1 ELSE 0
<1>1. Hits(<<x>>, X) = IF x \in X THEN {1} ELSE {}
  BY DEF Hits
<1> QED
  BY <1>1, FS_EmptySet, FS_Singleton

\* With at most one hit the place is the only one.
LEMMA HitsOnce ==
  ASSUME NEW S, NEW s \in Seq(S), NEW X, Cardinality(Hits(s, X)) <= 1,
         NEW i \in Hits(s, X), NEW j \in Hits(s, X)
  PROVE  i = j
<1> SUFFICES ASSUME i # j PROVE FALSE
  OBVIOUS
<1>1. IsFiniteSet(Hits(s, X)) /\ Cardinality(Hits(s, X)) \in Nat
  BY HitsFinite
<1>2. {i, j} \subseteq Hits(s, X)
  OBVIOUS
<1>3. Cardinality({i, j}) <= Cardinality(Hits(s, X))
  BY <1>1, <1>2, FS_Subset
<1>4. Cardinality({i} \cup {j}) = 2
  <2> DEFINE A == {i}
  <2>1. IsFiniteSet(A) /\ Cardinality(A) = 1 /\ j \notin A
    BY FS_Singleton
  <2> HIDE DEF A
  <2>2. Cardinality(A \cup {j}) = IF j \in A THEN Cardinality(A) ELSE Cardinality(A) + 1
    BY ONLY <2>1, FS_AddElement, Zenon
  <2>3. QED
    BY <2>1, <2>2 DEF A
<1>5. {i, j} = {i} \cup {j}
  OBVIOUS
<1>6. Cardinality({i, j}) = 2
  BY <1>4, <1>5
<1>7. PICK c \in Nat : c = Cardinality(Hits(s, X))
  BY <1>1
<1>8. c <= 1 /\ 2 <= c
  BY <1>3, <1>6, <1>7
<1> QED
  BY <1>8
LEMMA HitsAppend ==
  ASSUME NEW S, NEW s \in Seq(S), NEW x \in S, NEW X
  PROVE  Cardinality(Hits(Append(s, x), X))
           = Cardinality(Hits(s, X)) + (IF x \in X THEN 1 ELSE 0)
<1>1. Append(s, x) = s \o <<x>> /\ <<x>> \in Seq(S)
  OBVIOUS
<1>2. Cardinality(Hits(s \o <<x>>, X)) = Cardinality(Hits(s, X)) + Cardinality(Hits(<<x>>, X))
  BY <1>1, HitsJoin
<1> QED
  BY <1>1, <1>2, HitsOne

LEMMA HitsTail ==
  ASSUME NEW S, NEW s \in Seq(S), s # << >>, NEW X
  PROVE  Cardinality(Hits(s, X))
           = Cardinality(Hits(Tail(s), X)) + (IF Head(s) \in X THEN 1 ELSE 0)
<1> DEFINE x == Head(s)
           t == Tail(s)
<1>1. x \in S /\ t \in Seq(S) /\ <<x>> \in Seq(S) /\ s = <<x>> \o t
  <2>1. x \in S /\ t \in Seq(S) /\ Len(s) = 1 + Len(t) /\ s[1] = x
        /\ \A i \in 1..Len(t) : t[i] = s[1 + i]
    OBVIOUS
  <2> HIDE DEF x, t
  <2>2. \A i \in 1..Len(s) : s[i] = (<<x>> \o t)[i]
    BY <2>1
  <2>3. QED
    BY <2>1, <2>2, SameSeq
<1> HIDE DEF x, t
<1>2. Cardinality(Hits(s, X)) = Cardinality(Hits(<<x>>, X)) + Cardinality(Hits(t, X))
  BY <1>1, HitsJoin
<1>3. Cardinality(Hits(t, X)) \in Nat
  BY <1>1, HitsFinite
<1>4. Cardinality(Hits(s, X)) = Cardinality(Hits(t, X)) + (IF x \in X THEN 1 ELSE 0)
  BY <1>2, <1>3, HitsOne
<1> QED
  BY <1>4 DEF x, t
-----------------------------------------------------------------------------
(* The lists and the lock.                                                 *)

Locked(t) == pc[t] \in {"look", "double", "write", "enable"}

Lists ==
  /\ high \in Seq(Byte) /\ low \in Seq(Byte) /\ dw \in Seq(Byte) /\ wire \in Seq(Byte)
  /\ room \in 0..Capacity
  /\ Tidy(dw) /\ Tidy(high) /\ Stream(low)
  /\ dw # << >> => Starts(high)

Lock ==
  /\ holder \in Thread \cup {None}
  /\ \A t \in Thread : Locked(t) <=> holder = t
  /\ \A t \in Thread : pc[t] \in {"double", "write"} => dw = << >> /\ Starts(high)

Gone ==
  /\ sp \in {"decide", "closing"} => type # "invalid"
  /\ sp = "closing" => high = << >> /\ low = << >>
  /\ type = "invalid" => high = << >> /\ low = << >> /\ dw = << >> /\ holder = None

Shape == Lists /\ Lock /\ Gone

LEMMA MinTwo ==
  ASSUME NEW a \in Int, NEW b \in Int
  PROVE  Min({a, b}) = IF a <= b THEN a ELSE b
<1> DEFINE m == IF a <= b THEN a ELSE b
<1>1. m \in {a, b} /\ \A y \in {a, b} : m <= y
  OBVIOUS
<1>2. \A x \in {a, b} : (\A y \in {a, b} : x <= y) => x = m
  OBVIOUS
<1>3. (CHOOSE x \in {a, b} : \A y \in {a, b} : x <= y) = m
  <2> HIDE DEF m
  <2>1. QED
    BY <1>1, <1>2
<1> QED
  BY <1>3 DEF Min

LEMMA UnsentTidy ==
  ASSUME Lists
  PROVE  Unsent \in Seq(Byte) /\ Tidy(Unsent) /\ Unsent = dw \o high
<1>1. Unsent = dw \o high
  BY DEF Unsent
<1>2. CASE dw = << >>
  BY <1>1, <1>2, Nothing DEF Lists
<1>3. CASE dw # << >>
  BY <1>1, <1>3, TidyJoin, Joined DEF Lists, Stream
<1> QED
  BY <1>1, <1>2, <1>3

\* What send_buffer does when nothing fails: the bytes X of dw_buffer and the
\* high list and Y of the low list are written, R is raised.
Flushed(X, H, Y, R) ==
  /\ X \in Seq(Byte) /\ H \in Seq(Byte) /\ Y \in Seq(Byte) /\ R \in Seq(Byte)
  /\ low' \in Seq(Byte)
  /\ dw \o high = X \o H
  /\ low = Y \o (R \o low')
  /\ wire' = (wire \o X) \o Y
  /\ dw' = << >>
  /\ high' = H \o R
  /\ H # << >> => Y = << >> /\ R = << >>
  /\ Tidy(H) /\ Tidy(R) /\ Stream(low')
  /\ room' \in 0..Capacity
  /\ conn = "gone" => dw \o high = << >> /\ low = << >>

Fails ==
  /\ conn = "gone"
  /\ Invalidate((dw \o high) \o low)
  /\ UNCHANGED <<room, wire>>

LEMMA SendBufferCases ==
  ASSUME Lists, SendBuffer
  PROVE  /\ holder = None
         /\ \/ Fails
            \/ /\ \E X, H, Y, R : Flushed(X, H, Y, R)
               /\ dropped' = dropped
               /\ \/ type' = type
                  \/ type = "halfclose" /\ type' = "invalid" /\ high' = << >> /\ low' = << >>
<1> DEFINE n == Min({room, Len(Unsent)})
           h == SubSeq(Unsent, n + 1, Len(Unsent))
           k == IF h = << >> THEN Min({room - n, Len(low)}) ELSE 0
           l == SubSeq(low, k + 1, Len(low))
           raise == h = << >> /\ Uncomplete(l)
           rest == (Size - l[1][2]) + 1
           X == SubSeq(Unsent, 1, n)
           Y == SubSeq(low, 1, k)
           U == Unsent
<1>0. holder = None
  BY DEF SendBuffer
<1>1. U \in Seq(Byte) /\ Tidy(U) /\ U = dw \o high /\ Len(U) \in Nat
  BY UnsentTidy
<1>2. low \in Seq(Byte) /\ Len(low) \in Nat /\ Tidy(low) /\ Starts(low) /\ room \in 0..Capacity
      /\ Capacity \in Nat
  BY WriteAssumption DEF Lists, Stream
<1>3. n \in 0..Len(U) /\ n <= room
  <2>1. Len(Unsent) \in Int /\ Len(Unsent) >= 0 /\ room \in Int /\ room >= 0
    BY <1>1, <1>2
  <2>2. n = IF room <= Len(Unsent) THEN room ELSE Len(Unsent)
    BY ONLY <2>1, MinTwo
  <2>3. QED
    BY <2>1, <2>2
<1>4. k \in 0..Len(low) /\ (h # << >> => k = 0) /\ (room - n) - k \in 0..Capacity
  <2> HIDE DEF n
  <2>1. CASE h = << >>
    BY <1>2, <1>3, <2>1, MinTwo
  <2>2. CASE h # << >>
    BY <1>2, <1>3, <2>2
  <2>3. QED
    BY <2>1, <2>2
<1>5. X \in Seq(Byte) /\ h \in Seq(Byte) /\ X \o h = U
  <2> HIDE DEF n
  <2>1. QED
    BY <1>1, <1>3, Split
<1>6. Y \in Seq(Byte) /\ l \in Seq(Byte) /\ Y \o l = low /\ (k = 0 => Y = << >> /\ l = low)
  <2> HIDE DEF k
  <2>1. Y \in Seq(Byte) /\ l \in Seq(Byte) /\ Y \o l = low
    BY <1>2, <1>4, Split
  <2>2. ASSUME k = 0 PROVE Y = << >> /\ l = low
    <3>1. Y = << >>
      BY <2>2, <1>2
    <3>2. QED
      BY <2>1, <3>1, Nothing
  <2>3. QED
    BY <2>1, <2>2
<1>7. \/ Fails
      \/ /\ conn # "gone" \/ U \o low = << >>
         /\ wire' = (wire \o X) \o Y
         /\ room' = (room - n) - k
         /\ IF h \o l = << >> /\ type = "halfclose"
            THEN Invalidate(<< >>)
            ELSE /\ dw' = << >>
                 /\ high' = IF raise THEN SubSeq(l, 1, rest) ELSE h
                 /\ low' = IF raise THEN SubSeq(l, rest + 1, Len(l)) ELSE l
                 /\ epollout' = (epollout /\ h \o l # << >>)
                 /\ UNCHANGED <<type, dropped>>
  <2>1. U = dw \o high
    BY <1>1
  <2>2. QED
    BY <2>1 DEF SendBuffer, Fails
<1> HIDE DEF n, h, k, l, X, Y, U
<1>8. Tidy(h) /\ Tidy(l)
  BY <1>1, <1>2, <1>5, <1>6, TidyBack
<1>9. SUFFICES ASSUME ~Fails
               PROVE  /\ \E x, g, y, r : Flushed(x, g, y, r)
                      /\ dropped' = dropped
                      /\ \/ type' = type
                         \/ type = "halfclose" /\ type' = "invalid" /\ high' = << >> /\ low' = << >>
  BY <1>0
<1>10. /\ conn # "gone" \/ U \o low = << >>
       /\ wire' = (wire \o X) \o Y
       /\ room' \in 0..Capacity
       /\ h # << >> => Y = << >> /\ l = low
       /\ conn = "gone" => dw \o high = << >> /\ low = << >>
  <2>1. U \o low = << >> => U = << >> /\ low = << >>
    BY <1>1, <1>2
  <2>2. QED
    BY <1>1, <1>4, <1>6, <1>7, <1>9, <2>1
<1>11. CASE h \o l = << >> /\ type = "halfclose"
  <2>1. Invalidate(<< >>)
    BY <1>7, <1>9, <1>11
  <2>2. h = << >> /\ l = << >>
    BY <1>5, <1>6, <1>11
  <2>3. type' = "invalid" /\ dropped' = dropped /\ high' = << >> /\ low' = << >> /\ dw' = << >>
    BY <2>1 DEF Invalidate, PackagesOf
  <2>4. Flushed(X, << >>, Y, << >>)
    BY <1>1, <1>5, <1>6, <1>10, <2>2, <2>3, EmptyTidy, Nothing DEF Flushed
  <2>5. QED
    BY <1>11, <2>3, <2>4
<1>12. CASE ~(h \o l = << >> /\ type = "halfclose")
  <2>1. /\ dw' = << >>
        /\ high' = IF raise THEN SubSeq(l, 1, rest) ELSE h
        /\ low' = IF raise THEN SubSeq(l, rest + 1, Len(l)) ELSE l
        /\ UNCHANGED <<type, dropped>>
    BY <1>7, <1>9, <1>12
  <2>2. CASE raise
    <3> DEFINE R == SubSeq(l, 1, rest)
               L == SubSeq(l, rest + 1, Len(l))
    <3>1. h = << >> /\ l # << >> /\ high' = R /\ low' = L
      BY <2>1, <2>2 DEF Uncomplete
    <3>2. R \in Seq(Byte) /\ L \in Seq(Byte) /\ l = R \o L /\ Tidy(R) /\ Stream(L)
      BY <1>6, <1>8, <3>1, HeadPart
    <3> HIDE DEF R, L, raise
    <3>3. Flushed(X, << >>, Y, R)
      BY <1>1, <1>5, <1>6, <1>10, <2>1, <3>1, <3>2, EmptyTidy, Nothing DEF Flushed
    <3>4. QED
      BY <2>1, <3>3
  <2>3. CASE ~raise
    <3>1. high' = h /\ low' = l
      BY <2>1, <2>3
    <3>2. Starts(l)
      <4>1. CASE h # << >>
        BY <1>2, <1>10, <4>1
      <4>2. CASE h = << >>
        <5>1. ~Uncomplete(l)
          BY <2>3, <4>2
        <5>2. l # << >> => 1 \in 1..Len(l)
          BY <1>6
        <5>3. l # << >> => l[1][2] \in 1..Size /\ ~(l[1][2] > 1)
          BY <1>6, <5>1, <5>2, ByteOf DEF Uncomplete
        <5>4. QED
          BY <5>3, SizePositive DEF Starts
      <4>3. QED
        BY <4>1, <4>2
    <3> HIDE DEF raise
    <3>3. Flushed(X, h, Y, << >>)
      BY <1>1, <1>5, <1>6, <1>8, <1>10, <2>1, <3>1, <3>2, EmptyTidy, Nothing DEF Flushed, Stream
    <3>4. QED
      BY <2>1, <3>3
  <2>4. QED
    BY <2>2, <2>3
<1> QED
  BY <1>11, <1>12
\* What a direct write does: the bytes X of the package are written, the bytes
\* Y are left in dw_buffer.
Wrote(t, X, Y) ==
  /\ X \in Seq(Byte) /\ Y \in Seq(Byte)
  /\ Bytes(hand[t]) = X \o Y
  /\ wire' = wire \o X
  /\ dw' = Y
  /\ room' \in 0..Capacity
  /\ conn = "gone" => X = << >>
  /\ IF Y = << >> THEN holder' = None /\ Done(t)
                  ELSE UNCHANGED <<holder, hand, sent>> /\ Goto(t, "enable")

LEMMA DirectWriteCases ==
  ASSUME Lists, NEW t \in Thread, hand[t] \in Package, DirectWrite(t)
  PROVE  \E X, Y : Wrote(t, X, Y)
<1> DEFINE b == Bytes(hand[t])
           n == IF conn = "gone" THEN 0 ELSE Min({room, Size})
           X == SubSeq(b, 1, n)
           Y == SubSeq(b, n + 1, Size)
<1>1. b \in Seq(Byte) /\ Len(b) = Size /\ Size \in Nat /\ Size > 0
  BY BytesStream, SizePositive
<1>2. room \in 0..Capacity /\ Capacity \in Nat
  BY WriteAssumption DEF Lists
<1>3. n \in 0..Size /\ room - n \in 0..Capacity
  <2>1. room \in Int /\ Size \in Int /\ room >= 0 /\ Size >= 0
    BY <1>1, <1>2
  <2>2. Min({room, Size}) = IF room <= Size THEN room ELSE Size
    BY ONLY <2>1, MinTwo
  <2>3. QED
    BY <1>1, <1>2, <2>1, <2>2
<1>4. /\ wire' = wire \o X
      /\ room' = room - n
      /\ dw' = Y
      /\ IF n = Size THEN holder' = None /\ Done(t)
                     ELSE UNCHANGED <<holder, hand, sent>> /\ Goto(t, "enable")
  BY DEF DirectWrite
<1>5. conn = "gone" => n = 0
  OBVIOUS
<1> HIDE DEF n, b
<1>6. X \in Seq(Byte) /\ Y \in Seq(Byte) /\ X \o Y = b /\ Len(X) = n /\ Len(Y) = Size - n
  BY <1>1, <1>3, Split
<1> HIDE DEF X, Y
<1>7. (n = Size <=> Y = << >>) /\ (n = 0 => X = << >>)
  BY <1>1, <1>3, <1>6
<1>8. Wrote(t, X, Y)
  BY <1>3, <1>4, <1>5, <1>6, <1>7 DEF Wrote, b
<1> QED
  BY <1>8

\* The parts of the invariant that say who holds which package.
InHand ==
  \A t \in Thread : pc[t] # "idle" =>
    /\ hand[t] \in Package \ fresh
    /\ hand[t] \notin Range(sent)
    /\ sender[hand[t]] = <<t, cmd[t]>>
    /\ pc[t] \notin {"count", "command"} => cmd[t] = "D"

SentOnce ==
  /\ fresh \subseteq Package
  /\ sent \in Seq(Package)
  /\ Range(sent) \cap fresh = {}
  /\ \A i, j \in 1..Len(sent) : sent[i] = sent[j] => i = j
  /\ sender \in [Package -> (Thread \X {"D", "P"}) \cup {<< >>}]

Requests ==
  \A i \in 1..Len(pipe) :
    /\ Carries(pipe[i]) => pipe[i][2] \in Range(sent) /\ sender[pipe[i][2]][2] = pipe[i][1]
    /\ ~Carries(pipe[i]) => pipe[i][2] = None

Calls == InHand /\ SentOnce /\ Requests

Base == IInv /\ Shape /\ Calls

LEMMA RangeOf ==
  ASSUME NEW S, NEW s \in Seq(S)
  PROVE  /\ Range(s) \subseteq S
         /\ \A i \in 1..Len(s) : s[i] \in Range(s)
         /\ \A x \in Range(s) : \E i \in 1..Len(s) : s[i] = x
         /\ \A x \in S : Range(Append(s, x)) = Range(s) \cup {x}
<1>1. Range(s) = {s[i] : i \in 1..Len(s)}
  BY DEF Range
<1>2. ASSUME NEW x \in S PROVE Range(Append(s, x)) = Range(s) \cup {x}
  <2> DEFINE a == Append(s, x)
  <2>1. Len(s) \in Nat /\ a \in Seq(S) /\ Len(a) = Len(s) + 1 /\ a[Len(s) + 1] = x
        /\ \A i \in 1..Len(s) : a[i] = s[i]
    BY <1>2
  <2> HIDE DEF a
  <2>2. Range(a) = {a[i] : i \in 1..(Len(s) + 1)}
    BY <2>1 DEF Range
  <2>3. \A y \in Range(a) : y \in Range(s) \cup {x}
    <3> SUFFICES ASSUME NEW i \in 1..(Len(s) + 1) PROVE a[i] \in Range(s) \cup {x}
      BY <2>2
    <3>1. i \in 1..Len(s) \/ i = Len(s) + 1
      BY <2>1
    <3>2. QED
      BY <1>1, <2>1, <3>1
  <2>4. \A y \in Range(s) \cup {x} : y \in Range(a)
    <3>1. x \in Range(a)
      BY <2>1, <2>2
    <3>2. \A i \in 1..Len(s) : i \in 1..(Len(s) + 1) /\ s[i] = a[i]
      BY <2>1
    <3>3. \A i \in 1..Len(s) : s[i] \in Range(a)
      BY <2>2, <3>2
    <3>4. QED
      BY <1>1, <3>1, <3>3
  <2>5. QED
    BY <2>3, <2>4 DEF a
<1> QED
  BY <1>1, <1>2

\* The package of the command at the head of the pipe.
LEMMA HeadRequest ==
  ASSUME Base, pipe # << >>
  PROVE  /\ 1 \in 1..Len(pipe) /\ Head(pipe) = pipe[1] /\ Head(pipe) \in Request
         /\ Carries(Head(pipe)) =>
              Head(pipe)[2] \in Package /\ Head(pipe)[2] \notin fresh
<1>1. pipe \in Seq(Request)
  BY DEF Base, IInv, PathType
<1>2. 1 \in 1..Len(pipe) /\ Head(pipe) = pipe[1] /\ Head(pipe) \in Request
  BY <1>1
<1>3. Carries(Head(pipe)) => Head(pipe)[2] \in Range(sent)
  BY <1>2 DEF Base, Calls, Requests
<1>4. Range(sent) \subseteq Package /\ Range(sent) \cap fresh = {}
  BY RangeOf DEF Base, Calls, SentOnce
<1> QED
  BY <1>2, <1>3, <1>4

LEMMA CtrlSendPackage ==
  ASSUME Base, CtrlSend
  PROVE  /\ pipe # << >> /\ Carries(Head(pipe)) /\ Head(pipe)[2] \in Package
         /\ Head(pipe)[2] \notin fresh /\ pipe' = Tail(pipe)
<1>1. pipe # << >> /\ Carries(Head(pipe)) /\ pipe' = Tail(pipe)
  BY DEF CtrlSend, Command, Carries
<1> QED
  BY <1>1, HeadRequest
-----------------------------------------------------------------------------
(* Each part of the invariant is kept.                                     *)

LEMMA ListsAfterSendBuffer ==
  ASSUME Lists, SendBuffer
  PROVE  Lists'
<1>1. CASE Fails
  BY <1>1, EmptyTidy, Nothing DEF Fails, Invalidate, Lists
<1>2. CASE \E X, H, Y, R : Flushed(X, H, Y, R)
  <2>1. PICK X, H, Y, R : Flushed(X, H, Y, R)
    BY <1>2
  <2>2. high' \in Seq(Byte) /\ Tidy(high')
    <3>1. CASE H = << >>
      BY <2>1, <3>1, Nothing DEF Flushed
    <3>2. CASE H # << >>
      BY <2>1, <3>2, Nothing DEF Flushed
    <3>3. QED
      BY <3>1, <3>2
  <2>3. wire' \in Seq(Byte)
    BY <2>1, Joined DEF Flushed, Lists
  <2>4. QED
    BY <2>1, <2>2, <2>3, EmptyTidy, Nothing DEF Flushed, Lists
<1> QED
  BY <1>1, <1>2, SendBufferCases

LEMMA ListsKept ==
  ASSUME Lists, UNCHANGED <<high, low, dw, wire>>, room' \in 0..Capacity
  PROVE  Lists'
BY DEF Lists

LEMMA ListsEmptied ==
  ASSUME Lists, FreeLists, UNCHANGED <<dw, wire, room>>
  PROVE  Lists'
BY EmptyTidy, Nothing DEF FreeLists, Lists, Starts

LEMMA ListsStep == Base /\ [Next]_vars => Lists'
<1> SUFFICES ASSUME Base, [Next]_vars PROVE Lists'
  OBVIOUS
<1>0. Lists /\ Calls /\ IInv /\ Lock /\ room \in 0..Capacity /\ Capacity \in Nat
  BY WriteAssumption DEF Base, Shape, Lists
<1>1. ASSUME NEW t \in Thread, NEW m \in Package, NEW c \in {"D", "P"}, Send(t, m, c)
      PROVE  Lists'
  BY <1>0, <1>1, ListsKept DEF Send, socket, peer
<1>2. ASSUME NEW t \in Thread, SendStep(t)
      PROVE  Lists'
  <2>1. CASE DirectWrite(t)
    <3>1. hand[t] \in Package /\ dw = << >> /\ Starts(high) /\ UNCHANGED <<high, low>>
      BY <1>0, <2>1 DEF DirectWrite, Calls, InHand, Lock
    <3>2. PICK X, Y : Wrote(t, X, Y)
      BY <1>0, <2>1, <3>1, DirectWriteCases
    <3>3. Tidy(Y)
      BY <3>1, <3>2, BytesStream, TidyBack DEF Wrote, Stream
    <3>4. wire' \in Seq(Byte)
      BY <1>0, <3>2, Joined DEF Wrote, Lists
    <3>5. QED
      BY <1>0, <3>1, <3>2, <3>3, <3>4 DEF Wrote, Lists
  <2>2. CASE ~DirectWrite(t)
    <3>1. UNCHANGED <<high, low, dw, wire, room>>
      BY <1>2, <2>2 DEF SendStep, Peek, TryLock, Look, DoubleCheck, EnableWrite,
         IncSendingRef, SendRequest, socket, peer
    <3>2. QED
      BY <1>0, <3>1, ListsKept
  <2>3. QED
    BY <2>1, <2>2
<1>3. ASSUME NEW t \in Thread, NEW how \in {"K", "shutdown"}, Close(t, how)
      PROVE  Lists'
  BY <1>0, <1>3, ListsKept DEF Close, socket, peer
<1>4. CASE CtrlSend
  <2> DEFINE m == Head(pipe)[2]
  <2>1. m \in Package
    BY <1>4, CtrlSendPackage
  <2>2. UNCHANGED <<dw, wire, room>>
    BY <1>4 DEF CtrlSend, peer
  <2>3. \/ UNCHANGED <<high, low>>
        \/ high = << >> /\ high' = Bytes(m) /\ low' = low
        \/ low' = low \o Bytes(m) /\ high' = high
        \/ high' = high \o Bytes(m) /\ low' = low
    BY <1>4 DEF CtrlSend
  <2> HIDE DEF m
  <2>4. Bytes(m) \in Seq(Byte) /\ Stream(Bytes(m))
    BY <2>1, BytesStream
  <2>5. CASE UNCHANGED <<high, low>>
    BY <1>0, <2>2, <2>5, ListsKept
  <2>6. CASE high = << >> /\ high' = Bytes(m) /\ low' = low
    BY <1>0, <2>2, <2>4, <2>6 DEF Lists, Stream
  <2>7. CASE low' = low \o Bytes(m) /\ high' = high
    BY <1>0, <2>2, <2>4, <2>7, StreamJoin, Joined DEF Lists
  <2>8. CASE high' = high \o Bytes(m) /\ low' = low
    BY <1>0, <2>2, <2>4, <2>8, TidyJoin, StartsJoin, Joined DEF Lists, Stream
  <2>9. QED
    BY <2>3, <2>5, <2>6, <2>7, <2>8
<1>5. CASE CloseSocket
  <2>1. SendBuffer \/ UNCHANGED <<high, low, dw, wire, room>>
    BY <1>5 DEF CloseSocket, socket, peer
  <2>2. QED
    BY <1>0, <2>1, ListsKept, ListsAfterSendBuffer
<1>6. CASE WriteEvent
  BY <1>0, <1>6, ListsAfterSendBuffer DEF WriteEvent
<1>7. CASE CloseDecide \/ ReportConnect \/ ReadEnd
  <2>1. UNCHANGED <<dw, wire, room>> /\ (FreeLists \/ UNCHANGED <<high, low>>)
    BY <1>7 DEF CloseDecide, ReportConnect, ReadEnd, peer
  <2>2. QED
    BY <1>0, <2>1, ListsKept, ListsEmptied
<1>8. CASE ForceClose
  BY <1>0, <1>8, EmptyTidy, Nothing DEF ForceClose, Invalidate, Lists, peer
<1>9. CASE DecSendingRef \/ ConnectNomore \/ DisableWrite
  <2>1. UNCHANGED <<high, low, dw, wire, room>>
    BY <1>9 DEF DecSendingRef, ConnectNomore, DisableWrite, socket, peer
  <2>2. QED
    BY <1>0, <2>1, ListsKept
<1>10. CASE Connected \/ PeerReads \/ PeerEnds \/ PeerFails \/ UNCHANGED vars
  <2>1. UNCHANGED <<high, low, dw, wire>> /\ room' \in 0..Capacity
    BY <1>0, <1>10 DEF Connected, PeerReads, PeerEnds, PeerFails, vars, socket, peer
  <2>2. QED
    BY <1>0, <2>1, ListsKept
<1> QED
  BY <1>1, <1>2, <1>3, <1>4, <1>5, <1>6, <1>7, <1>8, <1>9, <1>10 DEF Next, SocketThread
\* The steps of a thread in socket_server_send, as far as the lock goes.
LEMMA LockStep == Base /\ [Next]_vars => Lock'
<1> SUFFICES ASSUME Base, [Next]_vars PROVE Lock'
  OBVIOUS
<1>0. Lists /\ Calls /\ PathType /\ Lock /\ None \notin Thread
  BY WriteAssumption DEF Base, IInv, Shape
<1>1. ASSUME NEW t \in Thread, NEW m \in Package, NEW c \in {"D", "P"}, Send(t, m, c)
      PROVE  Lock'
  <2>1. UNCHANGED <<high, dw, holder>> /\ pc[t] = "idle"
        /\ (pc' = pc \/ Goto(t, "peek") \/ Goto(t, "count"))
    BY <1>1 DEF Send, socket
  <2>2. QED
    BY <1>0, <2>1 DEF Lock, Locked, Goto, PathType
<1>2. ASSUME NEW t \in Thread, SendStep(t)
      PROVE  Lock'
  <2>1. CASE Peek(t) \/ IncSendingRef(t)
    <3>1. UNCHANGED <<high, dw, holder>> /\ pc[t] \in {"peek", "count"}
          /\ (Goto(t, "try") \/ Goto(t, "count") \/ Goto(t, "command"))
      BY <2>1 DEF Peek, IncSendingRef, socket
    <3>2. QED
      BY <1>0, <3>1 DEF Lock, Locked, Goto, PathType
  <2>2. CASE TryLock(t)
    <3>1. UNCHANGED <<high, dw>> /\ pc[t] = "try"
          /\ \/ holder = None /\ holder' = t /\ Goto(t, "look")
             \/ holder' = holder /\ Goto(t, "count")
      BY <2>2 DEF TryLock
    <3>2. QED
      BY <1>0, <3>1 DEF Lock, Locked, Goto, PathType
  <2>3. CASE Look(t)
    <3>1. UNCHANGED <<high, dw>> /\ pc[t] = "look"
          /\ \/ dw = << >> /\ high = << >> /\ holder' = holder /\ Goto(t, "double")
             \/ holder' = None /\ Goto(t, "count")
      BY <2>3 DEF Look, NothingBuffered
    <3>2. QED
      BY <1>0, <3>1 DEF Lock, Locked, Goto, PathType, Starts
  <2>4. CASE DoubleCheck(t)
    <3>1. UNCHANGED <<high, dw>> /\ pc[t] = "double"
          /\ \/ holder' = holder /\ Goto(t, "write")
             \/ holder' = None /\ Goto(t, "count")
      BY <2>4 DEF DoubleCheck
    <3>2. QED
      BY <1>0, <3>1 DEF Lock, Locked, Goto, PathType
  <2>5. CASE DirectWrite(t)
    <3>1. pc[t] = "write" /\ UNCHANGED high
          /\ \/ holder' = None /\ Goto(t, "idle")
             \/ holder' = holder /\ Goto(t, "enable")
      BY <2>5 DEF DirectWrite, Done
    <3>2. holder = t
      BY <1>0, <3>1 DEF Lock, Locked
    <3>3. \A u \in Thread : pc'[u] \in {"double", "write"} => u # t /\ pc[u] = pc'[u]
      BY <1>0, <3>1 DEF Goto, PathType
    <3>4. \A u \in Thread : pc'[u] \notin {"double", "write"}
      BY <1>0, <3>2, <3>3 DEF Lock, Locked
    <3>5. QED
      BY <1>0, <3>1, <3>2, <3>4 DEF Lock, Locked, Goto, PathType
  <2>6. CASE EnableWrite(t) \/ SendRequest(t)
    <3>1. UNCHANGED <<high, dw>> /\ Goto(t, "idle")
          /\ \/ pc[t] = "enable" /\ holder' = None
             \/ pc[t] = "command" /\ holder' = holder
      BY <2>6 DEF EnableWrite, SendRequest, Done, socket
    <3>2. QED
      BY <1>0, <3>1 DEF Lock, Locked, Goto, PathType
  <2>7. QED
    BY <1>2, <2>1, <2>2, <2>3, <2>4, <2>5, <2>6 DEF SendStep
<1>3. ASSUME UNCHANGED <<pc, holder>>, UNCHANGED <<high, dw>> \/ holder = None
      PROVE  Lock'
  BY <1>0, <1>3 DEF Lock, Locked
<1>4. CASE CtrlSend
  <2> DEFINE m == Head(pipe)[2]
  <2>1. UNCHANGED <<pc, holder, dw>>
        /\ (high' = high \/ (high = << >> /\ high' = Bytes(m)) \/ high' = high \o Bytes(m))
    BY <1>4 DEF CtrlSend, senders
  <2>2. Bytes(m) \in Seq(Byte) /\ Starts(Bytes(m))
    BY <1>4, CtrlSendPackage, BytesStream DEF Stream
  <2> HIDE DEF m
  <2>3. Starts(high) => Starts(high')
    BY <1>0, <2>1, <2>2, StartsJoin DEF Lists
  <2>4. QED
    BY <1>0, <2>1, <2>3 DEF Lock, Locked
<1>5. CASE CloseDecide \/ ReportConnect \/ ReadEnd
  <2>1. UNCHANGED <<pc, holder, dw>> /\ (high' = << >> \/ high' = high)
    BY <1>5 DEF CloseDecide, ReportConnect, ReadEnd, FreeLists, senders
  <2>2. QED
    BY <1>0, <2>1 DEF Lock, Locked, Starts
<1>6. CASE CloseSocket \/ WriteEvent \/ ForceClose
  <2>1. UNCHANGED <<pc, holder>> /\ (UNCHANGED <<high, dw>> \/ holder = None)
    BY <1>6 DEF CloseSocket, WriteEvent, ForceClose, SendBuffer, senders, socket
  <2>2. QED
    BY <1>3, <2>1
<1>7. CASE DecSendingRef \/ ConnectNomore \/ DisableWrite
  <2>1. UNCHANGED <<pc, holder, high, dw>>
    BY <1>7 DEF DecSendingRef, ConnectNomore, DisableWrite, socket, senders
  <2>2. QED
    BY <1>3, <2>1
<1>8. ASSUME NEW t \in Thread, NEW how \in {"K", "shutdown"}, Close(t, how)
      PROVE  Lock'
  BY <1>3, <1>8 DEF Close, socket, senders
<1>9. CASE Connected \/ PeerReads \/ PeerEnds \/ PeerFails \/ UNCHANGED vars
  <2>1. UNCHANGED <<pc, holder, high, dw>>
    BY <1>9 DEF Connected, PeerReads, PeerEnds, PeerFails, vars, socket, senders
  <2>2. QED
    BY <1>3, <2>1
<1> QED
  BY <1>1, <1>2, <1>4, <1>5, <1>6, <1>7, <1>8, <1>9 DEF Next, SocketThread

LEMMA GoneStep == Base /\ [Next]_vars => Gone'
<1> SUFFICES ASSUME Base, [Next]_vars PROVE Gone'
  OBVIOUS
<1>0. Lists /\ Lock /\ Gone /\ None \notin Thread
  BY WriteAssumption DEF Base, Shape
<1>1. ASSUME UNCHANGED <<type, sp, high, low, dw, holder>> PROVE Gone'
  BY <1>0, <1>1 DEF Gone
<1>2. ASSUME NEW t \in Thread, NEW m \in Package, NEW c \in {"D", "P"}, Send(t, m, c)
      PROVE  Gone'
  BY <1>1, <1>2 DEF Send, socket
<1>3. ASSUME NEW t \in Thread, SendStep(t)
      PROVE  Gone'
  <2>1. UNCHANGED <<type, sp, high, low>>
    BY <1>3 DEF SendStep, Peek, TryLock, Look, DoubleCheck, DirectWrite, EnableWrite,
       IncSendingRef, SendRequest, socket
  <2>2. (dw' = dw /\ holder' = holder) \/ type # "invalid"
    <3>1. CASE Peek(t) \/ IncSendingRef(t) \/ SendRequest(t)
      BY <3>1 DEF Peek, IncSendingRef, SendRequest, socket
    <3>2. CASE TryLock(t)
      BY <3>2 DEF TryLock
    <3>3. CASE Look(t) \/ DoubleCheck(t) \/ DirectWrite(t) \/ EnableWrite(t)
      <4>1. holder = t
        BY <1>0, <3>3 DEF Look, DoubleCheck, DirectWrite, EnableWrite, Lock, Locked
      <4>2. QED
        BY <1>0, <4>1 DEF Gone
    <3>4. QED
      BY <1>3, <3>1, <3>2, <3>3 DEF SendStep
  <2>3. QED
    BY <1>0, <2>1, <2>2 DEF Gone
<1>4. ASSUME NEW t \in Thread, NEW how \in {"K", "shutdown"}, Close(t, how)
      PROVE  Gone'
  BY <1>1, <1>4 DEF Close, socket
<1>5. CASE CtrlSend
  <2>1. sp = "poll" /\ sp' = "dec" /\ UNCHANGED <<type, dw, holder>>
        /\ (type # "invalid" \/ UNCHANGED <<high, low>>)
    BY <1>5 DEF CtrlSend, Command
  <2>2. QED
    BY <1>0, <2>1 DEF Gone
<1>6. CASE CloseSocket
  <2>1. CASE type = "invalid"
    BY <1>0, <1>1, <1>6, <2>1 DEF CloseSocket, socket
  <2>2. CASE type # "invalid"
    <3>1. sp' = (IF type' = "invalid" THEN "poll" ELSE "decide") /\ holder' = holder
          /\ (SendBuffer \/ type' = type)
      BY <1>6, <2>2 DEF CloseSocket
    <3>2. ASSUME SendBuffer, type' = "invalid"
          PROVE  high' = << >> /\ low' = << >> /\ dw' = << >> /\ holder = None
      BY <1>0, <2>2, <3>2, SendBufferCases DEF Fails, Invalidate, Flushed
    <3>3. QED
      BY <2>2, <3>1, <3>2 DEF Gone
  <2>3. QED
    BY <2>1, <2>2
<1>7. CASE WriteEvent
  <2>1. SendBuffer /\ UNCHANGED <<sp, holder>> /\ sp = "poll" /\ type # "invalid"
    BY <1>7 DEF WriteEvent, Writable
  <2>2. type' = "invalid" => high' = << >> /\ low' = << >> /\ dw' = << >> /\ holder = None
    BY <1>0, <2>1, SendBufferCases DEF Fails, Invalidate, Flushed
  <2>3. QED
    BY <2>1, <2>2 DEF Gone
<1>8. CASE CloseDecide \/ ReportConnect \/ ReadEnd
  <2>1. type # "invalid" /\ type' # "invalid" /\ holder' = holder
        /\ (sp' \in {"poll", "opened"} \/ FreeLists)
    BY <1>0, <1>8 DEF CloseDecide, ReportConnect, ReadEnd, Gone
  <2>2. QED
    BY <2>1 DEF FreeLists, Gone
<1>9. CASE ForceClose
  BY <1>9 DEF ForceClose, Invalidate, Gone
<1>10. CASE DecSendingRef \/ ConnectNomore \/ DisableWrite
  <2>1. UNCHANGED <<type, high, low, dw, holder>> /\ sp' \in {"poll", "disable"}
    BY <1>10 DEF DecSendingRef, ConnectNomore, DisableWrite, socket
  <2>2. QED
    BY <1>0, <2>1 DEF Gone
<1>11. CASE Connected \/ PeerReads \/ PeerEnds \/ PeerFails \/ UNCHANGED vars
  <2>1. UNCHANGED <<type, sp, high, low, dw, holder>>
    BY <1>11 DEF Connected, PeerReads, PeerEnds, PeerFails, vars, socket
  <2>2. QED
    BY <1>1, <2>1
<1> QED
  BY <1>2, <1>3, <1>4, <1>5, <1>6, <1>7, <1>8, <1>9, <1>10, <1>11 DEF Next, SocketThread
\* A call that returns.
LEMMA DoneSent ==
  ASSUME Base, NEW t \in Thread, pc[t] # "idle", sent' = Append(sent, hand[t])
  PROVE  /\ hand[t] \in Package /\ hand[t] \notin fresh /\ hand[t] \notin Range(sent)
         /\ Range(sent') = Range(sent) \cup {hand[t]}
         /\ sent' \in Seq(Package)
         /\ Len(sent) \in Nat /\ Len(sent') = Len(sent) + 1 /\ sent'[Len(sent) + 1] = hand[t]
         /\ \A i \in 1..Len(sent) : sent'[i] = sent[i] /\ sent[i] \in Range(sent)
<1>1. hand[t] \in Package /\ hand[t] \notin fresh /\ hand[t] \notin Range(sent) /\ sent \in Seq(Package)
  BY DEF Base, Calls, InHand, SentOnce
<1>2. Range(sent') = Range(sent) \cup {hand[t]} /\ \A i \in 1..Len(sent) : sent[i] \in Range(sent)
  BY <1>1, RangeOf
<1>3. /\ sent' \in Seq(Package)
      /\ Len(sent) \in Nat /\ Len(sent') = Len(sent) + 1 /\ sent'[Len(sent) + 1] = hand[t]
      /\ \A i \in 1..Len(sent) : sent'[i] = sent[i]
  BY <1>1
<1> QED
  BY <1>1, <1>2, <1>3

LEMMA TwoHands ==
  ASSUME InHand, NEW t \in Thread, NEW u \in Thread, pc[t] # "idle", pc[u] # "idle",
         hand[t] = hand[u]
  PROVE  t = u
<1>1. sender[hand[t]] = <<t, cmd[t]>> /\ sender[hand[u]] = <<u, cmd[u]>>
  BY DEF InHand
<1> QED
  BY <1>1

\* The steps that end a call, and those that do not.
LEMMA SendSteps ==
  ASSUME NEW t \in Thread, SendStep(t)
  PROVE  /\ pc[t] # "idle" /\ UNCHANGED <<cmd, fresh, sender>>
         /\ \/ Done(t)
            \/ /\ UNCHANGED <<hand, sent>>
               /\ pc[t] \in {"peek", "try", "look", "double", "write", "count"}
               /\ \/ Goto(t, "count") \/ Goto(t, "command")
                  \/ pc[t] # "count" /\ (Goto(t, "try") \/ Goto(t, "look") \/ Goto(t, "double")
                                         \/ Goto(t, "write") \/ Goto(t, "enable"))
<1>1. CASE Peek(t) \/ TryLock(t) \/ Look(t) \/ DoubleCheck(t)
  BY <1>1 DEF Peek, TryLock, Look, DoubleCheck
<1>2. CASE DirectWrite(t)
  BY <1>2 DEF DirectWrite
<1>3. CASE EnableWrite(t) \/ IncSendingRef(t) \/ SendRequest(t)
  BY <1>3 DEF EnableWrite, IncSendingRef, SendRequest
<1> QED
  BY <1>1, <1>2, <1>3 DEF SendStep

LEMMA CallsStep == Base /\ [Next]_vars => InHand' /\ SentOnce'
<1> SUFFICES ASSUME Base, [Next]_vars PROVE InHand' /\ SentOnce'
  OBVIOUS
<1>0. PathType /\ InHand /\ SentOnce
  BY DEF Base, IInv, Calls
<1>1. ASSUME NEW t \in Thread, NEW m \in Package, NEW c \in {"D", "P"}, Send(t, m, c)
      PROVE  InHand' /\ SentOnce'
  <2>1. /\ m \in fresh /\ fresh' = fresh \ {m} /\ sent' = sent
        /\ sender' = [sender EXCEPT ![m] = <<t, c>>]
        /\ \/ UNCHANGED <<pc, hand, cmd>>
           \/ /\ hand' = [hand EXCEPT ![t] = m]
              /\ cmd' = [cmd EXCEPT ![t] = c]
              /\ pc' = [pc EXCEPT ![t] = IF c = "D" THEN "peek" ELSE "count"]
    BY <1>1 DEF Send, Goto
  <2>2. SentOnce'
    BY <1>0, <2>1 DEF SentOnce
  <2>3. m \notin Range(sent)
    BY <1>0, <2>1 DEF SentOnce
  <2>4. \A u \in Thread : pc[u] # "idle" => sender'[hand[u]] = sender[hand[u]]
    BY <1>0, <2>1 DEF InHand, SentOnce
  <2>5. CASE UNCHANGED <<pc, hand, cmd>>
    <3>1. ASSUME NEW u \in Thread, pc[u] # "idle"
          PROVE  /\ hand[u] \in Package \ fresh'
                 /\ hand[u] \notin Range(sent)
                 /\ sender'[hand[u]] = <<u, cmd[u]>>
                 /\ pc[u] \notin {"count", "command"} => cmd[u] = "D"
      <4>1. fresh' = fresh \ {m} /\ sender'[hand[u]] = sender[hand[u]]
        BY <2>1, <2>4, <3>1
      <4>2. QED
        BY <1>0, <3>1, <4>1 DEF InHand
    <3>2. UNCHANGED <<pc, hand, cmd, sent>>
      BY <2>1, <2>5
    <3>3. InHand'
      BY <3>1, <3>2 DEF InHand
    <3>4. QED
      BY <2>2, <3>3
  <2>6. CASE /\ hand' = [hand EXCEPT ![t] = m]
             /\ cmd' = [cmd EXCEPT ![t] = c]
             /\ pc' = [pc EXCEPT ![t] = IF c = "D" THEN "peek" ELSE "count"]
    <3>1. /\ hand'[t] = m /\ cmd'[t] = c /\ pc'[t] = (IF c = "D" THEN "peek" ELSE "count")
          /\ \A u \in Thread \ {t} : hand'[u] = hand[u] /\ cmd'[u] = cmd[u] /\ pc'[u] = pc[u]
      BY <1>0, <2>6 DEF PathType
    <3>2. sender'[m] = <<t, c>>
      BY <1>0, <2>1 DEF SentOnce
    <3>3. ASSUME NEW u \in Thread, pc'[u] # "idle"
          PROVE  /\ hand'[u] \in Package \ fresh'
                 /\ hand'[u] \notin Range(sent')
                 /\ sender'[hand'[u]] = <<u, cmd'[u]>>
                 /\ pc'[u] \notin {"count", "command"} => cmd'[u] = "D"
      <4>1. CASE u = t
        BY <2>1, <2>3, <3>1, <3>2, <4>1
      <4>2. CASE u # t
        <5>1. hand'[u] = hand[u] /\ cmd'[u] = cmd[u] /\ pc'[u] = pc[u]
          BY <3>1, <4>2
        <5>2. /\ hand[u] \in Package /\ hand[u] \notin fresh /\ hand[u] \notin Range(sent)
              /\ sender[hand[u]] = <<u, cmd[u]>>
              /\ pc[u] \notin {"count", "command"} => cmd[u] = "D"
          BY <1>0, <3>3, <5>1 DEF InHand
        <5>3. fresh' = fresh \ {m} /\ sent' = sent /\ sender'[hand[u]] = sender[hand[u]]
          BY <2>1, <2>4, <5>2
        <5>4. QED
          BY <5>1, <5>2, <5>3
      <4>3. QED
        BY <4>1, <4>2
    <3>4. QED
      BY <2>2, <3>3 DEF InHand
  <2>7. QED
    BY <2>1, <2>2, <2>5, <2>6
<1>2. ASSUME NEW t \in Thread, SendStep(t)
      PROVE  InHand' /\ SentOnce'
  <2>1. pc[t] # "idle" /\ UNCHANGED <<cmd, fresh, sender>>
    BY <1>2, SendSteps
  <2>2. CASE Done(t)
    <3>1. sent' = Append(sent, hand[t]) /\ hand' = [hand EXCEPT ![t] = None]
          /\ pc' = [pc EXCEPT ![t] = "idle"]
      BY <2>2 DEF Done, Goto
    <3>2. /\ hand[t] \in Package /\ hand[t] \notin fresh /\ hand[t] \notin Range(sent)
          /\ Range(sent') = Range(sent) \cup {hand[t]}
          /\ sent' \in Seq(Package)
          /\ Len(sent) \in Nat /\ Len(sent') = Len(sent) + 1 /\ sent'[Len(sent) + 1] = hand[t]
          /\ \A i \in 1..Len(sent) : sent'[i] = sent[i] /\ sent[i] \in Range(sent)
      BY <2>1, <3>1, DoneSent
    <3>3. SentOnce'
      <4>1. \A i, j \in 1..Len(sent') : sent'[i] = sent'[j] => i = j
        BY <1>0, <3>2 DEF SentOnce
      <4>2. Range(sent') \cap fresh' = {}
        BY <1>0, <2>1, <3>2 DEF SentOnce
      <4>3. QED
        BY <1>0, <2>1, <3>2, <4>1, <4>2 DEF SentOnce
    <3>4. \A u \in Thread : pc'[u] # "idle" => u # t /\ pc'[u] = pc[u] /\ hand'[u] = hand[u]
      BY <1>0, <3>1 DEF PathType
    <3>5. \A u \in Thread : pc'[u] # "idle" => hand[u] # hand[t]
      BY <1>0, <2>1, <3>4, TwoHands
    <3>6. InHand'
      BY <1>0, <2>1, <3>2, <3>4, <3>5 DEF InHand
    <3>7. QED
      BY <3>3, <3>6
  <2>3. CASE ~Done(t)
    <3>1. UNCHANGED <<hand, sent>>
      BY <1>2, <2>3, SendSteps
    <3>2. \A u \in Thread : /\ pc'[u] # "idle" => pc[u] # "idle"
                            /\ pc'[u] \notin {"count", "command"} /\ pc'[u] # "idle"
                                 => pc[u] \notin {"count", "command"}
      BY <1>0, <1>2, <2>3, SendSteps DEF Goto, PathType
    <3>3. QED
      BY <1>0, <2>1, <3>1, <3>2 DEF InHand, SentOnce
  <2>4. QED
    BY <2>2, <2>3
<1>3. ASSUME UNCHANGED senders PROVE InHand' /\ SentOnce'
  BY <1>0, <1>3 DEF senders, InHand, SentOnce
<1>4. CASE SocketThread
  BY <1>3, <1>4 DEF SocketThread, ForceClose, CtrlSend, DecSendingRef, CloseSocket, CloseDecide,
     ReportConnect, ConnectNomore, DisableWrite, WriteEvent, ReadEnd
<1>5. ASSUME NEW t \in Thread, NEW how \in {"K", "shutdown"}, Close(t, how)
      PROVE  InHand' /\ SentOnce'
  BY <1>3, <1>5 DEF Close
<1>6. CASE Connected \/ PeerReads \/ PeerEnds \/ PeerFails \/ UNCHANGED vars
  BY <1>3, <1>6 DEF Connected, PeerReads, PeerEnds, PeerFails, vars
<1> QED
  BY <1>1, <1>2, <1>4, <1>5, <1>6 DEF Next

\* What the commands of a pipe have in common is kept when one is written or
\* read.
Fits(c, R, f) ==
  /\ Carries(c) => c[2] \in R /\ f[c[2]][2] = c[1]
  /\ ~Carries(c) => c[2] = None

LEMMA RequestsFit == Requests <=> \A i \in 1..Len(pipe) : Fits(pipe[i], Range(sent), sender)
BY DEF Requests, Fits

LEMMA RequestsStep == Base /\ [Next]_vars => Requests'
<1> SUFFICES ASSUME Base, [Next]_vars PROVE Requests'
  OBVIOUS
<1>0. /\ PathType /\ InHand /\ SentOnce /\ pipe \in Seq(Request)
      /\ \A i \in 1..Len(pipe) : Fits(pipe[i], Range(sent), sender)
  BY RequestsFit DEF Base, IInv, Calls, PathType
<1>1. SUFFICES \A i \in 1..Len(pipe') : Fits(pipe'[i], Range(sent'), sender')
  BY DEF Requests, Fits
<1>2. ASSUME NEW R, NEW f, Range(sent) \subseteq R, \A m \in Range(sent) : f[m] = sender[m]
      PROVE  \A i \in 1..Len(pipe) : Fits(pipe[i], R, f)
  BY <1>0, <1>2 DEF Fits
<1>3. ASSUME NEW t \in Thread, NEW m \in Package, NEW c \in {"D", "P"}, Send(t, m, c)
      PROVE  \A i \in 1..Len(pipe') : Fits(pipe'[i], Range(sent'), sender')
  <2>1. m \in fresh /\ UNCHANGED <<pipe, sent>> /\ sender' = [sender EXCEPT ![m] = <<t, c>>]
    BY <1>3 DEF Send
  <2>2. Range(sent) \subseteq Package
    BY <1>0, RangeOf DEF SentOnce
  <2>3. \A k \in Range(sent) : sender'[k] = sender[k]
    BY <1>0, <2>1, <2>2 DEF SentOnce
  <2>4. QED
    BY <1>2, <2>1, <2>3
<1>4. ASSUME NEW t \in Thread, SendStep(t)
      PROVE  \A i \in 1..Len(pipe') : Fits(pipe'[i], Range(sent'), sender')
  <2>1. pc[t] # "idle" /\ sender' = sender
    BY <1>4, SendSteps
  <2>2. Range(sent) \subseteq Range(sent')
    BY <1>4, <2>1, SendSteps, DoneSent DEF Done
  <2>3. \A i \in 1..Len(pipe) : Fits(pipe[i], Range(sent'), sender')
    BY <1>2, <2>1, <2>2
  <2>4. CASE SendRequest(t)
    <3>1. pipe' = Append(pipe, <<cmd[t], hand[t]>>) /\ Done(t)
      BY <2>4 DEF SendRequest
    <3>2. hand[t] \in Range(sent')
      BY <2>1, <3>1, DoneSent DEF Done
    <3>3. Fits(<<cmd[t], hand[t]>>, Range(sent'), sender')
      BY <1>0, <2>1, <3>2 DEF Fits, Carries, InHand, PathType
    <3>4. QED
      BY <1>0, <2>3, <3>1, <3>3
  <2>5. CASE pipe' = pipe
    BY <2>3, <2>5
  <2>6. QED
    BY <1>4, <2>4, <2>5 DEF SendStep, Peek, TryLock, Look, DoubleCheck, DirectWrite,
       EnableWrite, IncSendingRef
<1>5. ASSUME NEW t \in Thread, NEW how \in {"K", "shutdown"}, Close(t, how)
      PROVE  \A i \in 1..Len(pipe') : Fits(pipe'[i], Range(sent'), sender')
  <2>1. pipe' = Append(pipe, <<how, None>>) /\ UNCHANGED <<sent, sender>>
    BY <1>5 DEF Close, senders
  <2>2. Fits(<<how, None>>, Range(sent'), sender')
    BY DEF Fits, Carries
  <2>3. QED
    BY <1>0, <2>1, <2>2
<1>6. CASE CtrlSend \/ CloseSocket
  <2>1. pipe # << >> /\ pipe' = Tail(pipe) /\ UNCHANGED <<sent, sender>>
    BY <1>6 DEF CtrlSend, CloseSocket, Command, senders
  <2>2. QED
    BY <1>0, <2>1
<1>7. ASSUME UNCHANGED <<pipe, sent, sender>>
      PROVE  \A i \in 1..Len(pipe') : Fits(pipe'[i], Range(sent'), sender')
  BY <1>0, <1>7
<1>8. CASE ForceClose \/ DecSendingRef \/ CloseDecide \/ ReportConnect \/ ConnectNomore
             \/ DisableWrite \/ WriteEvent \/ ReadEnd
  BY <1>7, <1>8 DEF ForceClose, DecSendingRef, CloseDecide, ReportConnect, ConnectNomore,
     DisableWrite, WriteEvent, ReadEnd, senders
<1>9. CASE Connected \/ PeerReads \/ PeerEnds \/ PeerFails \/ UNCHANGED vars
  BY <1>7, <1>9 DEF Connected, PeerReads, PeerEnds, PeerFails, vars, senders
<1> QED
  BY <1>3, <1>4, <1>5, <1>6, <1>8, <1>9 DEF Next, SocketThread

LEMMA BaseInvariant == Safety => []Base
<1>1. Init => Base
  <2> SUFFICES ASSUME Init PROVE Base
    OBVIOUS
  <2>1. IInv
    BY PathInit
  <2>2. Shape
    <3>1. high = << >> /\ low = << >> /\ dw = << >> /\ wire = << >> /\ room \in 0..Capacity
          /\ holder = None /\ sp = "poll" /\ type # "invalid"
          /\ \A t \in Thread : pc[t] = "idle"
      BY WriteAssumption DEF Init
    <3>2. Lists
      BY <3>1, EmptyTidy, Nothing DEF Lists
    <3>3. Lock /\ Gone
      BY <3>1, WriteAssumption DEF Lock, Gone, Locked
    <3>4. QED
      BY <3>2, <3>3 DEF Shape
  <2>3. Calls
    BY DEF Init, Calls, InHand, SentOnce, Requests, Range
  <2>4. QED
    BY <2>1, <2>2, <2>3 DEF Base
<1>2. Base /\ [Next]_vars => Base'
  BY PathStep, ListsStep, LockStep, GoneStep, CallsStep, RequestsStep DEF Base, Shape, Calls
<1> QED
  BY <1>1, <1>2, PTL DEF Safety
-----------------------------------------------------------------------------
(* Where the bytes of a package are.                                       *)

LEMMA CountOf ==
  ASSUME NEW s \in Seq(Byte), NEW b
  PROVE  /\ Count(s, b) \in Nat
         /\ Count(s, b) = 0 <=> \A i \in 1..Len(s) : s[i] # b
         /\ Count(<< >>, b) = 0
<1>1. \A u : Count(u, b) = Cardinality(Hits(u, {b}))
  BY DEF Count, Hits
<1>2. Cardinality(Hits(s, {b})) \in Nat
  BY HitsFinite
<1>3. Cardinality(Hits(s, {b})) = 0 <=> \A i \in 1..Len(s) : s[i] \notin {b}
  BY HitsNone
<1>4. Cardinality(Hits(<< >>, {b})) = 0
  BY HitsNone
<1> QED
  BY <1>1, <1>2, <1>3, <1>4

LEMMA CountNothing ==
  ASSUME NEW b
  PROVE  Count(<< >>, b) = 0
<1>1. {i \in 1..Len(<< >>) : << >>[i] = b} = {}
  OBVIOUS
<1> QED
  BY <1>1, FS_EmptySet DEF Count

LEMMA CountJoin ==
  ASSUME NEW s \in Seq(Byte), NEW t \in Seq(Byte), NEW b
  PROVE  Count(s \o t, b) = Count(s, b) + Count(t, b)
<1>1. \A u : Count(u, b) = Cardinality(Hits(u, {b}))
  BY DEF Count, Hits
<1>2. Cardinality(Hits(s \o t, {b})) = Cardinality(Hits(s, {b})) + Cardinality(Hits(t, {b}))
  BY HitsJoin
<1> QED
  BY <1>1, <1>2

LEMMA CountBytes ==
  ASSUME NEW m \in Package, NEW k \in Package, NEW i \in 1..Size
  PROVE  Count(Bytes(m), <<k, i>>) = IF k = m THEN 1 ELSE 0
<1>1. Bytes(m) \in Seq(Byte) /\ Len(Bytes(m)) = Size /\ \A j \in 1..Size : Bytes(m)[j] = <<m, j>>
  BY BytesStream
<1>2. {j \in 1..Size : Bytes(m)[j] = <<k, i>>} = IF k = m THEN {i} ELSE {}
  BY <1>1
<1>3. Count(Bytes(m), <<k, i>>) = Cardinality(IF k = m THEN {i} ELSE {})
  BY <1>1, <1>2 DEF Count
<1> QED
  BY <1>3, FS_EmptySet, FS_Singleton

LEMMA CountPackage ==
  ASSUME NEW s \in Seq(Byte), NEW m \in Package
  PROVE  m \in PackagesOf(s) <=> \E i \in 1..Size : Count(s, <<m, i>>) > 0
<1>1. ASSUME m \in PackagesOf(s) PROVE \E i \in 1..Size : Count(s, <<m, i>>) > 0
  <2>1. PICK k \in 1..Len(s) : m = s[k][1]
    BY <1>1 DEF PackagesOf
  <2>2. s[k] \in Byte
    OBVIOUS
  <2>3. PICK i \in 1..Size : s[k] = <<m, i>>
    BY <2>1, <2>2 DEF Byte
  <2>4. Count(s, <<m, i>>) > 0
    BY <2>3, CountOf
  <2>5. QED
    BY <2>4
<1>2. ASSUME NEW i \in 1..Size, Count(s, <<m, i>>) > 0 PROVE m \in PackagesOf(s)
  <2>1. PICK k \in 1..Len(s) : s[k] = <<m, i>>
    BY <1>2, CountOf
  <2>2. QED
    BY <2>1 DEF PackagesOf
<1> QED
  BY <1>1, <1>2

LEMMA PackagesJoin ==
  ASSUME NEW s \in Seq(Byte), NEW t \in Seq(Byte)
  PROVE  PackagesOf(s \o t) = PackagesOf(s) \cup PackagesOf(t)
<1>1. \A m \in PackagesOf(s \o t) : m \in PackagesOf(s) \cup PackagesOf(t)
  <2> SUFFICES ASSUME NEW i \in 1..Len(s \o t)
               PROVE  (s \o t)[i][1] \in PackagesOf(s) \cup PackagesOf(t)
    BY DEF PackagesOf
  <2>1. CASE i \in 1..Len(s)
    BY <2>1, Joined DEF PackagesOf
  <2>2. CASE i \notin 1..Len(s)
    <3>1. (i - Len(s)) \in 1..Len(t) /\ (s \o t)[i] = t[i - Len(s)]
      BY <2>2, Joined
    <3>2. QED
      BY <3>1 DEF PackagesOf
  <2>3. QED
    BY <2>1, <2>2
<1>2. \A m \in PackagesOf(s) : m \in PackagesOf(s \o t)
  <2> SUFFICES ASSUME NEW i \in 1..Len(s) PROVE s[i][1] \in PackagesOf(s \o t)
    BY DEF PackagesOf
  <2>1. i \in 1..Len(s \o t) /\ (s \o t)[i] = s[i]
    BY Joined
  <2>2. QED
    BY <2>1 DEF PackagesOf
<1>3. \A m \in PackagesOf(t) : m \in PackagesOf(s \o t)
  <2> SUFFICES ASSUME NEW i \in 1..Len(t) PROVE t[i][1] \in PackagesOf(s \o t)
    BY DEF PackagesOf
  <2>1. (Len(s) + i) \in 1..Len(s \o t) /\ (s \o t)[Len(s) + i] = t[i]
    BY Joined
  <2>2. QED
    BY <2>1 DEF PackagesOf
<1> QED
  BY <1>1, <1>2, <1>3

LEMMA PackagesType ==
  ASSUME NEW s \in Seq(Byte)
  PROVE  PackagesOf(s) \subseteq Package /\ PackagesOf(<< >>) = {}
BY ByteOf DEF PackagesOf

\* The bytes not written yet.
Left(b) == Count(high, b) + Count(low, b) + Count(dw, b)

Holders(m) == {t \in Thread : m \in Owned(t)}

Mentions(m) == {i \in 1..Len(pipe) : pipe[i][2] = m}

\* How often a package is on its way to the lists.
Loose(m) == Cardinality(Holders(m)) + Cardinality(Mentions(m))

Where(m) ==
  /\ m \in fresh =>
       /\ m \notin dropped
       /\ Loose(m) = 0
       /\ \A i \in 1..Size : Count(wire, <<m, i>>) = 0 /\ Left(<<m, i>>) = 0
  /\ m \notin fresh /\ m \notin dropped =>
       \A i \in 1..Size : Count(wire, <<m, i>>) + Left(<<m, i>>) + Loose(m) = 1
  /\ m \in dropped =>
       /\ Loose(m) = 0
       /\ \A i \in 1..Size : Count(wire, <<m, i>>) <= 1 /\ Left(<<m, i>>) = 0

Whereabouts == \A m \in Package : Where(m)

LEMMA CountTypes ==
  ASSUME Lists, NEW b
  PROVE  /\ Count(wire, b) \in Nat /\ Count(high, b) \in Nat /\ Count(low, b) \in Nat
         /\ Count(dw, b) \in Nat /\ Left(b) \in Nat
BY CountOf DEF Lists, Left

LEMMA HoldersOf ==
  ASSUME InHand, NEW m
  PROVE  /\ (\A t \in Thread : m \notin Owned(t)) => Cardinality(Holders(m)) = 0
         /\ \A t \in Thread : m \in Owned(t) => Cardinality(Holders(m)) = 1 /\ m = hand[t]
<1>1. ASSUME \A t \in Thread : m \notin Owned(t) PROVE Cardinality(Holders(m)) = 0
  <2>1. Holders(m) = {}
    BY <1>1 DEF Holders
  <2>2. QED
    BY <2>1, FS_EmptySet
<1>2. ASSUME NEW t \in Thread, m \in Owned(t) PROVE Cardinality(Holders(m)) = 1 /\ m = hand[t]
  <2>1. \A u \in Thread : m \in Owned(u) => pc[u] # "idle" /\ m = hand[u]
    BY DEF Owned
  <2>2. \A u \in Thread : m \in Owned(u) => u = t
    BY <1>2, <2>1, TwoHands
  <2>3. Holders(m) = {t}
    BY <1>2, <2>2 DEF Holders
  <2>4. QED
    BY <1>2, <2>1, <2>3, FS_Singleton
<1> QED
  BY <1>1, <1>2

LEMMA MentionsAre ==
  ASSUME NEW m
  PROVE  Mentions(m) = Hits(pipe, {c \in Request : c[2] = m}) \/ pipe \notin Seq(Request)
<1> SUFFICES ASSUME pipe \in Seq(Request)
             PROVE  Mentions(m) = Hits(pipe, {c \in Request : c[2] = m})
  OBVIOUS
<1>1. \A i \in 1..Len(pipe) : pipe[i] \in Request
  OBVIOUS
<1> QED
  BY <1>1 DEF Mentions, Hits

LEMMA LooseType ==
  ASSUME PathType, InHand, NEW m
  PROVE  Loose(m) \in Nat /\ Cardinality(Holders(m)) \in Nat /\ Cardinality(Mentions(m)) \in Nat
         /\ Cardinality(Holders(m)) <= 1
<1>1. Cardinality(Holders(m)) \in {0, 1}
  BY HoldersOf
<1>2. pipe \in Seq(Request)
  BY DEF PathType
<1>3. Cardinality(Mentions(m)) \in Nat
  BY <1>2, MentionsAre, HitsFinite
<1> QED
  BY <1>1, <1>3 DEF Loose
\* What a step does to Loose.
LEMMA MentionsAppend ==
  ASSUME PathType, NEW c \in Request, pipe' = Append(pipe, c), NEW m
  PROVE  Cardinality(Mentions(m)') = Cardinality(Mentions(m)) + (IF c[2] = m THEN 1 ELSE 0)
<1> DEFINE X == {d \in Request : d[2] = m}
<1>1. pipe \in Seq(Request) /\ pipe' \in Seq(Request)
  BY DEF PathType
<1>2. Mentions(m) = Hits(pipe, X)
  BY <1>1, MentionsAre
<1>3. Mentions(m)' = Hits(pipe', X)
  <2>1. \A i \in 1..Len(pipe') : pipe'[i] \in Request
    BY <1>1
  <2>2. QED
    BY <2>1 DEF Mentions, Hits
<1>4. c \in X <=> c[2] = m
  OBVIOUS
<1> HIDE DEF X
<1>5. Cardinality(Hits(Append(pipe, c), X)) = Cardinality(Hits(pipe, X)) + (IF c \in X THEN 1 ELSE 0)
  BY <1>1, HitsAppend
<1> QED
  BY <1>2, <1>3, <1>4, <1>5

LEMMA MentionsTail ==
  ASSUME PathType, pipe # << >>, pipe' = Tail(pipe), NEW m
  PROVE  Cardinality(Mentions(m)) = Cardinality(Mentions(m)') + (IF Head(pipe)[2] = m THEN 1 ELSE 0)
<1> DEFINE X == {d \in Request : d[2] = m}
<1>1. pipe \in Seq(Request) /\ pipe' \in Seq(Request) /\ Head(pipe) \in Request
  BY DEF PathType
<1>2. Mentions(m) = Hits(pipe, X)
  BY <1>1, MentionsAre
<1>3. Mentions(m)' = Hits(pipe', X)
  <2>1. \A i \in 1..Len(pipe') : pipe'[i] \in Request
    BY <1>1
  <2>2. QED
    BY <2>1 DEF Mentions, Hits
<1>4. Head(pipe) \in X <=> Head(pipe)[2] = m
  BY <1>1
<1> HIDE DEF X
<1>5. Cardinality(Hits(pipe, X)) = Cardinality(Hits(Tail(pipe), X)) + (IF Head(pipe) \in X THEN 1 ELSE 0)
  BY <1>1, HitsTail
<1> QED
  BY <1>2, <1>3, <1>4, <1>5

LEMMA LooseSame ==
  ASSUME UNCHANGED <<pc, hand, pipe>>, NEW m
  PROVE  Loose(m)' = Loose(m)
BY DEF Loose, Holders, Mentions, Owned

LEMMA LooseSend ==
  ASSUME Base, NEW t \in Thread, NEW m \in Package, NEW c \in {"D", "P"}, Send(t, m, c), NEW k
  PROVE  Loose(k)' = Loose(k) + (IF k = m /\ type # "invalid" THEN 1 ELSE 0)
<1>0. PathType /\ InHand
  BY DEF Base, IInv, Calls
<1>1. pc[t] = "idle" /\ m \in fresh /\ pipe' = pipe
      /\ \/ type = "invalid" /\ UNCHANGED <<pc, hand>>
         \/ /\ type # "invalid"
            /\ hand' = [hand EXCEPT ![t] = m]
            /\ pc' = [pc EXCEPT ![t] = IF c = "D" THEN "peek" ELSE "count"]
  BY DEF Send, Goto
<1>2. CASE type = "invalid"
  BY <1>0, <1>1, <1>2, LooseSame, LooseType
<1>3. CASE type # "invalid"
  <2>1. /\ hand'[t] = m /\ pc'[t] \in {"peek", "count"}
        /\ \A u \in Thread \ {t} : hand'[u] = hand[u] /\ pc'[u] = pc[u]
    BY <1>0, <1>1, <1>3 DEF PathType
  <2>2. Owned(t) = {} /\ Owned(t)' = {m} /\ \A u \in Thread \ {t} : Owned(u)' = Owned(u)
    BY <1>1, <2>1 DEF Owned
  <2>3. \A u \in Thread : m \notin Owned(u)
    BY <1>0, <1>1 DEF Owned, InHand
  <2>4. Holders(k)' = IF k = m THEN {t} ELSE Holders(k)
    BY <2>2, <2>3 DEF Holders
  <2>5. Mentions(k)' = Mentions(k)
    BY <1>1 DEF Mentions
  <2>6. Cardinality(Holders(k)') = Cardinality(Holders(k)) + (IF k = m THEN 1 ELSE 0)
    <3>1. CASE k = m
      <4>1. Cardinality(Holders(k)) = 0
        BY <1>0, <2>3, <3>1, HoldersOf
      <4>2. Cardinality(Holders(k)') = 1
        BY <2>4, <3>1, FS_Singleton
      <4>3. QED
        BY <3>1, <4>1, <4>2
    <3>2. CASE k # m
      BY <1>0, <2>4, <3>2, LooseType
    <3>3. QED
      BY <3>1, <3>2
  <2>7. QED
    BY <1>0, <1>3, <2>5, <2>6, LooseType DEF Loose
<1> QED
  BY <1>2, <1>3

LEMMA HoldersLeave ==
  ASSUME PathType, InHand, NEW t \in Thread, Owned(t) = {hand[t]}, Owned(t)' = {},
         \A u \in Thread \ {t} : Owned(u)' = Owned(u), NEW k
  PROVE  Cardinality(Holders(k)') = Cardinality(Holders(k)) - (IF k = hand[t] THEN 1 ELSE 0)
<1>1. CASE k = hand[t]
  <2>1. Cardinality(Holders(k)) = 1
    BY <1>1, HoldersOf
  <2>2. \A u \in Thread : hand[t] \in Owned(u) => u = t
    <3> SUFFICES ASSUME NEW u \in Thread, hand[t] \in Owned(u) PROVE u = t
      OBVIOUS
    <3>1. pc[u] # "idle" /\ pc[t] # "idle" /\ hand[t] = hand[u]
      BY DEF Owned
    <3>2. QED
      BY <3>1, TwoHands
  <2>3. Holders(k)' = {}
    BY <1>1, <2>2 DEF Holders
  <2>4. QED
    BY <1>1, <2>1, <2>3, FS_EmptySet
<1>2. CASE k # hand[t]
  <2>1. Holders(k)' = Holders(k)
    BY <1>2 DEF Holders
  <2>2. QED
    BY <1>2, <2>1, LooseType
<1> QED
  BY <1>1, <1>2

LEMMA LooseSendStep ==
  ASSUME Base, NEW t \in Thread, SendStep(t), NEW k
  PROVE  Loose(k)' = Loose(k) - (IF pc[t] = "write" /\ k = hand[t] THEN 1 ELSE 0)
<1>0. PathType /\ InHand
  BY DEF Base, IInv, Calls
<1>1. ASSUME NEW label, NEW h, Goto(t, label), hand' = [hand EXCEPT ![t] = h]
      PROVE  /\ pc'[t] = label /\ hand'[t] = h
             /\ \A u \in Thread \ {t} : Owned(u)' = Owned(u)
  <2>1. /\ pc'[t] = label /\ hand'[t] = h
        /\ \A u \in Thread \ {t} : pc'[u] = pc[u] /\ hand'[u] = hand[u]
    BY <1>0, <1>1 DEF PathType, Goto
  <2>2. QED
    BY <2>1 DEF Owned
<1>2. hand = [hand EXCEPT ![t] = hand[t]]
  BY <1>0 DEF PathType
<1>3. CASE Peek(t) \/ TryLock(t) \/ Look(t) \/ DoubleCheck(t) \/ IncSendingRef(t)
  <2>1. PICK label : /\ Goto(t, label) /\ label \notin {"idle", "enable"}
                     /\ pc[t] \notin {"idle", "enable", "write"} /\ UNCHANGED <<hand, pipe>>
    <3>1. CASE Peek(t) \/ TryLock(t)
      BY <3>1 DEF Peek, TryLock
    <3>2. CASE Look(t) \/ DoubleCheck(t)
      BY <3>2 DEF Look, DoubleCheck
    <3>3. CASE IncSendingRef(t)
      BY <3>3 DEF IncSendingRef
    <3>4. QED
      BY <1>3, <3>1, <3>2, <3>3
  <2>2. pc'[t] = label /\ hand'[t] = hand[t] /\ \A u \in Thread \ {t} : Owned(u)' = Owned(u)
    BY <1>1, <1>2, <2>1
  <2>3. Owned(t)' = Owned(t)
    BY <2>1, <2>2 DEF Owned
  <2>4. Holders(k)' = Holders(k)
    BY <2>2, <2>3 DEF Holders
  <2>5. Mentions(k)' = Mentions(k)
    BY <2>1 DEF Mentions
  <2>6. QED
    BY <1>0, <2>1, <2>4, <2>5, LooseType DEF Loose
<1>4. CASE DirectWrite(t)
  <2>1. PICK label, h : /\ Goto(t, label) /\ label \in {"idle", "enable"}
                        /\ hand' = [hand EXCEPT ![t] = h]
                        /\ pc[t] = "write" /\ pipe' = pipe
    <3>1. pc[t] = "write" /\ pipe' = pipe
          /\ \/ hand' = [hand EXCEPT ![t] = None] /\ Goto(t, "idle")
             \/ hand' = hand /\ Goto(t, "enable")
      BY <1>4 DEF DirectWrite, Done
    <3>2. QED
      BY <1>2, <3>1
  <2>2. pc'[t] = label /\ \A u \in Thread \ {t} : Owned(u)' = Owned(u)
    BY <1>1, <2>1
  <2>3. Owned(t) = {hand[t]} /\ Owned(t)' = {}
    BY <2>1, <2>2 DEF Owned
  <2>4. Cardinality(Holders(k)') = Cardinality(Holders(k)) - (IF k = hand[t] THEN 1 ELSE 0)
    BY <1>0, <2>2, <2>3, HoldersLeave
  <2>5. Mentions(k)' = Mentions(k)
    BY <2>1 DEF Mentions
  <2>6. QED
    BY <1>0, <2>1, <2>4, <2>5, LooseType DEF Loose
<1>5. CASE EnableWrite(t)
  <2>1. Goto(t, "idle") /\ hand' = [hand EXCEPT ![t] = None] /\ pc[t] = "enable" /\ pipe' = pipe
    BY <1>5 DEF EnableWrite, Done
  <2>2. pc'[t] = "idle" /\ \A u \in Thread \ {t} : Owned(u)' = Owned(u)
    BY <1>1, <2>1
  <2>3. Owned(t)' = Owned(t)
    BY <2>1, <2>2 DEF Owned
  <2>4. Holders(k)' = Holders(k)
    BY <2>2, <2>3 DEF Holders
  <2>5. Mentions(k)' = Mentions(k)
    BY <2>1 DEF Mentions
  <2>6. QED
    BY <1>0, <2>1, <2>4, <2>5, LooseType DEF Loose
<1>6. CASE SendRequest(t)
  <2>1. Goto(t, "idle") /\ hand' = [hand EXCEPT ![t] = None] /\ pc[t] = "command"
        /\ pipe' = Append(pipe, <<cmd[t], hand[t]>>)
    BY <1>6 DEF SendRequest, Done
  <2>2. pc'[t] = "idle" /\ \A u \in Thread \ {t} : Owned(u)' = Owned(u)
    BY <1>1, <2>1
  <2>3. Owned(t) = {hand[t]} /\ Owned(t)' = {}
    BY <2>1, <2>2 DEF Owned
  <2>4. Cardinality(Holders(k)') = Cardinality(Holders(k)) - (IF k = hand[t] THEN 1 ELSE 0)
    BY <1>0, <2>2, <2>3, HoldersLeave
  <2>5. <<cmd[t], hand[t]>> \in Request
    BY <1>0 DEF PathType, Request, Commands
  <2>6. Cardinality(Mentions(k)') = Cardinality(Mentions(k)) + (IF hand[t] = k THEN 1 ELSE 0)
    BY <1>0, <2>1, <2>5, MentionsAppend
  <2>7. QED
    BY <1>0, <2>1, <2>4, <2>6, LooseType DEF Loose
<1> QED
  BY <1>3, <1>4, <1>5, <1>6 DEF SendStep

LEMMA LooseClose ==
  ASSUME Base, NEW t \in Thread, NEW how \in {"K", "shutdown"}, Close(t, how), NEW k \in Package
  PROVE  Loose(k)' = Loose(k)
<1>0. PathType /\ InHand /\ k # None
  BY WriteAssumption DEF Base, IInv, Calls
<1>1. UNCHANGED <<pc, hand>> /\ pipe' = Append(pipe, <<how, None>>)
  BY DEF Close, senders
<1>2. <<how, None>> \in Request
  BY DEF Request, Commands
<1>3. Cardinality(Mentions(k)') = Cardinality(Mentions(k)) + 0
  BY <1>0, <1>1, <1>2, MentionsAppend
<1>4. Holders(k)' = Holders(k)
  BY <1>1 DEF Holders, Owned
<1> QED
  BY <1>0, <1>3, <1>4, LooseType DEF Loose

LEMMA LooseCommand ==
  ASSUME Base, UNCHANGED <<pc, hand>>, pipe # << >>, pipe' = Tail(pipe), NEW k \in Package
  PROVE  Loose(k) = Loose(k)' + (IF Head(pipe)[2] = k THEN 1 ELSE 0)
<1>0. PathType /\ InHand
  BY DEF Base, IInv, Calls
<1>1. Cardinality(Mentions(k)) = Cardinality(Mentions(k)') + (IF Head(pipe)[2] = k THEN 1 ELSE 0)
  BY <1>0, MentionsTail
<1>2. Holders(k)' = Holders(k)
  BY DEF Holders, Owned
<1>3. pipe' \in Seq(Request)
  BY <1>0 DEF PathType
<1>4. Cardinality(Mentions(k)') \in Nat
  <2>1. Mentions(k)' = Hits(pipe', {c \in Request : c[2] = k})
    <3>1. \A i \in 1..Len(pipe') : pipe'[i] \in Request
      BY <1>3
    <3>2. QED
      BY <3>1 DEF Mentions, Hits
  <2>2. QED
    BY <1>3, <2>1, HitsFinite
<1> QED
  BY <1>0, <1>1, <1>2, <1>4, LooseType DEF Loose
\* What a step does to the places of one package.
LEMMA WhereMoves ==
  ASSUME PathType, InHand, Lists, Lists', NEW m \in Package, Where(m), UNCHANGED <<fresh, dropped>>,
         Loose(m)' = Loose(m),
         \A i \in 1..Size : \E d \in Nat :
            /\ Count(wire', <<m, i>>) = Count(wire, <<m, i>>) + d
            /\ Left(<<m, i>>) = Left(<<m, i>>)' + d
  PROVE  Where(m)'
<1>1. Loose(m) \in Nat
  BY LooseType
<1>2. ASSUME NEW i \in 1..Size
      PROVE  /\ Count(wire', <<m, i>>) + Left(<<m, i>>)' + Loose(m)
                  = Count(wire, <<m, i>>) + Left(<<m, i>>) + Loose(m)
             /\ Left(<<m, i>>) = 0 => /\ Left(<<m, i>>)' = 0
                                      /\ Count(wire', <<m, i>>) = Count(wire, <<m, i>>)
  <2>1. PICK d \in Nat : /\ Count(wire', <<m, i>>) = Count(wire, <<m, i>>) + d
                         /\ Left(<<m, i>>) = Left(<<m, i>>)' + d
    OBVIOUS
  <2>2. Count(wire, <<m, i>>) \in Nat /\ Left(<<m, i>>) \in Nat
    BY CountTypes
  <2>3. Left(<<m, i>>)' \in Nat
    <3>1. high' \in Seq(Byte) /\ low' \in Seq(Byte) /\ dw' \in Seq(Byte)
      BY DEF Lists
    <3>2. /\ Count(high', <<m, i>>) \in Nat /\ Count(low', <<m, i>>) \in Nat
          /\ Count(dw', <<m, i>>) \in Nat
      BY <3>1, CountOf
    <3>3. QED
      BY <3>2 DEF Left
  <2>4. QED
    BY <1>1, <2>1, <2>2, <2>3
<1> QED
  BY <1>2 DEF Where

LEMMA WhereStays ==
  ASSUME PathType, InHand, Lists, NEW m \in Package, Where(m), UNCHANGED <<fresh, dropped>>,
         Loose(m)' = Loose(m), UNCHANGED <<wire, high, low, dw>>
  PROVE  Where(m)'
BY DEF Where, Left

LEMMA FlushCounts ==
  ASSUME Lists, NEW X, NEW H, NEW Y, NEW R, Flushed(X, H, Y, R), NEW b
  PROVE  \E d \in Nat : /\ Count(wire', b) = Count(wire, b) + d
                        /\ Left(b) = Left(b)' + d
<1>0. /\ X \in Seq(Byte) /\ H \in Seq(Byte) /\ Y \in Seq(Byte) /\ R \in Seq(Byte)
      /\ low' \in Seq(Byte)
      /\ dw \o high = X \o H /\ low = Y \o (R \o low') /\ wire' = (wire \o X) \o Y
      /\ dw' = << >> /\ high' = H \o R
  BY DEF Flushed
<1>1. Count(dw, b) + Count(high, b) = Count(X, b) + Count(H, b)
  <2>1. Count(dw \o high, b) = Count(dw, b) + Count(high, b)
    BY CountJoin DEF Lists
  <2>2. Count(X \o H, b) = Count(X, b) + Count(H, b)
    BY <1>0, CountJoin
  <2>3. QED
    BY <1>0, <2>1, <2>2
<1>2. Count(low, b) = Count(Y, b) + (Count(R, b) + Count(low', b))
  <2>1. R \o low' \in Seq(Byte) /\ Count(R \o low', b) = Count(R, b) + Count(low', b)
    BY <1>0, CountJoin, Joined
  <2> DEFINE V == R \o low'
  <2>2. V \in Seq(Byte) /\ Y \in Seq(Byte) /\ low = Y \o V
    BY <1>0, <2>1
  <2>3. Count(V, b) = Count(R, b) + Count(low', b)
    BY <2>1
  <2> HIDE DEF V
  <2>4. Count(Y \o V, b) = Count(Y, b) + Count(V, b)
    BY <2>2, CountJoin
  <2>5. QED
    BY <2>2, <2>3, <2>4
<1>3. Count(wire', b) = (Count(wire, b) + Count(X, b)) + Count(Y, b)
  <2>0. wire \in Seq(Byte) /\ X \in Seq(Byte)
    BY <1>0 DEF Lists
  <2>1. wire \o X \in Seq(Byte) /\ Count(wire \o X, b) = Count(wire, b) + Count(X, b)
    BY <2>0, CountJoin, Joined
  <2> DEFINE V == wire \o X
  <2>2. V \in Seq(Byte) /\ Y \in Seq(Byte) /\ wire' = V \o Y
    BY <1>0, <2>1
  <2>3. Count(V, b) = Count(wire, b) + Count(X, b)
    BY <2>1
  <2> HIDE DEF V
  <2>4. Count(V \o Y, b) = Count(V, b) + Count(Y, b)
    BY <2>2, CountJoin
  <2>5. QED
    BY <2>2, <2>3, <2>4
<1>4. Left(b)' = (Count(H, b) + Count(R, b)) + Count(low', b) + 0
  <2>1. Count(high', b) = Count(H, b) + Count(R, b) /\ Count(dw', b) = 0
    BY <1>0, CountJoin, CountOf
  <2>2. QED
    BY <2>1 DEF Left
<1>5. /\ Count(X, b) \in Nat /\ Count(H, b) \in Nat /\ Count(Y, b) \in Nat /\ Count(R, b) \in Nat
      /\ Count(low', b) \in Nat
  BY <1>0, CountOf
<1>6. Count(wire, b) \in Nat /\ Count(high, b) \in Nat /\ Count(low, b) \in Nat /\ Count(dw, b) \in Nat
  BY CountTypes
<1>7. Left(b) = Count(high, b) + Count(low, b) + Count(dw, b)
  BY DEF Left
<1>8. Count(X, b) + Count(Y, b) \in Nat
      /\ Count(wire', b) = Count(wire, b) + (Count(X, b) + Count(Y, b))
      /\ Left(b) = Left(b)' + (Count(X, b) + Count(Y, b))
  BY <1>1, <1>2, <1>3, <1>4, <1>5, <1>6, <1>7
<1> QED
  BY <1>8

\* The packages that are freed are those that have a byte left.
LEMMA WhereInvalidate ==
  ASSUME PathType, InHand, Lists, NEW m \in Package, Where(m), fresh' = fresh, wire' = wire,
         Loose(m)' = Loose(m), NEW lost, Invalidate(lost),
         m \in PackagesOf(lost) <=> m \in PackagesOf(high) \cup PackagesOf(low) \cup PackagesOf(dw)
  PROVE  Where(m)'
<1>1. /\ high' = << >> /\ low' = << >> /\ dw' = << >>
      /\ dropped' = dropped \cup PackagesOf(lost)
  BY DEF Invalidate
<1>2. Loose(m) \in Nat
  BY LooseType
<1>3. \A i \in 1..Size : /\ Count(wire, <<m, i>>) \in Nat /\ Left(<<m, i>>) \in Nat
                         /\ Left(<<m, i>>)' = 0 /\ Count(wire', <<m, i>>) = Count(wire, <<m, i>>)
  <2>1. \A b : Count(<< >>, b) = 0
    BY CountOf, Nothing DEF Lists
  <2>2. QED
    BY <1>1, <2>1, CountTypes DEF Left
<1>4. m \in PackagesOf(lost) <=> \E i \in 1..Size : Left(<<m, i>>) > 0
  <2>1. \A i \in 1..Size : /\ Count(high, <<m, i>>) \in Nat /\ Count(low, <<m, i>>) \in Nat
                           /\ Count(dw, <<m, i>>) \in Nat
    BY CountTypes
  <2>2. /\ m \in PackagesOf(high) <=> \E i \in 1..Size : Count(high, <<m, i>>) > 0
        /\ m \in PackagesOf(low) <=> \E i \in 1..Size : Count(low, <<m, i>>) > 0
        /\ m \in PackagesOf(dw) <=> \E i \in 1..Size : Count(dw, <<m, i>>) > 0
    BY CountPackage DEF Lists
  <2>3. \A i \in 1..Size : Left(<<m, i>>) > 0 <=>
           Count(high, <<m, i>>) > 0 \/ Count(low, <<m, i>>) > 0 \/ Count(dw, <<m, i>>) > 0
    BY <2>1 DEF Left
  <2>4. QED
    BY <2>2, <2>3
<1>5. CASE m \in PackagesOf(lost)
  <2>1. PICK i \in 1..Size : Left(<<m, i>>) > 0
    BY <1>4, <1>5
  <2>2. m \notin fresh /\ m \notin dropped
    BY <1>3, <2>1 DEF Where
  <2>3. Loose(m) = 0
    BY <1>2, <1>3, <2>1, <2>2 DEF Where
  <2>4. \A j \in 1..Size : Count(wire, <<m, j>>) <= 1
    BY <1>2, <1>3, <2>2 DEF Where
  <2>5. m \in dropped' /\ m \notin fresh'
    BY <1>1, <1>5, <2>2
  <2>6. QED
    BY <1>3, <2>3, <2>4, <2>5 DEF Where
<1>6. CASE m \notin PackagesOf(lost)
  <2>1. m \in dropped' <=> m \in dropped
    BY <1>1, <1>6
  <2>2. \A i \in 1..Size : Left(<<m, i>>) = 0
    BY <1>3, <1>4, <1>6
  <2>3. QED
    BY <1>2, <1>3, <2>1, <2>2 DEF Where
<1> QED
  BY <1>5, <1>6

LEMMA LastCounted ==
  ASSUME NEW s \in Seq(Byte), Tidy(s), NEW m \in PackagesOf(s)
  PROVE  Count(s, <<m, Size>>) > 0
<1>1. PICK i \in 1..Len(s) : s[i] = <<m, Size>>
  BY LastByte
<1>2. Count(s, <<m, Size>>) \in Nat /\ Count(s, <<m, Size>>) # 0
  BY <1>1, CountOf
<1> QED
  BY <1>2

\* force_close frees the lists first: a package that has a byte there has none
\* in dw_buffer.
LEMMA WhereFreed ==
  ASSUME PathType, InHand, Lists, NEW m \in Package, Where(m), UNCHANGED <<fresh, wire, dw>>,
         Loose(m)' = Loose(m), FreeLists
  PROVE  Where(m)'
<1>1. /\ high' = << >> /\ low' = << >>
      /\ dropped' = dropped \cup (PackagesOf(high) \cup PackagesOf(low))
  BY PackagesJoin DEF FreeLists, Lists
<1>2. Loose(m) \in Nat
  BY LooseType
<1>3. \A i \in 1..Size : /\ Count(wire, <<m, i>>) \in Nat /\ Left(<<m, i>>) \in Nat
                         /\ Count(high, <<m, i>>) \in Nat /\ Count(low, <<m, i>>) \in Nat
                         /\ Count(dw, <<m, i>>) \in Nat
                         /\ Left(<<m, i>>)' = Count(dw, <<m, i>>)
                         /\ Count(wire', <<m, i>>) = Count(wire, <<m, i>>)
                         /\ Left(<<m, i>>) = Count(high, <<m, i>>) + Count(low, <<m, i>>) + Count(dw, <<m, i>>)
  <2>1. \A b : Count(<< >>, b) = 0
    BY CountOf, Nothing DEF Lists
  <2>2. QED
    BY <1>1, <2>1, CountTypes DEF Left
<1>4. CASE m \in PackagesOf(high) \cup PackagesOf(low)
  <2>1. Size \in 1..Size
    BY SizePositive
  <2>2. Count(high, <<m, Size>>) > 0 \/ Count(low, <<m, Size>>) > 0
    BY <1>4, LastCounted DEF Lists, Stream
  <2>3. m \notin fresh /\ m \notin dropped
    BY <1>3, <2>1, <2>2 DEF Where
  <2>4. Loose(m) = 0 /\ Count(dw, <<m, Size>>) = 0
    BY <1>2, <1>3, <2>1, <2>2, <2>3 DEF Where
  <2>5. m \notin PackagesOf(dw)
    BY <2>4, LastCounted DEF Lists
  <2>6. \A i \in 1..Size : Count(dw, <<m, i>>) = 0
    <3>1. m \in PackagesOf(dw) <=> \E i \in 1..Size : Count(dw, <<m, i>>) > 0
      BY CountPackage DEF Lists
    <3>2. \A i \in 1..Size : Count(dw, <<m, i>>) \in Nat
      BY <1>3
    <3>3. QED
      BY <2>5, <3>1, <3>2
  <2>7. \A j \in 1..Size : Count(wire, <<m, j>>) <= 1
    BY <1>2, <1>3, <2>3 DEF Where
  <2>8. m \in dropped' /\ m \notin fresh'
    BY <1>1, <1>4, <2>3
  <2>9. QED
    BY <1>3, <2>4, <2>6, <2>7, <2>8 DEF Where
<1>5. CASE m \notin PackagesOf(high) \cup PackagesOf(low)
  <2>1. \A i \in 1..Size : Count(high, <<m, i>>) = 0 /\ Count(low, <<m, i>>) = 0
    <3>1. /\ m \in PackagesOf(high) <=> \E i \in 1..Size : Count(high, <<m, i>>) > 0
          /\ m \in PackagesOf(low) <=> \E i \in 1..Size : Count(low, <<m, i>>) > 0
      BY CountPackage DEF Lists
    <3>2. \A i \in 1..Size : Count(high, <<m, i>>) \in Nat /\ Count(low, <<m, i>>) \in Nat
      BY <1>3
    <3>3. QED
      BY <1>5, <3>1, <3>2
  <2>2. \A i \in 1..Size : Left(<<m, i>>)' = Left(<<m, i>>)
    BY <1>3, <2>1
  <2>3. m \in dropped' <=> m \in dropped
    BY <1>1, <1>5
  <2>4. QED
    BY <1>2, <1>3, <2>2, <2>3 DEF Where
<1> QED
  BY <1>4, <1>5
LEMMA WhereAfterSendBuffer ==
  ASSUME PathType, InHand, Lists, Lists', NEW m \in Package, Where(m), fresh' = fresh,
         Loose(m)' = Loose(m), SendBuffer
  PROVE  Where(m)'
<1>1. CASE Fails
  <2>1. Invalidate((dw \o high) \o low) /\ wire' = wire
    BY <1>1 DEF Fails
  <2>2. PackagesOf((dw \o high) \o low) = (PackagesOf(dw) \cup PackagesOf(high)) \cup PackagesOf(low)
    <3>1. dw \o high \in Seq(Byte) /\ PackagesOf(dw \o high) = PackagesOf(dw) \cup PackagesOf(high)
      BY PackagesJoin, Joined DEF Lists
    <3>2. PackagesOf((dw \o high) \o low) = PackagesOf(dw \o high) \cup PackagesOf(low)
      BY <3>1, PackagesJoin DEF Lists
    <3>3. QED
      BY <3>1, <3>2
  <2>3. m \in PackagesOf((dw \o high) \o low)
          <=> m \in PackagesOf(high) \cup PackagesOf(low) \cup PackagesOf(dw)
    BY <2>2
  <2>4. QED
    BY <2>1, <2>3, WhereInvalidate
<1>2. CASE ~Fails
  <2>1. dropped' = dropped /\ \E X, H, Y, R : Flushed(X, H, Y, R)
    BY <1>2, SendBufferCases
  <2>2. PICK X, H, Y, R : Flushed(X, H, Y, R)
    BY <2>1
  <2>3. \A i \in 1..Size : \E d \in Nat :
            /\ Count(wire', <<m, i>>) = Count(wire, <<m, i>>) + d
            /\ Left(<<m, i>>) = Left(<<m, i>>)' + d
    BY <2>2, FlushCounts
  <2>4. QED
    BY <2>1, <2>3, WhereMoves
<1> QED
  BY <1>1, <1>2

\* A direct write: the package comes from the hands of its thread.
LEMMA WhereWrote ==
  ASSUME Base, Lists', NEW t \in Thread, DirectWrite(t), NEW m \in Package, Where(m)
  PROVE  Where(m)'
<1>0. PathType /\ InHand /\ Lists /\ Lock
  BY DEF Base, IInv, Calls, Shape
<1>1. pc[t] = "write" /\ UNCHANGED <<high, low, fresh, dropped>>
  BY DEF DirectWrite
<1>2. hand[t] \in Package /\ hand[t] \notin fresh /\ dw = << >>
  BY <1>0, <1>1 DEF InHand, Lock
<1>3. PICK X, Y : Wrote(t, X, Y)
  BY <1>0, <1>2, DirectWriteCases
<1>4. X \in Seq(Byte) /\ Y \in Seq(Byte) /\ Bytes(hand[t]) = X \o Y /\ wire' = wire \o X /\ dw' = Y
  BY <1>3 DEF Wrote
<1>5. Loose(m)' = Loose(m) - (IF m = hand[t] THEN 1 ELSE 0)
  BY <1>1, LooseSendStep DEF SendStep
<1>6. ASSUME NEW i \in 1..Size
      PROVE  /\ Count(wire, <<m, i>>) \in Nat /\ Left(<<m, i>>) \in Nat
             /\ \E x, y \in Nat : /\ x + y = IF m = hand[t] THEN 1 ELSE 0
                                  /\ Count(wire', <<m, i>>) = Count(wire, <<m, i>>) + x
                                  /\ Left(<<m, i>>)' = Left(<<m, i>>) + y
  <2> DEFINE b == <<m, i>>
  <2>1. Count(wire, b) \in Nat /\ Left(b) \in Nat /\ Count(high, b) \in Nat /\ Count(low, b) \in Nat
    BY <1>0, CountTypes
  <2>2. Count(Bytes(hand[t]), b) = IF m = hand[t] THEN 1 ELSE 0
    BY <1>2, CountBytes
  <2> HIDE DEF b
  <2>3. Count(X, b) \in Nat /\ Count(Y, b) \in Nat /\ Count(dw, b) = 0
    BY <1>2, <1>4, CountOf
  <2>4. Count(Bytes(hand[t]), b) = Count(X, b) + Count(Y, b)
    BY <1>4, CountJoin
  <2>5. Count(wire', b) = Count(wire, b) + Count(X, b)
    BY <1>0, <1>4, CountJoin DEF Lists
  <2>6. Left(b) = Count(high, b) + Count(low, b) + 0
        /\ Left(b)' = Count(high, b) + Count(low, b) + Count(Y, b)
    BY <1>1, <1>4, <2>3 DEF Left, b
  <2>7. Left(b)' = Left(b) + Count(Y, b)
    BY <2>1, <2>3, <2>6
  <2>8. QED
    BY <2>1, <2>2, <2>3, <2>4, <2>5, <2>7 DEF b
<1>7. CASE m = hand[t]
  <2>1. Loose(m) >= 1 /\ Loose(m) \in Nat
    <3>1. m \in Owned(t)
      BY <1>1, <1>7 DEF Owned
    <3>2. QED
      BY <1>0, <3>1, HoldersOf, LooseType DEF Loose
  <2>2. m \notin fresh /\ m \notin dropped
    BY <1>2, <1>7, <2>1 DEF Where
  <2>3. \A i \in 1..Size : Count(wire, <<m, i>>) + Left(<<m, i>>) + Loose(m) = 1
    BY <2>2 DEF Where
  <2>4. 1 \in 1..Size
    BY SizePositive
  <2>5. Loose(m) = 1
    <3>1. Count(wire, <<m, 1>>) \in Nat /\ Left(<<m, 1>>) \in Nat
      BY <1>6, <2>4
    <3>2. Count(wire, <<m, 1>>) + Left(<<m, 1>>) + Loose(m) = 1
      BY <2>3, <2>4
    <3>3. QED
      BY <2>1, <3>1, <3>2
  <2>6. ASSUME NEW i \in 1..Size
        PROVE  Count(wire', <<m, i>>) + Left(<<m, i>>)' + 0 = 1
    <3>1. PICK x, y \in Nat : /\ x + y = 1
                              /\ Count(wire', <<m, i>>) = Count(wire, <<m, i>>) + x
                              /\ Left(<<m, i>>)' = Left(<<m, i>>) + y
      BY <1>6, <1>7
    <3>2. Count(wire, <<m, i>>) = 0 /\ Left(<<m, i>>) = 0
      BY <1>6, <2>3, <2>5
    <3>3. QED
      BY <3>1, <3>2
  <2>7. Loose(m)' = 0
    BY <1>5, <1>7, <2>5
  <2>8. QED
    BY <1>1, <2>2, <2>6, <2>7 DEF Where
<1>8. CASE m # hand[t]
  <2>1. Loose(m)' = Loose(m)
    BY <1>0, <1>5, <1>8, LooseType
  <2>2. \A i \in 1..Size : /\ Count(wire', <<m, i>>) = Count(wire, <<m, i>>)
                           /\ Left(<<m, i>>)' = Left(<<m, i>>)
    BY <1>6, <1>8
  <2>3. QED
    BY <1>1, <2>1, <2>2 DEF Where
<1> QED
  BY <1>7, <1>8

\* The package of a command goes to a list, or is freed.
LEMMA WhereCtrlSend ==
  ASSUME Base, CtrlSend, NEW m \in Package, Where(m)
  PROVE  Where(m)'
<1> DEFINE p == Head(pipe)[2]
<1>0. PathType /\ InHand /\ Lists
  BY DEF Base, IInv, Calls, Shape
<1>1. p \in Package /\ p \notin fresh /\ pipe # << >> /\ pipe' = Tail(pipe)
  BY CtrlSendPackage
<1>2. UNCHANGED <<wire, dw, fresh, pc, hand>>
      /\ \/ dropped' = dropped \cup {p} /\ UNCHANGED <<high, low>>
         \/ dropped' = dropped /\ low' = low /\ high = << >> /\ high' = Bytes(p)
         \/ dropped' = dropped /\ high' = high /\ low' = low \o Bytes(p)
         \/ dropped' = dropped /\ low' = low /\ high' = high \o Bytes(p)
  BY DEF CtrlSend, senders, peer
<1>3. Loose(m) = Loose(m)' + (IF p = m THEN 1 ELSE 0)
  BY <1>1, <1>2, LooseCommand
<1>4. Loose(m)' \in Nat
  <2>1. pipe' \in Seq(Request)
    BY <1>0, <1>1 DEF PathType
  <2>2. Mentions(m)' = Hits(pipe', {c \in Request : c[2] = m})
    <3>1. \A i \in 1..Len(pipe') : pipe'[i] \in Request
      BY <2>1
    <3>2. QED
      BY <3>1 DEF Mentions, Hits
  <2>3. Cardinality(Mentions(m)') \in Nat
    BY <2>1, <2>2, HitsFinite
  <2>4. Holders(m)' = Holders(m)
    BY <1>2 DEF Holders, Owned
  <2>5. QED
    BY <1>0, <2>3, <2>4, LooseType DEF Loose
<1> HIDE DEF p
<1>5. ASSUME NEW i \in 1..Size
      PROVE  /\ Count(wire, <<m, i>>) \in Nat /\ Left(<<m, i>>) \in Nat
             /\ Count(wire', <<m, i>>) = Count(wire, <<m, i>>)
             /\ \/ dropped' = dropped \cup {p} /\ Left(<<m, i>>)' = Left(<<m, i>>)
                \/ dropped' = dropped /\ Left(<<m, i>>)' = Left(<<m, i>>) + (IF p = m THEN 1 ELSE 0)
  <2> DEFINE b == <<m, i>>
  <2>1. /\ Count(wire, b) \in Nat /\ Left(b) \in Nat /\ Count(high, b) \in Nat /\ Count(low, b) \in Nat
        /\ Count(dw, b) \in Nat
    BY <1>0, CountTypes
  <2>2. Count(Bytes(p), b) = IF p = m THEN 1 ELSE 0
    BY <1>1, CountBytes
  <2> HIDE DEF b
  <2>3. Count(<< >>, b) = 0 /\ Bytes(p) \in Seq(Byte)
    BY <1>0, <1>1, CountOf, BytesStream DEF Lists
  <2>4. /\ Count(high \o Bytes(p), b) = Count(high, b) + Count(Bytes(p), b)
        /\ Count(low \o Bytes(p), b) = Count(low, b) + Count(Bytes(p), b)
    BY <1>0, <2>3, CountJoin DEF Lists
  <2>5. /\ Left(b) = Count(high, b) + Count(low, b) + Count(dw, b)
        /\ Left(b)' = Count(high', b) + Count(low', b) + Count(dw, b)
    BY <1>2 DEF Left, b
  <2>6. \/ dropped' = dropped \cup {p} /\ Left(b)' = Left(b)
        \/ dropped' = dropped /\ Left(b)' = Left(b) + Count(Bytes(p), b)
    <3>1. CASE dropped' = dropped \cup {p} /\ UNCHANGED <<high, low>>
      BY <2>5, <3>1
    <3>2. CASE dropped' = dropped /\ low' = low /\ high = << >> /\ high' = Bytes(p)
      BY <2>1, <2>2, <2>3, <2>5, <3>2
    <3>3. CASE dropped' = dropped /\ high' = high /\ low' = low \o Bytes(p)
      BY <2>1, <2>2, <2>4, <2>5, <3>3
    <3>4. CASE dropped' = dropped /\ low' = low /\ high' = high \o Bytes(p)
      BY <2>1, <2>2, <2>4, <2>5, <3>4
    <3>5. QED
      BY <1>2, <3>1, <3>2, <3>3, <3>4
  <2>7. QED
    BY <1>2, <2>1, <2>2, <2>6 DEF b
<1>6. CASE m = p
  <2>1. m \notin fresh /\ m \notin dropped /\ Loose(m) >= 1
    BY <1>1, <1>3, <1>4, <1>6 DEF Where
  <2>2. \A i \in 1..Size : Count(wire, <<m, i>>) + Left(<<m, i>>) + Loose(m) = 1
    BY <2>1 DEF Where
  <2>3. Loose(m) = 1 /\ \A i \in 1..Size : Count(wire, <<m, i>>) = 0 /\ Left(<<m, i>>) = 0
    <3>1. 1 \in 1..Size
      BY SizePositive
    <3>2. Loose(m) \in Nat
      BY <1>0, LooseType
    <3>3. Loose(m) = 1
      <4>1. Count(wire, <<m, 1>>) \in Nat /\ Left(<<m, 1>>) \in Nat
        BY <1>5, <3>1
      <4>2. Count(wire, <<m, 1>>) + Left(<<m, 1>>) + Loose(m) = 1
        BY <2>2, <3>1
      <4>3. QED
        BY <2>1, <3>2, <4>1, <4>2
    <3>4. ASSUME NEW i \in 1..Size PROVE Count(wire, <<m, i>>) = 0 /\ Left(<<m, i>>) = 0
      <4>1. Count(wire, <<m, i>>) \in Nat /\ Left(<<m, i>>) \in Nat
        BY <1>5
      <4>2. QED
        BY <2>2, <3>3, <4>1
    <3>5. QED
      BY <3>3, <3>4
  <2>4. Loose(m)' = 0
    BY <1>3, <1>4, <1>6, <2>3
  <2>5. CASE dropped' = dropped \cup {p} /\ UNCHANGED <<high, low>>
    <3>1. \A i \in 1..Size : Left(<<m, i>>)' = 0 /\ Count(wire', <<m, i>>) = 0
      BY <1>2, <2>3, <2>5 DEF Left
    <3>2. QED
      BY <1>2, <1>6, <2>1, <2>4, <2>5, <3>1 DEF Where
  <2>6. CASE dropped' = dropped
    <3>1. \A i \in 1..Size : Left(<<m, i>>)' = 1 /\ Count(wire', <<m, i>>) = 0
      BY <1>5, <1>6, <2>1, <2>3, <2>6
    <3>2. QED
      BY <1>2, <2>1, <2>4, <2>6, <3>1 DEF Where
  <2>7. QED
    BY <1>2, <2>5, <2>6
<1>7. CASE m # p
  <2>1. Loose(m)' = Loose(m) /\ (m \in dropped' <=> m \in dropped)
    BY <1>2, <1>3, <1>4, <1>7
  <2>2. \A i \in 1..Size : /\ Count(wire', <<m, i>>) = Count(wire, <<m, i>>)
                           /\ Left(<<m, i>>)' = Left(<<m, i>>)
    BY <1>5, <1>7
  <2>3. QED
    BY <1>2, <2>1, <2>2 DEF Where
<1> QED
  BY <1>6, <1>7

LEMMA WhereStep == Base /\ Whereabouts /\ [Next]_vars => Whereabouts'
<1> SUFFICES ASSUME Base, Whereabouts, [Next]_vars, NEW k \in Package PROVE Where(k)'
  BY DEF Whereabouts
<1>0. PathType /\ InHand /\ Lists /\ Lists' /\ Gone /\ Where(k)
  BY ListsStep DEF Base, IInv, Calls, Shape, Whereabouts
<1>1. ASSUME NEW t \in Thread, NEW m \in Package, NEW c \in {"D", "P"}, Send(t, m, c)
      PROVE  Where(k)'
  <2>1. m \in fresh /\ fresh' = fresh \ {m} /\ UNCHANGED <<high, low, dw, wire>>
        /\ dropped' = (IF type = "invalid" THEN dropped \cup {m} ELSE dropped)
    BY <1>1 DEF Send, socket, peer
  <2>2. Loose(k)' = Loose(k) + (IF k = m /\ type # "invalid" THEN 1 ELSE 0)
    BY <1>1, LooseSend
  <2>3. Loose(k) \in Nat /\ \A i \in 1..Size : Left(<<k, i>>)' = Left(<<k, i>>)
    BY <1>0, <2>1, LooseType DEF Left
  <2>4. CASE k = m
    BY <1>0, <2>1, <2>2, <2>3, <2>4 DEF Where
  <2>5. CASE k # m
    BY <1>0, <2>1, <2>2, <2>3, <2>5 DEF Where
  <2>6. QED
    BY <2>4, <2>5
<1>2. ASSUME NEW t \in Thread, SendStep(t)
      PROVE  Where(k)'
  <2>1. CASE DirectWrite(t)
    BY <1>0, <2>1, WhereWrote
  <2>2. CASE ~DirectWrite(t)
    <3>1. UNCHANGED <<high, low, dw, wire, dropped, fresh>> /\ pc[t] # "write"
      BY <1>2, <2>2 DEF SendStep, Peek, TryLock, Look, DoubleCheck, EnableWrite,
         IncSendingRef, SendRequest, socket, peer
    <3>2. Loose(k)' = Loose(k)
      BY <1>0, <1>2, <3>1, LooseSendStep, LooseType
    <3>3. QED
      BY <1>0, <3>1, <3>2, WhereStays
  <2>3. QED
    BY <2>1, <2>2
<1>3. ASSUME NEW t \in Thread, NEW how \in {"K", "shutdown"}, Close(t, how)
      PROVE  Where(k)'
  <2>1. UNCHANGED <<high, low, dw, wire, dropped, fresh>>
    BY <1>3 DEF Close, socket, peer, senders
  <2>2. QED
    BY <1>0, <1>3, <2>1, LooseClose, WhereStays
<1>4. CASE CtrlSend
  BY <1>0, <1>4, WhereCtrlSend
<1>5. CASE CloseSocket
  <2>1. UNCHANGED <<pc, hand, fresh>> /\ pipe # << >> /\ pipe' = Tail(pipe) /\ ~Carries(Head(pipe))
        /\ (SendBuffer \/ UNCHANGED <<high, low, dw, wire, dropped>>)
    BY <1>5 DEF CloseSocket, Command, Carries, senders, socket, peer
  <2>2. Head(pipe)[2] # k
    BY <2>1, HeadRequest, WriteAssumption DEF Base, Calls, Requests
  <2>3. Loose(k)' = Loose(k)
    <3>1. Loose(k) = Loose(k)' + (IF Head(pipe)[2] = k THEN 1 ELSE 0)
      BY <2>1, LooseCommand
    <3>2. Holders(k)' = Holders(k)
      BY <2>1 DEF Holders, Owned
    <3>3. Cardinality(Mentions(k)) = Cardinality(Mentions(k)') + (IF Head(pipe)[2] = k THEN 1 ELSE 0)
      BY <1>0, <2>1, MentionsTail
    <3>4. Mentions(k)' = Hits(pipe', {c \in Request : c[2] = k}) /\ pipe' \in Seq(Request)
      <4>1. pipe' \in Seq(Request)
        BY <1>0, <2>1 DEF PathType
      <4>2. \A i \in 1..Len(pipe') : pipe'[i] \in Request
        BY <4>1
      <4>3. QED
        BY <4>1, <4>2 DEF Mentions, Hits
    <3>5. Cardinality(Mentions(k)') \in Nat
      BY <3>4, HitsFinite
    <3>6. QED
      BY <2>2, <3>2, <3>3, <3>5 DEF Loose
  <2>4. QED
    BY <1>0, <2>1, <2>3, WhereAfterSendBuffer, WhereStays
<1>6. CASE WriteEvent
  <2>1. UNCHANGED <<pc, hand, pipe, fresh>> /\ SendBuffer
    BY <1>6 DEF WriteEvent, senders
  <2>2. QED
    BY <1>0, <2>1, LooseSame, WhereAfterSendBuffer
<1>7. CASE CloseDecide \/ ReportConnect \/ ReadEnd
  <2>1. UNCHANGED <<pc, hand, pipe, fresh, wire, dw>> /\ (FreeLists \/ UNCHANGED <<high, low, dropped>>)
    BY <1>7 DEF CloseDecide, ReportConnect, ReadEnd, senders, peer
  <2>2. QED
    BY <1>0, <2>1, LooseSame, WhereFreed, WhereStays
<1>8. CASE ForceClose
  <2>1. UNCHANGED <<pc, hand, pipe, fresh, wire>> /\ Invalidate(dw) /\ high = << >> /\ low = << >>
    BY <1>0, <1>8 DEF ForceClose, Gone, senders, peer
  <2>2. k \in PackagesOf(dw) <=> k \in PackagesOf(high) \cup PackagesOf(low) \cup PackagesOf(dw)
    BY <2>1, PackagesType, Nothing DEF PackagesOf
  <2>3. QED
    BY <1>0, <2>1, <2>2, LooseSame, WhereInvalidate
<1>9. CASE DecSendingRef \/ ConnectNomore \/ DisableWrite
  <2>1. UNCHANGED <<pc, hand, pipe, fresh, wire, dw, high, low, dropped>>
    BY <1>9 DEF DecSendingRef, ConnectNomore, DisableWrite, senders, socket, peer
  <2>2. QED
    BY <1>0, <2>1, LooseSame, WhereStays
<1>10. CASE Connected \/ PeerReads \/ PeerEnds \/ PeerFails \/ UNCHANGED vars
  <2>1. UNCHANGED <<pc, hand, pipe, fresh, wire, dw, high, low, dropped>>
    BY <1>10 DEF Connected, PeerReads, PeerEnds, PeerFails, vars, senders, socket, peer
  <2>2. QED
    BY <1>0, <2>1, LooseSame, WhereStays
<1> QED
  BY <1>1, <1>2, <1>3, <1>4, <1>5, <1>6, <1>7, <1>8, <1>9, <1>10 DEF Next, SocketThread
LEMMA WhereInit == Init => Whereabouts
<1> SUFFICES ASSUME Init, NEW m \in Package PROVE Where(m)
  BY DEF Whereabouts
<1>1. high = << >> /\ low = << >> /\ dw = << >> /\ wire = << >> /\ pipe = << >>
      /\ fresh = Package /\ dropped = {} /\ \A t \in Thread : pc[t] = "idle"
  BY DEF Init
<1>2. \A b : Count(<< >>, b) = 0
  BY CountNothing
<1>3. \A b : Count(wire, b) = 0 /\ Left(b) = 0
  BY <1>1, <1>2 DEF Left
<1>4. Holders(m) = {} /\ Mentions(m) = {}
  BY <1>1 DEF Holders, Mentions, Owned
<1>5. Loose(m) = 0
  BY <1>4, FS_EmptySet DEF Loose
<1> QED
  BY <1>1, <1>3, <1>5 DEF Where

LEMMA WhereInvariant == Safety => [](Base /\ Whereabouts)
<1>1. Base /\ Whereabouts /\ [Next]_vars => Whereabouts'
  BY WhereStep
<1> QED
  BY <1>1, BaseInvariant, WhereInit, PTL DEF Safety

LEMMA HeldIs ==
  ASSUME Lists, PathType, InHand, NEW m \in Package, NEW i \in 1..Size
  PROVE  Held(<<m, i>>) = Left(<<m, i>>) + Loose(m)
<1> DEFINE b == <<m, i>>
<1>1. Count(high, b) \in Nat /\ Count(low, b) \in Nat /\ Count(dw, b) \in Nat
  BY CountTypes
<1>2. Cardinality(Holders(m)) \in Nat /\ Cardinality(Mentions(m)) \in Nat
  BY LooseType
<1>3. b[1] = m
  OBVIOUS
<1> HIDE DEF b
<1>4. Held(b) = Count(high, b) + Count(low, b) + Count(dw, b)
                  + Cardinality(Holders(m)) + Cardinality(Mentions(m))
  BY <1>3 DEF Held, Holders, Mentions
<1>5. Held(b) = Left(b) + Loose(m)
  BY <1>1, <1>2, <1>4 DEF Left, Loose
<1> QED
  BY <1>5 DEF b

\* Every byte handed over is in exactly one place until it is written.  One of
\* a package that was freed early is in none from which it could be written or
\* freed again: no list, no sender and no command has it any more.
THEOREM BytesAreAccounted == Safety => []Accounted
<1>1. Base /\ Whereabouts => Accounted
  <2> SUFFICES ASSUME Base, Whereabouts, NEW m \in Package \ fresh, NEW i \in 1..Size
               PROVE  IF m \in dropped
                      THEN Held(<<m, i>>) = 0 /\ Count(wire, <<m, i>>) <= 1
                      ELSE Held(<<m, i>>) + Count(wire, <<m, i>>) = 1
    BY DEF Accounted
  <2>1. PathType /\ InHand /\ Lists /\ Where(m)
    BY DEF Base, IInv, Calls, Shape, Whereabouts
  <2>2. Held(<<m, i>>) = Left(<<m, i>>) + Loose(m)
    BY <2>1, HeldIs
  <2>3. Left(<<m, i>>) \in Nat /\ Loose(m) \in Nat /\ Count(wire, <<m, i>>) \in Nat
    BY <2>1, CountTypes, LooseType
  <2>4. CASE m \in dropped
    <3>1. Loose(m) = 0 /\ Count(wire, <<m, i>>) <= 1 /\ Left(<<m, i>>) = 0
      BY <2>1, <2>4 DEF Where
    <3>2. QED
      BY <2>2, <2>3, <2>4, <3>1
  <2>5. CASE m \notin dropped
    <3>1. Count(wire, <<m, i>>) + Left(<<m, i>>) + Loose(m) = 1
      BY <2>1, <2>5 DEF Where
    <3>2. QED
      BY <2>2, <2>3, <2>5, <3>1
  <2>6. QED
    BY <2>4, <2>5
<1> QED
  BY <1>1, WhereInvariant, PTL
-----------------------------------------------------------------------------
(* The types.                                                              *)

\* The package that the socket thread has just put into a list is still counted.
DecPackage == sp = "dec" => \E m \in Package \ fresh : Loose(m) = 0

Types ==
  /\ type \in {"connecting", "connected", "halfclose", "invalid"}
  /\ epollout \in BOOLEAN
  /\ sp \in {"poll", "dec", "decide", "closing", "opened", "disable"}
  /\ op \in {"K", "shutdown", None}
  /\ conn \in {"connecting", "up", "ended", "gone"}
  /\ dropped \subseteq Package
  /\ closes \in Seq([op : {"K", "shutdown"}, before : SUBSET Package])

LEMMA LooseAtMostOne ==
  ASSUME PathType, InHand, Lists, NEW m \in Package, Where(m)
  PROVE  Loose(m) \in Nat /\ Loose(m) <= 1
<1>1. 1 \in 1..Size
  BY SizePositive
<1>2. Loose(m) \in Nat /\ Count(wire, <<m, 1>>) \in Nat /\ Left(<<m, 1>>) \in Nat
  BY LooseType, CountTypes
<1>3. m \notin fresh /\ m \notin dropped => Count(wire, <<m, 1>>) + Left(<<m, 1>>) + Loose(m) = 1
  BY <1>1 DEF Where
<1> QED
  BY <1>2, <1>3 DEF Where

LEMMA SameSize ==
  ASSUME NEW S, IsFiniteSet(S), NEW f, NEW T,
         \A x \in S : f[x] \in T,
         \A x, y \in S : f[x] = f[y] => x = y,
         \A y \in T : \E x \in S : f[x] = y
  PROVE  IsFiniteSet(T) /\ Cardinality(T) = Cardinality(S)
<1> DEFINE g == [x \in S |-> f[x]]
<1>1. g \in Bijection(S, T)
  BY DEF Bijection, Injection, Surjection, IsInjective
<1>2. ExistsBijection(S, T)
  BY <1>1 DEF ExistsBijection
<1> QED
  BY <1>2, FS_Bijection

LEMMA SendingBound ==
  ASSUME Base, Whereabouts, DecPackage
  PROVE  sending \in 0..Cardinality(Package)
<1> DEFINE A == {hand[t] : t \in Waiting}
           f == [i \in OnWay(pipe) |-> pipe[i][2]]
           B == {f[i] : i \in OnWay(pipe)}
           Q == {m \in Package : Loose(m) >= 1}
<1>0. PathType /\ InHand /\ Lists /\ pipe \in Seq(Request) /\ SendingTrue
  BY DEF Base, IInv, Calls, Shape, PathType
<1>1. \A m \in Package : Loose(m) \in Nat /\ Loose(m) <= 1
                         /\ Loose(m) = Cardinality(Holders(m)) + Cardinality(Mentions(m))
                         /\ Cardinality(Holders(m)) \in Nat /\ Cardinality(Mentions(m)) \in Nat
  BY <1>0, LooseAtMostOne, LooseType DEF Whereabouts, Loose
<1>2. \A t \in Waiting : /\ t \in Thread /\ pc[t] # "idle" /\ hand[t] \in Package
                         /\ Cardinality(Holders(hand[t])) = 1
  <2> SUFFICES ASSUME NEW t \in Waiting
               PROVE  /\ t \in Thread /\ pc[t] # "idle" /\ hand[t] \in Package
                      /\ Cardinality(Holders(hand[t])) = 1
    OBVIOUS
  <2>1. t \in Thread /\ pc[t] = "command"
    BY DEF Waiting
  <2>2. hand[t] \in Package /\ hand[t] \in Owned(t)
    BY <1>0, <2>1 DEF InHand, Owned
  <2>3. QED
    BY <1>0, <2>1, <2>2, HoldersOf
<1>3. \A i \in OnWay(pipe) : /\ i \in 1..Len(pipe) /\ pipe[i][2] \in Package
                             /\ i \in Mentions(pipe[i][2])
  <2>1. Range(sent) \subseteq Package
    BY RangeOf DEF Base, Calls, SentOnce
  <2>2. QED
    BY <2>1 DEF OnWay, Mentions, Base, Calls, Requests
<1>4. \A m \in Package : Mentions(m) = Hits(pipe, {c \in Request : c[2] = m})
  BY <1>0, MentionsAre
<1>5. \A i \in OnWay(pipe) : Cardinality(Mentions(pipe[i][2])) >= 1
  <2> SUFFICES ASSUME NEW i \in OnWay(pipe) PROVE Cardinality(Mentions(pipe[i][2])) >= 1
    OBVIOUS
  <2>1. IsFiniteSet(Mentions(pipe[i][2])) /\ Cardinality(Mentions(pipe[i][2])) \in Nat
    <3>1. PICK m \in Package : m = pipe[i][2]
      BY <1>3
    <3>2. Mentions(m) = Hits(pipe, {c \in Request : c[2] = m})
      BY <1>4
    <3>3. IsFiniteSet(Mentions(m)) /\ Cardinality(Mentions(m)) \in Nat
      BY <1>0, <3>2, HitsFinite
    <3>4. QED
      BY <3>1, <3>3
  <2>2. Mentions(pipe[i][2]) # {}
    BY <1>3
  <2>3. QED
    BY <2>1, <2>2, FS_EmptySet
<1>6. IsFiniteSet(A) /\ Cardinality(A) = Cardinality(Waiting)
  <2>1. \A t, u \in Waiting : hand[t] = hand[u] => t = u
    BY <1>0, <1>2, TwoHands
  <2>2. IsFiniteSet(Waiting)
    BY WaitingFinite
  <2>3. (\A t \in Waiting : hand[t] \in A) /\ (\A y \in A : \E t \in Waiting : hand[t] = y)
    OBVIOUS
  <2> HIDE DEF A
  <2>4. QED
    BY <2>1, <2>2, <2>3, SameSize
<1>7. IsFiniteSet(B) /\ Cardinality(B) = Cardinality(OnWay(pipe))
  <2>1. \A i, j \in OnWay(pipe) : f[i] = f[j] => i = j
    <3> SUFFICES ASSUME NEW i \in OnWay(pipe), NEW j \in OnWay(pipe), pipe[i][2] = pipe[j][2]
                 PROVE  i = j
      OBVIOUS
    <3> DEFINE m == pipe[i][2]
               X == {c \in Request : c[2] = m}
    <3>1. m \in Package /\ i \in Hits(pipe, X) /\ j \in Hits(pipe, X) /\ Mentions(m) = Hits(pipe, X)
      BY <1>3, <1>4
    <3>2. Cardinality(Mentions(m)) <= 1
      BY <1>1, <3>1
    <3> HIDE DEF X, m
    <3>3. Cardinality(Hits(pipe, X)) <= 1
      BY <3>1, <3>2
    <3>4. QED
      BY <1>0, <3>1, <3>3, HitsOnce
  <2>2. IsFiniteSet(OnWay(pipe))
    BY <1>0, OnWayFinite
  <2>3. (\A i \in OnWay(pipe) : f[i] \in B) /\ (\A y \in B : \E i \in OnWay(pipe) : f[i] = y)
    OBVIOUS
  <2> HIDE DEF B, f
  <2>4. QED
    BY <2>1, <2>2, <2>3, SameSize
<1>8. A \cap B = {}
  <2> SUFFICES ASSUME NEW t \in Waiting, NEW i \in OnWay(pipe), hand[t] = pipe[i][2]
               PROVE  FALSE
    OBVIOUS
  <2>1. hand[t] \in Package /\ Cardinality(Holders(hand[t])) = 1 /\ Cardinality(Mentions(hand[t])) >= 1
    BY <1>2, <1>5
  <2>2. QED
    BY <1>1, <2>1
<1>9. A \cup B \subseteq Q
  <2>1. \A t \in Waiting : hand[t] \in Q
    BY <1>1, <1>2
  <2>2. \A i \in OnWay(pipe) : pipe[i][2] \in Q
    BY <1>1, <1>3, <1>5
  <2>3. QED
    BY <2>1, <2>2
<1> HIDE DEF A, B, Q
<1>10. Cardinality(A \cup B) = Cardinality(A) + Cardinality(B)
  BY <1>6, <1>7, <1>8, DisjointUnion
<1>11. /\ IsFiniteSet(Package) /\ Cardinality(Package) \in Nat
  BY WriteAssumption, FS_CardinalityType
<1>12. IsFiniteSet(Q) /\ Cardinality(Q) \in Nat /\ Cardinality(Q) <= Cardinality(Package)
       /\ (sp = "dec" => Cardinality(Q) + 1 <= Cardinality(Package))
  <2>1. Q \subseteq Package
    BY DEF Q
  <2>2. IsFiniteSet(Q) /\ Cardinality(Q) <= Cardinality(Package)
        /\ (Cardinality(Package) = Cardinality(Q) => Package = Q)
    BY <1>11, <2>1, FS_Subset
  <2>3. sp = "dec" => Package # Q
    BY DEF DecPackage, Q
  <2>4. Cardinality(Q) \in Nat
    BY <2>2, FS_CardinalityType
  <2>5. QED
    BY <1>11, <2>2, <2>3, <2>4
<1>13. Cardinality(A \cup B) <= Cardinality(Q)
  BY <1>9, <1>12, FS_Subset
<1>14. Cardinality(Waiting) \in Nat /\ Cardinality(OnWay(pipe)) \in Nat
  BY <1>0, WaitingFinite, OnWayFinite
<1>15. sending = Cardinality(Waiting) + Cardinality(OnWay(pipe)) + (IF sp = "dec" THEN 1 ELSE 0)
  BY <1>0, SendingIsTotal DEF Total
<1>16. Cardinality(Waiting) + Cardinality(OnWay(pipe)) <= Cardinality(Q)
  BY <1>6, <1>7, <1>10, <1>13
<1> QED
  BY <1>11, <1>12, <1>14, <1>15, <1>16
-----------------------------------------------------------------------------
(* The count never exceeds the packages.                                   *)

LEMMA DecStep == Base /\ Whereabouts /\ DecPackage /\ [Next]_vars => DecPackage'
<1> SUFFICES ASSUME Base, Whereabouts, DecPackage, [Next]_vars, sp' = "dec"
             PROVE  \E m \in Package \ fresh' : Loose(m)' = 0
  BY DEF DecPackage
<1>0. PathType /\ InHand /\ Lists
  BY DEF Base, IInv, Calls, Shape
<1>1. CASE CtrlSend
  <2>1. PICK m \in Package : m = Head(pipe)[2] /\ m \notin fresh
    BY <1>1, CtrlSendPackage
  <2>10. /\ pipe # << >> /\ pipe' = Tail(pipe)
        /\ UNCHANGED <<pc, hand, fresh>>
    BY <1>1, CtrlSendPackage DEF CtrlSend, senders
  <2>2. Loose(m) = Loose(m)' + 1
    BY <2>1, <2>10, LooseCommand
  <2>3. Loose(m) \in Nat /\ Loose(m) <= 1
    BY <1>0, <2>1, LooseAtMostOne DEF Whereabouts
  <2>4. Cardinality(Mentions(m)) = Cardinality(Mentions(m)') + 1
    BY <1>0, <2>1, <2>10, MentionsTail
  <2>5. Cardinality(Mentions(m)) \in Nat /\ Cardinality(Holders(m)) \in Nat
        /\ Loose(m) = Cardinality(Holders(m)) + Cardinality(Mentions(m))
    BY <1>0, LooseType DEF Loose
  <2>6. Cardinality(Mentions(m)') \in Nat
    <3>1. pipe' \in Seq(Request)
      BY <1>0, <2>10 DEF PathType
    <3>2. Mentions(m)' = Hits(pipe', {c \in Request : c[2] = m})
      <4>1. \A i \in 1..Len(pipe') : pipe'[i] \in Request
        BY <3>1
      <4>2. QED
        BY <4>1 DEF Mentions, Hits
    <3>3. QED
      BY <3>1, <3>2, HitsFinite
  <2>7. Holders(m)' = Holders(m)
    BY <2>10 DEF Holders, Owned
  <2>8. QED
    BY <2>1, <2>3, <2>4, <2>5, <2>6, <2>7, <2>10 DEF Loose
<1>2. CASE ~CtrlSend
  <2>1. sp = "dec"
    BY <1>2 DEF Next, Send, SendStep, Peek, TryLock, Look, DoubleCheck, DirectWrite, EnableWrite,
       IncSendingRef, SendRequest, Close, SocketThread, ForceClose, DecSendingRef, CloseSocket,
       CloseDecide, ReportConnect, ConnectNomore, DisableWrite, WriteEvent, ReadEnd, FreeLists,
       Connected, PeerReads, PeerEnds, PeerFails, vars
  <2>2. PICK m \in Package \ fresh : Loose(m) = 0
    BY <2>1 DEF DecPackage
  <2>3. m \in Package /\ m \notin fresh
    BY <2>2
  <2>4. ASSUME NEW t \in Thread, NEW n \in Package, NEW c \in {"D", "P"}, Send(t, n, c)
        PROVE  m \notin fresh' /\ Loose(m)' = 0
    <3>1. n \in fresh /\ fresh' = fresh \ {n}
      BY <2>4 DEF Send
    <3>2. Loose(m)' = Loose(m) + (IF m = n /\ type # "invalid" THEN 1 ELSE 0)
      BY <2>4, LooseSend
    <3>3. QED
      BY <2>2, <2>3, <3>1, <3>2
  <2>5. ASSUME NEW t \in Thread, SendStep(t)
        PROVE  m \notin fresh' /\ Loose(m)' = 0
    <3>1. fresh' = fresh
      BY <2>5 DEF SendStep, Peek, TryLock, Look, DoubleCheck, DirectWrite, EnableWrite,
         IncSendingRef, SendRequest
    <3>2. Loose(m)' = Loose(m) - (IF pc[t] = "write" /\ m = hand[t] THEN 1 ELSE 0)
      BY <2>5, LooseSendStep
    <3>3. ~(pc[t] = "write" /\ m = hand[t])
      <4>1. pc[t] = "write" /\ m = hand[t] => m \in Owned(t)
        BY DEF Owned
      <4>2. m \in Owned(t) => Cardinality(Holders(m)) = 1
        BY <1>0, HoldersOf
      <4>3. Loose(m) = Cardinality(Holders(m)) + Cardinality(Mentions(m))
            /\ Cardinality(Mentions(m)) \in Nat
        BY <1>0, LooseType DEF Loose
      <4>4. QED
        BY <2>2, <4>1, <4>2, <4>3
    <3>4. QED
      <4>1. Loose(m) = 0 /\ (IF pc[t] = "write" /\ m = hand[t] THEN 1 ELSE 0) = 0
        BY <2>2, <3>3
      <4>2. m \notin fresh'
        BY <2>3, <3>1
      <4>3. Loose(m)' = 0 - 0
        BY <3>2, <4>1
      <4>4. QED
        BY <4>2, <4>3
  <2>6. ASSUME NEW t \in Thread, NEW how \in {"K", "shutdown"}, Close(t, how)
        PROVE  m \notin fresh' /\ Loose(m)' = 0
    <3>1. fresh' = fresh
      BY <2>6 DEF Close, senders
    <3>2. Loose(m)' = Loose(m)
      BY <2>3, <2>6, LooseClose
    <3>3. QED
      BY <2>2, <2>3, <3>1, <3>2
  <2>7. CASE SocketThread
    <3>1. FALSE
      BY <1>2, <2>1, <2>7 DEF SocketThread, ForceClose, DecSendingRef, CloseSocket, Command, Writable,
       CloseDecide, ReportConnect, ConnectNomore, DisableWrite, WriteEvent, ReadEnd, FreeLists
    <3>2. QED
      BY <3>1
  <2>8. CASE Connected \/ PeerReads \/ PeerEnds \/ PeerFails \/ UNCHANGED vars
    <3>1. UNCHANGED <<pc, hand, pipe, fresh>>
      BY <2>8 DEF Connected, PeerReads, PeerEnds, PeerFails, vars, senders
    <3>2. Loose(m)' = Loose(m)
      BY <3>1, LooseSame
    <3>3. QED
      BY <2>2, <2>3, <3>1, <3>2
  <2>9. QED
    BY <2>3, <2>4, <2>5, <2>6, <2>7, <2>8 DEF Next
<1> QED
  BY <1>1, <1>2

LEMMA LostPackages ==
  ASSUME Lists
  PROVE  /\ PackagesOf(high \o low) \subseteq Package
         /\ PackagesOf(dw) \subseteq Package
         /\ PackagesOf((dw \o high) \o low) \subseteq Package
<1>1. high \o low \in Seq(Byte) /\ dw \o high \in Seq(Byte)
  BY Joined DEF Lists
<1>2. (dw \o high) \o low \in Seq(Byte)
  BY <1>1, Joined DEF Lists
<1> QED
  BY <1>1, <1>2, PackagesType DEF Lists

LEMMA TypesStep == Base /\ Types /\ [Next]_vars => Types'
<1> SUFFICES ASSUME Base, Types, [Next]_vars PROVE Types'
  OBVIOUS
<1>0. Lists
  BY DEF Base, Shape
<1>1. dropped' \subseteq Package
  <2>1. ASSUME SendBuffer PROVE dropped' \subseteq Package
    <3>1. Fails \/ dropped' = dropped
      BY <1>0, <2>1, SendBufferCases
    <3>2. QED
      BY <1>0, <3>1, LostPackages DEF Fails, Invalidate, Types
  <2>2. ASSUME FreeLists PROVE dropped' \subseteq Package
    BY <1>0, <2>2, LostPackages DEF FreeLists, Types
  <2>3. CASE CtrlSend
    BY <2>3, CtrlSendPackage DEF CtrlSend, Types
  <2>4. CASE ForceClose
    BY <1>0, <2>4, LostPackages DEF ForceClose, Invalidate, Types
  <2>5. CASE WriteEvent \/ CloseSocket
    <3>1. SendBuffer \/ dropped' = dropped
      BY <2>5 DEF WriteEvent, CloseSocket
    <3>2. QED
      BY <2>1, <3>1 DEF Types
  <2>6. CASE CloseDecide \/ ReportConnect \/ ReadEnd
    <3>1. FreeLists \/ dropped' = dropped
      BY <2>6 DEF CloseDecide, ReportConnect, ReadEnd
    <3>2. QED
      BY <2>2, <3>1 DEF Types
  <2>7. CASE DecSendingRef \/ ConnectNomore \/ DisableWrite \/ Connected \/ PeerReads \/ PeerEnds \/ PeerFails
             \/ UNCHANGED vars
    BY <2>7 DEF DecSendingRef, ConnectNomore, DisableWrite, Connected, PeerReads, PeerEnds, PeerFails, vars, Types
  <2>8. ASSUME NEW t \in Thread, NEW m \in Package, NEW c \in {"D", "P"}, Send(t, m, c)
        PROVE  dropped' \subseteq Package
    BY <2>8 DEF Send, Types
  <2>9. ASSUME NEW t \in Thread, SendStep(t)
        PROVE  dropped' \subseteq Package
    BY <2>9 DEF SendStep, Peek, TryLock, Look, DoubleCheck, DirectWrite, EnableWrite,
       IncSendingRef, SendRequest, Types
  <2>10. ASSUME NEW t \in Thread, NEW how \in {"K", "shutdown"}, Close(t, how)
        PROVE  dropped' \subseteq Package
    BY <2>10 DEF Close, Types
  <2>11. QED
    BY <2>3, <2>4, <2>5, <2>6, <2>7, <2>8, <2>9, <2>10 DEF Next, SocketThread
<1>2. closes' \in Seq([op : {"K", "shutdown"}, before : SUBSET Package])
  <2>1. ASSUME NEW t \in Thread, NEW how \in {"K", "shutdown"}, Close(t, how)
        PROVE  closes' \in Seq([op : {"K", "shutdown"}, before : SUBSET Package])
    <3>1. Range(sent) \subseteq Package
      BY RangeOf DEF Base, Calls, SentOnce
    <3>2. [op |-> how, before |-> Range(sent)] \in [op : {"K", "shutdown"}, before : SUBSET Package]
      BY <3>1
    <3>3. closes' = Append(closes, [op |-> how, before |-> Range(sent)])
      BY <2>1 DEF Close
    <3>4. QED
      BY <3>2, <3>3 DEF Types
  <2>2. ASSUME NEW t \in Thread, NEW m \in Package, NEW c \in {"D", "P"}, Send(t, m, c)
        PROVE  closes' = closes
    BY <2>2 DEF Send
  <2>3. ASSUME NEW t \in Thread, SendStep(t)
        PROVE  closes' = closes
    BY <2>3 DEF SendStep, Peek, TryLock, Look, DoubleCheck, DirectWrite, EnableWrite,
       IncSendingRef, SendRequest
  <2>4. ASSUME SocketThread \/ Connected \/ PeerReads \/ PeerEnds \/ PeerFails \/ UNCHANGED vars
        PROVE  closes' = closes
    BY <2>4 DEF SocketThread, ForceClose, CtrlSend, DecSendingRef, CloseSocket,
       CloseDecide, ReportConnect, ConnectNomore, DisableWrite, WriteEvent, ReadEnd,
       Connected, PeerReads, PeerEnds, PeerFails, vars
  <2>5. QED
    BY <2>1, <2>2, <2>3, <2>4 DEF Next, Types
<1>3. type' \in {"connecting", "connected", "halfclose", "invalid"} /\ epollout' \in BOOLEAN
  <2>1. ASSUME SendBuffer
        PROVE type' \in {"connecting", "connected", "halfclose", "invalid"} /\ epollout' \in BOOLEAN
    BY <2>1 DEF SendBuffer, Invalidate, Types
  <2>2. CASE WriteEvent \/ CloseSocket
    <3>1. SendBuffer \/ (type' = type /\ epollout' = epollout)
      BY <2>2 DEF WriteEvent, CloseSocket, socket
    <3>2. QED
      BY <2>1, <3>1 DEF Types
  <2>3. CASE CloseDecide \/ ReportConnect \/ ReadEnd \/ CtrlSend \/ ForceClose
    BY <2>3 DEF CloseDecide, ReportConnect, ReadEnd, FreeLists, CtrlSend, ForceClose, Invalidate, Types
  <2>7. CASE DecSendingRef \/ ConnectNomore \/ DisableWrite \/ Connected \/ PeerReads \/ PeerEnds \/ PeerFails
             \/ UNCHANGED vars
    BY <2>7 DEF DecSendingRef, ConnectNomore, DisableWrite, Connected, PeerReads, PeerEnds, PeerFails, vars, socket, Types
  <2>8. ASSUME NEW t \in Thread, NEW m \in Package, NEW c \in {"D", "P"}, Send(t, m, c)
        PROVE  type' = type /\ epollout' = epollout
    BY <2>8 DEF Send, socket
  <2>9. ASSUME NEW t \in Thread, SendStep(t)
        PROVE  type' = type /\ epollout' \in {TRUE, epollout}
    BY <2>9 DEF SendStep, Peek, TryLock, Look, DoubleCheck, DirectWrite, EnableWrite,
       IncSendingRef, SendRequest, socket
  <2>10. ASSUME NEW t \in Thread, NEW how \in {"K", "shutdown"}, Close(t, how)
        PROVE  type' = type /\ epollout' = epollout
    BY <2>10 DEF Close, socket
  <2>11. QED
    BY <2>2, <2>3, <2>7, <2>8, <2>9, <2>10 DEF Next, SocketThread, Types
<1>4. /\ sp' \in {"poll", "dec", "decide", "closing", "opened", "disable"}
      /\ op' \in {"K", "shutdown", None}
      /\ conn' \in {"connecting", "up", "ended", "gone"}
  <2>3. CASE SocketThread
    <3>1. CASE CloseSocket
      BY <3>1 DEF CloseSocket, Command, peer, Types
    <3>2. CASE ~CloseSocket
      BY <2>3, <3>2 DEF SocketThread, ForceClose, CtrlSend, DecSendingRef, FreeLists,
       CloseDecide, ReportConnect, ConnectNomore, DisableWrite, WriteEvent, ReadEnd, peer, Types
    <3>3. QED
      BY <3>1, <3>2
  <2>7. CASE Connected \/ PeerReads \/ PeerEnds \/ PeerFails \/ UNCHANGED vars
    BY <2>7 DEF Connected, PeerReads, PeerEnds, PeerFails, vars, peer, Types
  <2>8. ASSUME NEW t \in Thread, NEW m \in Package, NEW c \in {"D", "P"}, Send(t, m, c)
        PROVE  UNCHANGED <<sp, op, conn>>
    BY <2>8 DEF Send, peer
  <2>9. ASSUME NEW t \in Thread, SendStep(t)
        PROVE  UNCHANGED <<sp, op, conn>>
    BY <2>9 DEF SendStep, Peek, TryLock, Look, DoubleCheck, DirectWrite, EnableWrite,
       IncSendingRef, SendRequest, peer
  <2>10. ASSUME NEW t \in Thread, NEW how \in {"K", "shutdown"}, Close(t, how)
        PROVE  UNCHANGED <<sp, op, conn>>
    BY <2>10 DEF Close, peer
  <2>11. QED
    BY <2>3, <2>7, <2>8, <2>9, <2>10 DEF Next, Types
<1> QED
  BY <1>1, <1>2, <1>3, <1>4 DEF Types

\* Every variable has its type: the number of packages on their way never
\* exceeds the packages, and the low list starts with a whole package (the
\* assertion of send_buffer_).
THEOREM SocketTypes == Safety => []TypeOK
<1>1. Init => DecPackage /\ Types
  BY WriteAssumption DEF Init, DecPackage, Types
<1>2. Base /\ Whereabouts /\ DecPackage /\ Types => TypeOK
  <2> SUFFICES ASSUME Base, Whereabouts, DecPackage, Types PROVE TypeOK
    OBVIOUS
  <2>1. PathType /\ Lists /\ Lock /\ SentOnce
    BY DEF Base, IInv, Shape, Calls
  <2>2. sending \in 0..Cardinality(Package)
    BY SendingBound
  <2>3. LowWhole
    BY <2>1 DEF LowWhole, Lists, Stream, Starts
  <2>4. {high, low, dw, wire} \subseteq Seq(Package \X (1..Size)) /\ room \in 0..Capacity
    BY <2>1 DEF Lists, Byte
  <2>5. holder \in Thread \cup {None}
    BY <2>1 DEF Lock
  <2>6. /\ pipe \in Seq(Commands \X (Package \cup {None}))
        /\ pc \in [Thread -> {"idle", "peek", "try", "look", "double", "write",
                        "enable", "count", "command"}]
        /\ hand \in [Thread -> Package \cup {None}]
        /\ cmd \in [Thread -> {"D", "P"}]
    BY <2>1 DEF PathType, Request
  <2>7. /\ fresh \subseteq Package
        /\ sent \in Seq(Package)
        /\ sender \in [Package -> (Thread \X {"D", "P"}) \cup {<< >>}]
    BY <2>1 DEF SentOnce
  <2>8. QED
    BY <2>2, <2>3, <2>4, <2>5, <2>6, <2>7 DEF TypeOK, Types
<1> QED
  BY <1>1, <1>2, WhereInvariant, DecStep, TypesStep, PTL DEF Safety
-----------------------------------------------------------------------------
(* What the calls of socket_server_close and _shutdown leave behind.       *)

\* The lists are those that the senders and the socket thread fill and empty.
Alive == ~ListsFreed

\* The peer has neither ended its side nor failed.
Sound == conn \in {"connecting", "up"}

Asked(x) == \E i \in 1..Len(pipe) : pipe[i][1] = x

Marks ==
  /\ (sp = "decide" /\ op = "shutdown") \/ Asked("shutdown") => ~NoShutdown
  /\ sp = "decide" \/ Asked("K") \/ Asked("shutdown") => closes # << >>
  /\ sp = "decide" => op \in {"K", "shutdown"}
  /\ type = "halfclose" => closes # << >>
  /\ Sound /\ ListsFreed => closes # << >>
  /\ Alive /\ dropped # {} => type = "halfclose"

LEMMA AskedAppend ==
  ASSUME PathType, NEW c \in Request, pipe' = Append(pipe, c), NEW x
  PROVE  Asked(x)' <=> Asked(x) \/ c[1] = x
<1>1. pipe \in Seq(Request)
  BY DEF PathType
<1>2. Len(pipe') = Len(pipe) + 1 /\ pipe'[Len(pipe) + 1] = c /\ Len(pipe) \in Nat
      /\ \A i \in 1..Len(pipe) : pipe'[i] = pipe[i]
  BY <1>1
<1>3. Asked(x) => Asked(x)'
  BY <1>2 DEF Asked
<1>4. c[1] = x => Asked(x)'
  <2>1. Len(pipe) + 1 \in 1..Len(pipe')
    BY <1>2
  <2>2. QED
    BY <1>2, <2>1 DEF Asked
<1>5. ASSUME NEW i \in 1..Len(pipe'), pipe'[i][1] = x PROVE Asked(x) \/ c[1] = x
  <2>1. i \in 1..Len(pipe) \/ i = Len(pipe) + 1
    BY <1>2
  <2>2. QED
    BY <1>2, <1>5, <2>1 DEF Asked
<1> QED
  BY <1>3, <1>4, <1>5 DEF Asked

LEMMA AskedTail ==
  ASSUME PathType, pipe # << >>, pipe' = Tail(pipe), NEW x
  PROVE  (Asked(x)' => Asked(x)) /\ Asked(Head(pipe)[1])
<1>1. pipe \in Seq(Request) /\ 1 \in 1..Len(pipe) /\ Head(pipe) = pipe[1]
  BY DEF PathType
<1>2. ASSUME NEW i \in 1..Len(pipe'), pipe'[i][1] = x PROVE Asked(x)
  <2>1. i + 1 \in 1..Len(pipe) /\ pipe'[i] = pipe[i + 1]
    BY <1>1
  <2>2. QED
    BY <1>2, <2>1 DEF Asked
<1> QED
  BY <1>1, <1>2 DEF Asked

LEMMA ClosesGrow ==
  ASSUME Types, NEW t \in Thread, NEW how \in {"K", "shutdown"}, Close(t, how)
  PROVE  /\ closes' # << >>
         /\ NoShutdown' <=> NoShutdown /\ how = "K"
<1> DEFINE r == [op |-> how, before |-> Range(sent)]
<1>1. closes' = Append(closes, r) /\ r.op = how
  BY DEF Close
<1>2. closes \in Seq([op : {"K", "shutdown"}, before : SUBSET Package])
  BY DEF Types
<1> HIDE DEF r
<1>3. Len(closes') = Len(closes) + 1 /\ Len(closes) \in Nat /\ closes'[Len(closes) + 1] = r
      /\ \A i \in 1..Len(closes) : closes'[i] = closes[i]
  BY <1>1, <1>2
<1>4. closes' # << >>
  BY <1>1, <1>2
<1>5. ASSUME NoShutdown' PROVE NoShutdown /\ how = "K"
  <2>1. \A i \in 1..Len(closes) : i \in 1..Len(closes')
    BY <1>3
  <2>2. Len(closes) + 1 \in 1..Len(closes')
    BY <1>3
  <2>3. QED
    BY <1>1, <1>3, <1>5, <2>1, <2>2 DEF NoShutdown
<1>6. ASSUME NoShutdown, how = "K" PROVE NoShutdown'
  <2>1. \A i \in 1..Len(closes') : i \in 1..Len(closes) \/ i = Len(closes) + 1
    BY <1>3
  <2>2. QED
    BY <1>1, <1>3, <1>6, <2>1 DEF NoShutdown
<1> QED
  BY <1>4, <1>5, <1>6

\* A step of a thread that sends leaves the state of the connection alone.
LEMMA SendersFrame ==
  ASSUME \/ \E t \in Thread, m \in Package, c \in {"D", "P"} : Send(t, m, c)
         \/ \E t \in Thread : SendStep(t)
  PROVE  UNCHANGED <<type, sp, op, conn, closes>>
<1>1. ASSUME NEW t \in Thread, NEW m \in Package, NEW c \in {"D", "P"}, Send(t, m, c)
      PROVE  UNCHANGED <<type, sp, op, conn, closes>>
  BY <1>1 DEF Send, socket, peer
<1>2. ASSUME NEW t \in Thread, SendStep(t)
      PROVE  UNCHANGED <<type, sp, op, conn, closes>>
  BY <1>2 DEF SendStep, Peek, TryLock, Look, DoubleCheck, DirectWrite, EnableWrite,
     IncSendingRef, SendRequest, socket, peer
<1> QED
  BY <1>1, <1>2

LEMMA SocketFrame ==
  ASSUME SocketThread \/ Connected \/ PeerReads \/ PeerEnds \/ PeerFails \/ UNCHANGED vars
  PROVE  UNCHANGED <<pc, hand, cmd, fresh, sent, sender, closes>>
         /\ (Sound' => Sound)
BY DEF SocketThread, ForceClose, CtrlSend, DecSendingRef, CloseSocket,
     CloseDecide, ReportConnect, ConnectNomore, DisableWrite, WriteEvent, ReadEnd,
     Connected, PeerReads, PeerEnds, PeerFails, vars, senders, peer, Sound

\* What force_close has freed stays freed, and a connection that has ended or
\* is broken remains so.
LEMMA StaysGone ==
  ASSUME Base, Types, [Next]_vars
  PROVE  /\ Alive' => Alive
         /\ NoShutdown' => NoShutdown
         /\ closes # << >> => closes' # << >>
         /\ Sound' => Sound
         /\ type = "invalid" => type' = "invalid"
<1>1. CASE \E t \in Thread, how \in {"K", "shutdown"} : Close(t, how)
  <2>1. UNCHANGED <<type, conn, sp>>
    BY <1>1 DEF Close, socket, peer
  <2>2. QED
    BY <1>1, <2>1, ClosesGrow DEF Alive, ListsFreed, Sound
<1>2. CASE \/ \E t \in Thread, m \in Package, c \in {"D", "P"} : Send(t, m, c)
           \/ \E t \in Thread : SendStep(t)
  BY <1>2, SendersFrame DEF Alive, ListsFreed, NoShutdown, Sound
<1>3. CASE SocketThread \/ Connected \/ PeerReads \/ PeerEnds \/ PeerFails \/ UNCHANGED vars
  <2>1. closes' = closes /\ (Sound' => Sound)
    BY <1>3, SocketFrame
  <2>2. ASSUME type = "invalid" PROVE type' = "invalid"
    <3>1. CASE CloseDecide \/ CloseSocket
      BY <2>2, <3>1 DEF CloseDecide, CloseSocket, Base, Shape, Gone, socket
    <3>2. CASE ~(CloseDecide \/ CloseSocket)
      BY <1>3, <2>2, <3>2 DEF SocketThread, ForceClose, CtrlSend, DecSendingRef, Invalidate,
         ReportConnect, ConnectNomore, DisableWrite, WriteEvent, ReadEnd,
         Connected, PeerReads, PeerEnds, PeerFails, vars, socket
    <3>3. QED
      BY <3>1, <3>2
  <2>3. ASSUME sp = "closing" PROVE ListsFreed'
    BY <1>3, <2>3 DEF SocketThread, ForceClose, Invalidate, CtrlSend, DecSendingRef, CloseSocket,
       CloseDecide, ReportConnect, ConnectNomore, DisableWrite, WriteEvent, ReadEnd, Command, Writable,
       Connected, PeerReads, PeerEnds, PeerFails, vars, ListsFreed
  <2>4. QED
    BY <2>1, <2>2, <2>3 DEF Alive, ListsFreed, NoShutdown
<1> QED
  BY <1>1, <1>2, <1>3 DEF Next

LEMMA MarksStep == Base /\ Types /\ Marks /\ [Next]_vars => Marks'
<1> SUFFICES ASSUME Base, Types, Marks, [Next]_vars PROVE Marks'
  OBVIOUS
<1>0. PathType /\ Lists /\ Gone /\ InHand
  BY DEF Base, IInv, Shape, Calls
<1>s. /\ Alive' => Alive
      /\ NoShutdown' => NoShutdown
      /\ closes # << >> => closes' # << >>
      /\ Sound' => Sound
      /\ type = "invalid" => type' = "invalid"
  BY StaysGone
<1>1. CASE \/ \E t \in Thread, m \in Package, c \in {"D", "P"} : Send(t, m, c)
           \/ \E t \in Thread : SendStep(t)
  <2>1. UNCHANGED <<type, sp, op, conn, closes>>
    BY <1>1, SendersFrame
  <2>2. dropped' = dropped \/ type = "invalid"
    BY <1>1 DEF Send, SendStep, Peek, TryLock, Look, DoubleCheck, DirectWrite, EnableWrite,
       IncSendingRef, SendRequest
  <2>3. ASSUME NEW x \in {"K", "shutdown"} PROVE Asked(x)' <=> Asked(x)
    <3>1. CASE pipe' = pipe
      BY <3>1 DEF Asked
    <3>2. CASE \E t \in Thread : SendRequest(t)
      <4>1. PICK t \in Thread : SendRequest(t)
        BY <3>2
      <4>2. pipe' = Append(pipe, <<cmd[t], hand[t]>>)
        BY <4>1 DEF SendRequest
      <4>3. <<cmd[t], hand[t]>> \in Request /\ cmd[t] # x
        BY <1>0 DEF PathType, Request, Commands
      <4>4. QED
        BY <1>0, <4>2, <4>3, AskedAppend
    <3>3. pipe' = pipe \/ \E t \in Thread : SendRequest(t)
      BY <1>1 DEF Send, SendStep, Peek, TryLock, Look, DoubleCheck, DirectWrite, EnableWrite,
         IncSendingRef
    <3>4. QED
      BY <3>1, <3>2, <3>3
  <2>4. NoShutdown' <=> NoShutdown
    BY <2>1 DEF NoShutdown
  <2>5. QED
    BY <2>1, <2>2, <2>3, <2>4 DEF Marks, Alive, ListsFreed, Sound
<1>2. ASSUME NEW t \in Thread, NEW how \in {"K", "shutdown"}, Close(t, how)
      PROVE  Marks'
  <2>1. UNCHANGED <<type, sp, op, conn, dropped>> /\ pipe' = Append(pipe, <<how, None>>)
    BY <1>2 DEF Close, socket, peer
  <2>2. closes' # << >> /\ (NoShutdown' <=> NoShutdown /\ how = "K")
    BY <1>2, ClosesGrow
  <2>3. <<how, None>> \in Request /\ <<how, None>>[1] = how
    BY DEF Request, Commands
  <2>4. Asked("shutdown")' <=> Asked("shutdown") \/ how = "shutdown"
    BY <1>0, <2>1, <2>3, AskedAppend
  <2>5. QED
    BY <2>1, <2>2, <2>4 DEF Marks, Alive, ListsFreed, Sound
<1>3. ASSUME SendBuffer, closes' = closes, conn' = conn, sp = "poll"
      PROVE  /\ type' = "halfclose" => closes' # << >>
             /\ Sound' /\ type' = "invalid" => closes' # << >>
             /\ type' # "invalid" /\ dropped' # {} => type' = "halfclose"
  <2>1. \/ conn = "gone" /\ type' = "invalid"
        \/ dropped' = dropped /\ (type' = type \/ (type = "halfclose" /\ type' = "invalid"))
    BY <1>0, <1>3, SendBufferCases DEF Fails, Invalidate
  <2>2. QED
    BY <1>3, <2>1 DEF Marks, Alive, ListsFreed, Sound
<1>4. CASE CloseSocket
  <2>1. /\ pipe # << >> /\ pipe' = Tail(pipe) /\ Head(pipe)[1] \in {"K", "shutdown"}
        /\ closes' = closes /\ conn' = conn /\ sp = "poll"
        /\ \/ UNCHANGED <<type, dropped, sp, op>>
           \/ /\ op' = Head(pipe)[1]
              /\ sp' = IF type' = "invalid" THEN "poll" ELSE "decide"
              /\ SendBuffer \/ UNCHANGED <<type, dropped>>
    BY <1>4 DEF CloseSocket, Command, socket, peer
  <2>2. \A x : Asked(x)' => Asked(x)
    BY <1>0, <2>1, AskedTail
  <2>3. Asked(Head(pipe)[1])
    BY <1>0, <2>1, AskedTail
  <2>4. NoShutdown' <=> NoShutdown
    BY <2>1 DEF NoShutdown
  <2>5. /\ (sp' = "decide" /\ op' = "shutdown") \/ Asked("shutdown")' => ~NoShutdown'
        /\ sp' = "decide" \/ Asked("K")' \/ Asked("shutdown")' => closes' # << >>
        /\ sp' = "decide" => op' \in {"K", "shutdown"}
        /\ sp' # "closing"
    <3>1. CASE UNCHANGED <<sp, op>>
      BY <2>1, <2>2, <2>4, <3>1 DEF Marks
    <3>2. CASE op' = Head(pipe)[1] /\ sp' \in {"poll", "decide"}
      BY <2>1, <2>2, <2>3, <2>4, <3>2 DEF Marks
    <3>3. QED
      BY <2>1, <3>1, <3>2
  <2>6. /\ type' = "halfclose" => closes' # << >>
        /\ Sound' /\ type' = "invalid" => closes' # << >>
        /\ type' # "invalid" /\ dropped' # {} => type' = "halfclose"
    <3>1. CASE SendBuffer
      BY <1>3, <2>1, <3>1
    <3>2. CASE UNCHANGED <<type, dropped>>
      BY <2>1, <2>4, <3>2 DEF Marks, Alive, ListsFreed, Sound
    <3>3. QED
      BY <2>1, <3>1, <3>2
  <2>7. QED
    BY <2>1, <2>5, <2>6 DEF Marks, Alive, ListsFreed
<1>5. ASSUME \/ CtrlSend \/ DecSendingRef \/ CloseDecide \/ ReportConnect \/ ConnectNomore
             \/ DisableWrite \/ WriteEvent \/ ReadEnd \/ ForceClose
             \/ Connected \/ PeerReads \/ PeerEnds \/ PeerFails \/ UNCHANGED vars,
             NEW x
      PROVE  Asked(x)' => Asked(x)
  <2>1. CASE CtrlSend
    <3>1. pipe # << >> /\ pipe' = Tail(pipe)
      BY <2>1, CtrlSendPackage
    <3>2. QED
      BY <1>0, <3>1, AskedTail
  <2>2. CASE ~CtrlSend
    <3>1. pipe' = pipe
      BY <1>5, <2>2 DEF DecSendingRef, CloseDecide, ReportConnect, ConnectNomore,
         DisableWrite, WriteEvent, ReadEnd, ForceClose, Connected, PeerReads, PeerEnds, PeerFails, vars
    <3>2. QED
      BY <3>1 DEF Asked
  <2>3. QED
    BY <2>1, <2>2
<1>6. CASE CtrlSend
  <2>1. UNCHANGED <<type, op, conn, closes>> /\ sp = "poll" /\ sp' = "dec"
        /\ (dropped' = dropped \/ type \in {"invalid", "halfclose"})
    BY <1>6 DEF CtrlSend, Command, peer
  <2>2. NoShutdown' <=> NoShutdown
    BY <2>1 DEF NoShutdown
  <2>3. QED
    BY <1>5, <1>6, <2>1, <2>2 DEF Marks, Alive, ListsFreed, Sound
<1>7. CASE DecSendingRef \/ ConnectNomore \/ DisableWrite \/ Connected \/ PeerReads \/ UNCHANGED vars
  <2>1. UNCHANGED <<type, op, closes, dropped>>
        /\ (sp' = sp \/ {sp, sp'} \cap {"decide", "closing"} = {})
        /\ (Sound' => Sound)
    BY <1>7 DEF DecSendingRef, ConnectNomore, DisableWrite, Connected, PeerReads, vars, socket, peer, Sound
  <2>2. NoShutdown' <=> NoShutdown
    BY <2>1 DEF NoShutdown
  <2>3. QED
    BY <1>5, <1>7, <2>1, <2>2 DEF Marks, Alive, ListsFreed, Sound
<1>8. CASE PeerEnds \/ PeerFails
  <2>1. UNCHANGED <<type, op, sp, closes, dropped>> /\ ~Sound'
    BY <1>8 DEF PeerEnds, PeerFails, socket, Sound
  <2>2. NoShutdown' <=> NoShutdown
    BY <2>1 DEF NoShutdown
  <2>3. QED
    BY <1>5, <1>8, <2>1, <2>2 DEF Marks, Alive, ListsFreed, Sound
<1>9. CASE WriteEvent
  <2>1. UNCHANGED <<sp, op, conn, closes>> /\ SendBuffer /\ sp = "poll"
    BY <1>9 DEF WriteEvent, Writable
  <2>2. NoShutdown' <=> NoShutdown
    BY <2>1 DEF NoShutdown
  <2>3. QED
    BY <1>3, <1>5, <1>9, <2>1, <2>2 DEF Marks, Alive, ListsFreed
<1>10. CASE ForceClose
  <2>1. UNCHANGED <<op, conn, closes>> /\ sp = "closing" /\ type' = "invalid" /\ sp' = "poll"
    BY <1>10 DEF ForceClose, Invalidate, peer
  <2>2. NoShutdown' <=> NoShutdown
    BY <2>1 DEF NoShutdown
  <2>3. QED
    BY <1>5, <1>10, <2>1, <2>2 DEF Marks, Alive, ListsFreed, Sound
<1>11. CASE ReadEnd \/ (ReportConnect /\ conn = "gone")
  <2>1. UNCHANGED <<type, op, conn, closes>> /\ ~Sound' /\ sp' = "closing"
    BY <1>11 DEF ReadEnd, ReportConnect, FreeLists, peer, Sound
  <2>2. NoShutdown' <=> NoShutdown
    BY <2>1 DEF NoShutdown
  <2>3. QED
    BY <1>5, <1>11, <2>1, <2>2 DEF Marks, Alive, ListsFreed, Sound
<1>12. CASE ReportConnect /\ conn # "gone"
  <2>1. UNCHANGED <<op, conn, closes, dropped>> /\ type = "connecting" /\ type' = "connected"
        /\ sp = "poll" /\ sp' = "opened"
    BY <1>12 DEF ReportConnect, Writable, peer
  <2>2. NoShutdown' <=> NoShutdown
    BY <2>1 DEF NoShutdown
  <2>3. QED
    BY <1>5, <1>12, <2>1, <2>2 DEF Marks, Alive, ListsFreed, Sound
<1>13. CASE CloseDecide
  <2>1. UNCHANGED <<conn, closes>> /\ op' = None /\ sp = "decide" /\ closes # << >>
    BY <1>13 DEF CloseDecide, peer, Marks
  <2>2. NoShutdown' <=> NoShutdown
    BY <2>1 DEF NoShutdown
  <2>4. CASE type' = "halfclose" /\ sp' = "poll" /\ dropped' = dropped
    BY <1>5, <1>13, <2>1, <2>2, <2>4 DEF Marks, Alive, ListsFreed, Sound
  <2>5. CASE type' = type /\ sp' = "closing"
    BY <1>5, <1>13, <2>1, <2>2, <2>5 DEF Marks, Alive, ListsFreed, Sound
  <2>6. QED
    BY <1>13, <2>4, <2>5 DEF CloseDecide, FreeLists
<1> QED
  BY <1>1, <1>2, <1>4, <1>6, <1>7, <1>8, <1>9, <1>10, <1>11, <1>12, <1>13 DEF Next, SocketThread
-----------------------------------------------------------------------------
(* What is on the wire.                                                    *)

\* The bytes that are or will be written before those of the low list.
Written == (wire \o dw) \o high

\* In a stream the byte before a byte is the last of its package, or the one
\* before it in the same package.
Whole(s) ==
  \A i \in 1..Len(s) :
    IF s[i][2] = 1
    THEN i > 1 => s[i - 1][2] = Size
    ELSE i > 1 /\ s[i - 1] = <<s[i][1], s[i][2] - 1>>

LEMMA StreamIsWhole ==
  ASSUME NEW s \in Seq(Byte), Stream(s)
  PROVE  Whole(s)
<1> SUFFICES ASSUME NEW i \in 1..Len(s)
             PROVE  IF s[i][2] = 1
                    THEN i > 1 => s[i - 1][2] = Size
                    ELSE i > 1 /\ s[i - 1] = <<s[i][1], s[i][2] - 1>>
  BY DEF Whole
<1>1. Len(s) \in Nat /\ s[i] \in Byte /\ s[i][2] \in 1..Size
  BY ByteOf
<1>2. CASE i = 1
  <2>1. s[1][2] = 1
    BY <1>1, <1>2 DEF Stream, Starts
  <2>2. QED
    BY <1>2, <2>1
<1>3. CASE i > 1
  <2> DEFINE k == i - 1
  <2>1. k \in 1..Len(s) /\ k + 1 = i /\ k \in Int
    BY <1>1, <1>3
  <2> HIDE DEF k
  <2>2. Follows(s, k) /\ s[k] \in Byte /\ s[k][2] \in 1..Size /\ s[k][2] \in Int
    BY <2>1, ByteOf DEF Stream, Tidy
  <2>3. CASE s[k][2] = Size
    <3>1. End(s, k) = k
      BY <2>1, <2>2, <2>3, SizePositive DEF End
    <3>2. End(s, k) < Len(s)
      BY <1>1, <2>1, <3>1
    <3>3. s[k + 1][2] = 1
      BY <2>2, <3>1, <3>2 DEF Follows
    <3>4. QED
      BY <1>3, <2>1, <2>3, <3>3 DEF k
  <2>4. CASE s[k][2] # Size
    <3>1. i \in k..End(s, k)
      BY <2>1, <2>2, <2>4, SizePositive DEF End
    <3>2. s[i] = <<s[k][1], s[k][2] + (i - k)>>
      BY <2>2, <3>1 DEF Follows
    <3>3. s[i] = <<s[k][1], s[k][2] + 1>>
      BY <2>1, <3>2
    <3>4. s[i][1] = s[k][1] /\ s[i][2] = s[k][2] + 1
      BY <3>3
    <3>5. s[i][2] # 1 /\ s[i][2] - 1 = s[k][2]
      BY <2>2, <3>4
    <3>6. s[k] = <<s[i][1], s[i][2] - 1>>
      BY <2>2, <3>4, <3>5 DEF Byte
    <3>7. QED
      BY <1>3, <3>5, <3>6 DEF k
  <2>5. QED
    BY <2>3, <2>4
<1> QED
  BY <1>1, <1>2, <1>3

\* So is what has been written of it so far.
LEMMA WholePart ==
  ASSUME NEW s \in Seq(Byte), NEW t \in Seq(Byte), Whole(s \o t)
  PROVE  Whole(s)
<1> DEFINE u == s \o t
<1>1. Len(u) = Len(s) + Len(t) /\ Len(s) \in Nat /\ Len(t) \in Nat
      /\ \A i \in 1..Len(s) : u[i] = s[i]
  BY Joined
<1>2. Whole(u)
  OBVIOUS
<1> HIDE DEF u
<1> SUFFICES ASSUME NEW i \in 1..Len(s)
             PROVE  IF s[i][2] = 1
                    THEN i > 1 => s[i - 1][2] = Size
                    ELSE i > 1 /\ s[i - 1] = <<s[i][1], s[i][2] - 1>>
  BY DEF Whole
<1>3. i \in 1..Len(u) /\ u[i] = s[i]
  BY <1>1
<1>4. i > 1 => u[i - 1] = s[i - 1]
  <2>1. i > 1 => i - 1 \in 1..Len(s)
    BY <1>1
  <2>2. QED
    BY <1>1, <2>1
<1>5. IF u[i][2] = 1
      THEN i > 1 => u[i - 1][2] = Size
      ELSE i > 1 /\ u[i - 1] = <<u[i][1], u[i][2] - 1>>
  BY <1>2, <1>3 DEF Whole
<1> QED
  BY <1>3, <1>4, <1>5

\* What send_buffer does to the bytes before the low list: it takes some whole
\* packages, and the rest of one, from the low list.
LEMMA FlushWritten ==
  ASSUME Lists, NEW X, NEW H, NEW Y, NEW R, Flushed(X, H, Y, R)
  PROVE  \E u : /\ u \in Seq(Byte) /\ Stream(u)
                /\ Written' = Written \o u
                /\ Written \in Seq(Byte) /\ Written' \in Seq(Byte)
                /\ low = u \o low'
                /\ wire' \in Seq(Byte) /\ high' \in Seq(Byte)
                /\ Written' = wire' \o high'
<1>1. PICK L \in Seq(Byte) : L = low'
  BY DEF Flushed
<1>2. PICK u \in Seq(Byte) : u = Y \o R
  BY Joined DEF Flushed
<1>3. /\ X \in Seq(Byte) /\ H \in Seq(Byte) /\ Y \in Seq(Byte) /\ R \in Seq(Byte)
      /\ wire \in Seq(Byte) /\ dw \in Seq(Byte) /\ high \in Seq(Byte) /\ low \in Seq(Byte)
      /\ Stream(low) /\ Stream(L)
      /\ wire' = (wire \o X) \o Y /\ dw' = << >> /\ high' = H \o R /\ dw \o high = X \o H
      /\ (H # << >> => Y = << >> /\ R = << >>)
      /\ low = Y \o (R \o L)
  BY <1>1 DEF Flushed, Lists
<1>a. Y \in Seq(Byte) /\ R \in Seq(Byte) /\ L \in Seq(Byte)
  BY <1>3
<1>4. low = u \o L
  <2>1. (Y \o R) \o L = Y \o (R \o L)
    BY ONLY <1>a
  <2>2. QED
    BY <1>2, <1>3, <2>1
<1>5. Stream(u)
  <2>1. Stream(u \o L)
    BY <1>3, <1>4
  <2>2. u \in Seq(Byte) /\ L \in Seq(Byte) /\ Starts(L)
    BY <1>3 DEF Stream
  <2>3. QED
    BY ONLY <2>1, <2>2, StreamFront
<1>6. Written \in Seq(Byte) /\ (wire \o X) \o Y \in Seq(Byte) /\ H \o R \in Seq(Byte)
      /\ ((wire \o X) \o Y) \o (H \o R) \in Seq(Byte)
  <2>1. wire \o dw \in Seq(Byte) /\ wire \o X \in Seq(Byte) /\ H \o R \in Seq(Byte)
    BY <1>3, Joined
  <2>2. (wire \o X) \o Y \in Seq(Byte)
    BY <1>3, <2>1, Joined
  <2>3. (wire \o dw) \o high \in Seq(Byte) /\ ((wire \o X) \o Y) \o (H \o R) \in Seq(Byte)
    BY <1>3, <2>1, <2>2, Joined
  <2>4. QED
    BY <2>1, <2>2, <2>3 DEF Written
<1>7. Written' = ((wire \o X) \o Y) \o (H \o R)
  <2>1. Written' = (wire' \o << >>) \o high'
    BY <1>3 DEF Written
  <2>2. wire' \o << >> = wire'
    BY <1>3, <1>6, Nothing
  <2>3. QED
    BY <1>3, <2>1, <2>2
<1>8. ((wire \o X) \o Y) \o (H \o R) = ((wire \o dw) \o high) \o u
  <2>1. wire \o X \in Seq(Byte) /\ wire \o dw \in Seq(Byte) /\ (wire \o dw) \o high \in Seq(Byte)
    BY <1>3
  <2>2. (wire \o dw) \o high = (wire \o X) \o H
    <3>1. wire \in Seq(Byte) /\ dw \in Seq(Byte) /\ high \in Seq(Byte) /\ X \in Seq(Byte) /\ H \in Seq(Byte)
      BY <1>3
    <3>2. (wire \o dw) \o high = wire \o (dw \o high)
      BY ONLY <3>1, SMTT(30)
    <3>3. wire \o (X \o H) = (wire \o X) \o H
      BY ONLY <3>1
    <3>4. QED
      BY <1>3, <3>2, <3>3
  <2>3. CASE H = << >>
    <3>1. H \o R = R /\ (wire \o X) \o H = wire \o X
      BY <1>3, <2>1, <2>3, Nothing
    <3>2. ((wire \o X) \o Y) \o R = (wire \o X) \o (Y \o R)
      BY ONLY <1>a, <2>1, SMTT(30)
    <3>3. QED
      BY <1>2, <2>2, <3>1, <3>2
  <2>4. CASE H # << >>
    <3>1. Y = << >> /\ R = << >>
      BY <1>3, <2>4
    <3>2. u = << >> /\ H \o R = H /\ (wire \o X) \o Y = wire \o X
      BY <1>2, <1>3, <2>1, <3>1, Nothing
    <3>3. ((wire \o dw) \o high) \o << >> = (wire \o dw) \o high
      BY <2>1, Nothing
    <3>4. QED
      BY <2>2, <3>2, <3>3
  <2>5. QED
    BY <2>3, <2>4
<1>9. Written' = Written \o u
  BY <1>7, <1>8 DEF Written
<1>10. wire' \in Seq(Byte) /\ high' \in Seq(Byte) /\ Written' \in Seq(Byte) /\ Written' = wire' \o high'
  BY <1>3, <1>6, <1>7
<1> QED
  BY <1>1, <1>4, <1>5, <1>6, <1>9, <1>10

\* In the same sense, but a package may also be behind an unfinished one of F.
Seams(s, F) ==
  \A i \in 1..Len(s) :
    IF s[i][2] = 1
    THEN i > 1 => s[i - 1][2] = Size \/ s[i - 1][1] \in F
    ELSE i > 1 /\ s[i - 1] = <<s[i][1], s[i][2] - 1>>

\* s ends with a whole package, or one of F.
EndsWell(s, F) == s # << >> => s[Len(s)][2] = Size \/ s[Len(s)][1] \in F

Cut == {m \in Package : CutOff(m)}

Streams ==
  /\ Alive => Stream(Written)
  /\ Alive => \A t \in Thread : pc[t] \in {"double", "write"} => Stream(wire)
  /\ Seams(wire, Cut)
  /\ sp = "closing" /\ dw = << >> => EndsWell(wire, Cut)

LEMMA CutGrows ==
  ASSUME Base, Types, [Next]_vars
  PROVE  /\ dropped \subseteq dropped' /\ Cut \subseteq Cut'
         /\ \A m : CutOff(m) => CutOff(m)'
<1>1. dropped \subseteq dropped'
  <2>1. CASE \E t \in Thread, m \in Package, c \in {"D", "P"} : Send(t, m, c)
    BY <2>1 DEF Send
  <2>2. CASE \E t \in Thread : SendStep(t)
    BY <2>2 DEF SendStep, Peek, TryLock, Look, DoubleCheck, DirectWrite, EnableWrite,
       IncSendingRef, SendRequest
  <2>3. CASE \E t \in Thread, how \in {"K", "shutdown"} : Close(t, how)
    BY <2>3 DEF Close
  <2>4. CASE CloseSocket \/ WriteEvent
    <3>1. SendBuffer \/ dropped' = dropped
      BY <2>4 DEF CloseSocket, WriteEvent
    <3>2. CASE SendBuffer
      BY <3>2 DEF SendBuffer, Invalidate
    <3>3. QED
      BY <3>1, <3>2
  <2>5. CASE CtrlSend \/ ForceClose \/ CloseDecide \/ ReportConnect \/ ReadEnd
    BY <2>5 DEF CtrlSend, ForceClose, Invalidate, CloseDecide, ReportConnect, ReadEnd, FreeLists
  <2>6. CASE DecSendingRef \/ ConnectNomore \/ DisableWrite \/ Connected \/ PeerReads
               \/ PeerEnds \/ PeerFails \/ UNCHANGED vars
    BY <2>6 DEF DecSendingRef, ConnectNomore, DisableWrite, Connected, PeerReads, PeerEnds,
       PeerFails, vars
  <2>7. QED
    BY <2>1, <2>2, <2>3, <2>4, <2>5, <2>6 DEF Next, SocketThread
<1>2. ListsFreed => ListsFreed'
  BY StaysGone DEF Alive
<1> QED
  BY <1>1, <1>2 DEF Cut, CutOff

LEMMA SeamsGrow ==
  ASSUME NEW s \in Seq(Byte), NEW F, NEW G, F \subseteq G
  PROVE  /\ Seams(s, F) => Seams(s, G)
         /\ EndsWell(s, F) => EndsWell(s, G)
         /\ Whole(s) => Seams(s, G)
BY DEF Seams, EndsWell, Whole

\* Some of a package is put behind what ends well.
LEMMA SeamsWrote ==
  ASSUME NEW s \in Seq(Byte), NEW X \in Seq(Byte), NEW Y \in Seq(Byte), NEW m \in Package, NEW F,
         Bytes(m) = X \o Y, Seams(s, F), EndsWell(s, F)
  PROVE  /\ Seams(s \o X, F)
         /\ Y = << >> => EndsWell(s \o X, F)
<1> DEFINE u == s \o X
<1>1. /\ Len(u) = Len(s) + Len(X) /\ Len(s) \in Nat /\ Len(X) \in Nat
      /\ \A i \in 1..Len(s) : u[i] = s[i]
      /\ \A i \in 1..Len(X) : u[Len(s) + i] = X[i]
  BY Joined
<1>2. /\ Len(X) + Len(Y) = Size /\ Len(Y) \in Nat
      /\ \A i \in 1..Len(X) : X[i] = <<m, i>>
  <2>1. Len(Bytes(m)) = Size /\ \A i \in 1..Size : Bytes(m)[i] = <<m, i>>
    BY BytesStream
  <2>2. Len(X \o Y) = Len(X) + Len(Y) /\ Len(X) \in Nat /\ Len(Y) \in Nat
        /\ \A i \in 1..Len(X) : (X \o Y)[i] = X[i]
    BY Joined
  <2>3. QED
    BY <2>1, <2>2, SizePositive
<1> HIDE DEF u
<1>3. ASSUME NEW i \in 1..Len(u)
      PROVE  IF u[i][2] = 1
             THEN i > 1 => u[i - 1][2] = Size \/ u[i - 1][1] \in F
             ELSE i > 1 /\ u[i - 1] = <<u[i][1], u[i][2] - 1>>
  <2>1. CASE i \in 1..Len(s)
    <3>1. u[i] = s[i] /\ (i > 1 => u[i - 1] = s[i - 1])
      <4>1. i > 1 => i - 1 \in 1..Len(s)
        BY <2>1, <1>1
      <4>2. QED
        BY <1>1, <2>1, <4>1
    <3>2. QED
      BY <2>1, <3>1 DEF Seams
  <2>2. CASE i \notin 1..Len(s)
    <3>1. PICK k \in 1..Len(X) : i = Len(s) + k
      <4>1. i - Len(s) \in 1..Len(X) /\ i = Len(s) + (i - Len(s))
        BY <1>1, <2>2
      <4>2. QED
        BY <4>1
    <3>2. u[i] = <<m, k>>
      BY <1>1, <1>2, <3>1
    <3>3. CASE k = 1
      <4>1. i > 1 => s # << >> /\ i - 1 = Len(s) /\ Len(s) \in 1..Len(s)
        BY <1>1, <3>1, <3>3
      <4>2. i > 1 => u[i - 1] = s[Len(s)]
        BY <1>1, <4>1
      <4>3. QED
        BY <3>2, <3>3, <4>1, <4>2 DEF EndsWell
    <3>4. CASE k # 1
      <4>1. k - 1 \in 1..Len(X) /\ i - 1 = Len(s) + (k - 1) /\ i > 1
        BY <1>1, <3>1, <3>4
      <4>2. u[i - 1] = <<m, k - 1>>
        BY <1>1, <1>2, <4>1
      <4>3. QED
        BY <3>2, <3>4, <4>1, <4>2
    <3>5. QED
      BY <3>3, <3>4
  <2>3. QED
    BY <2>1, <2>2
<1>4. ASSUME Y = << >> PROVE EndsWell(u, F)
  <2>1. Len(X) = Size /\ Size \in 1..Len(X)
    BY <1>2, <1>4, SizePositive
  <2>2. Len(u) = Len(s) + Size /\ u[Len(s) + Size] = <<m, Size>>
    BY <1>1, <1>2, <2>1
  <2>3. QED
    BY <2>2 DEF EndsWell
<1> QED
  BY <1>3, <1>4 DEF Seams, u

\* A package that was written in part goes on in the high list, if not in
\* dw_buffer.
LEMMA GoesOn ==
  ASSUME NEW w \in Seq(Byte), NEW h \in Seq(Byte), Stream(w \o h)
  PROVE  EndsWell(w, PackagesOf(h))
<1> DEFINE u == w \o h
           n == Len(w)
<1>1. /\ Len(u) = n + Len(h) /\ n \in Nat /\ Len(h) \in Nat /\ u \in Seq(Byte)
      /\ \A i \in 1..n : u[i] = w[i]
      /\ \A i \in 1..Len(h) : u[n + i] = h[i]
  BY Joined
<1>2. Tidy(u)
  BY DEF Stream
<1> HIDE DEF u
<1> SUFFICES ASSUME w # << >>, w[n][2] # Size PROVE w[n][1] \in PackagesOf(h)
  BY DEF EndsWell
<1>3. n \in 1..n /\ n \in 1..Len(u) /\ u[n] = w[n] /\ w[n][2] \in 1..Size
  BY <1>1, ByteOf
<1>4. Follows(u, n)
  BY <1>2, <1>3 DEF Tidy
<1> HIDE DEF n
<1>5. End(u, n) <= Len(u) /\ n + 1 \in n..End(u, n)
  BY <1>1, <1>3, <1>4, SizePositive DEF Follows, End
<1>6. u[n + 1] = <<u[n][1], u[n][2] + ((n + 1) - n)>>
  BY <1>4, <1>5 DEF Follows
<1>7. 1 \in 1..Len(h)
  BY <1>1, <1>3, <1>5, SizePositive DEF End
<1>8. h[1][1] = w[n][1]
  BY <1>1, <1>3, <1>6, <1>7
<1> QED
  BY <1>7, <1>8 DEF PackagesOf

LEMMA WrittenType ==
  ASSUME Lists
  PROVE  Written \in Seq(Byte) /\ wire \o dw \in Seq(Byte) /\ dw \o high \in Seq(Byte)
         /\ Written = wire \o (dw \o high)
<1>1. wire \in Seq(Byte) /\ dw \in Seq(Byte) /\ high \in Seq(Byte)
  BY DEF Lists
<1>2. wire \o dw \in Seq(Byte) /\ dw \o high \in Seq(Byte)
  BY <1>1, Joined
<1>3. (wire \o dw) \o high \in Seq(Byte)
  BY <1>1, <1>2, Joined
<1>4. (wire \o dw) \o high = wire \o (dw \o high)
  BY ONLY <1>1
<1> QED
  BY <1>2, <1>3, <1>4 DEF Written

LEMMA WrittenSame ==
  ASSUME UNCHANGED <<wire, dw, high>>
  PROVE  Written' = Written
BY DEF Written

\* A direct write puts the package between what is on the wire and the high
\* list.
LEMMA WrittenWrote ==
  ASSUME Lists, NEW t \in Thread, hand[t] \in Package, NEW X, NEW Y, Wrote(t, X, Y),
         dw = << >>, high' = high
  PROVE  /\ Written = wire \o high
         /\ Written' = (wire \o Bytes(hand[t])) \o high
         /\ wire' = wire \o X /\ X \in Seq(Byte)
         /\ wire \o Bytes(hand[t]) = wire' \o Y /\ Y \in Seq(Byte) /\ wire' \in Seq(Byte)
<1>1. /\ wire \in Seq(Byte) /\ X \in Seq(Byte) /\ Y \in Seq(Byte)
      /\ Bytes(hand[t]) = X \o Y /\ wire' = wire \o X /\ dw' = Y
  BY DEF Lists, Wrote
<1>2. wire \in Seq(Byte) /\ X \in Seq(Byte) /\ Y \in Seq(Byte)
  BY <1>1
<1>3. (wire \o X) \o Y = wire \o (X \o Y)
  BY ONLY <1>2
<1>4. wire \o X \in Seq(Byte)
  BY ONLY <1>2
<1>5. Written' = (wire' \o Y) \o high
  BY <1>1 DEF Written
<1>6. Written = wire \o high
  BY <1>2, Nothing DEF Written
<1> QED
  BY <1>1, <1>3, <1>4, <1>5, <1>6

\* The socket thread puts a package behind the high list, or leaves it alone.
LEMMA WrittenCommand ==
  ASSUME Base, CtrlSend
  PROVE  /\ UNCHANGED <<wire, pc, type, conn>>
         /\ \/ Written' = Written
            \/ /\ dropped' = dropped
               /\ type \notin {"invalid", "halfclose"}
               /\ Written' = Written \o Bytes(Head(pipe)[2])
<1> DEFINE B == Bytes(Head(pipe)[2])
<1>1. Lists /\ Head(pipe)[2] \in Package
  BY CtrlSendPackage DEF Base, Shape
<1>2. /\ UNCHANGED <<wire, pc, type, conn, dw>>
      /\ \/ high' = high
         \/ /\ dropped' = dropped /\ type \notin {"invalid", "halfclose"}
            /\ (high = << >> /\ high' = B) \/ high' = high \o B
  BY DEF CtrlSend, senders, peer
<1>3. B \in Seq(Byte)
  BY <1>1, BytesStream
<1> HIDE DEF B
<1>4. wire \o dw \in Seq(Byte) /\ high \in Seq(Byte) /\ B \in Seq(Byte)
  BY <1>1, <1>3, WrittenType DEF Lists
<1>5. (high = << >> /\ high' = B) => high' = high \o B
  BY <1>3, Nothing
<1>6. ((wire \o dw) \o high) \o B = (wire \o dw) \o (high \o B)
  BY ONLY <1>4
<1> QED
  BY <1>2, <1>5, <1>6 DEF Written, B

\* A thread that is about to write has found the lists empty.
LEMMA AboutToWrite ==
  ASSUME Base, NEW t \in Thread, SendStep(t), ~DirectWrite(t), NEW u \in Thread, pc'[u] \in {"double", "write"}
  PROVE  \/ pc[u] \in {"double", "write"}
         \/ Look(t) /\ u = t /\ NothingBuffered
<1>1. pc \in [Thread -> {"idle", "peek", "try", "look", "double", "write",
                        "enable", "count", "command"}]
  BY DEF Base, IInv, PathType
<1>2. CASE u # t
  <2>1. pc'[u] = pc[u]
    BY <1>1, <1>2 DEF SendStep, Peek, TryLock, Look, DoubleCheck, EnableWrite,
       IncSendingRef, SendRequest, Goto, Done
  <2>2. QED
    BY <2>1
<1>3. CASE u = t
  BY <1>1, <1>3 DEF SendStep, Peek, TryLock, Look, DoubleCheck, EnableWrite,
     IncSendingRef, SendRequest, Goto, Done
<1> QED
  BY <1>2, <1>3

LEMMA StreamsFlush ==
  ASSUME Base, Streams, SendBuffer, Alive
  PROVE  /\ wire' = wire \/ Whole(wire')
         /\ Alive' => Stream(Written')
<1>0. Lists
  BY DEF Base, Shape
<1>1. CASE Fails
  <2>1. type' = "invalid" /\ wire' = wire
    BY <1>1 DEF Fails, Invalidate
  <2>2. QED
    BY <2>1 DEF Alive, ListsFreed
<1>2. CASE \E X, H, Y, R : Flushed(X, H, Y, R)
  <2>1. PICK X, H, Y, R : Flushed(X, H, Y, R)
    BY <1>2
  <2>2. PICK u \in Seq(Byte) :
          /\ Stream(u) /\ Written' = Written \o u /\ Written \in Seq(Byte) /\ Written' \in Seq(Byte)
          /\ wire' \in Seq(Byte) /\ high' \in Seq(Byte) /\ Written' = wire' \o high'
    BY <1>0, <2>1, FlushWritten
  <2>3. Stream(Written)
    BY DEF Streams
  <2>4. Stream(Written \o u)
    BY <2>2, <2>3, StreamJoin
  <2>5. PICK V \in Seq(Byte) : V = Written' /\ Stream(V)
    BY <2>2, <2>4
  <2>6. Whole(V)
    BY <2>5, StreamIsWhole
  <2>7. PICK w \in Seq(Byte), h \in Seq(Byte) : w = wire' /\ h = high'
    BY <2>2
  <2>8. Whole(w \o h)
    BY <2>2, <2>5, <2>6, <2>7
  <2>9. Whole(w)
    BY <2>8, WholePart
  <2>10. QED
    BY <2>5, <2>7, <2>9
<1> QED
  BY <1>0, <1>1, <1>2, SendBufferCases

\* What is left of the lists when force_close has freed them is of no account.
LEMMA FreesAll ==
  ASSUME CloseDecide \/ ReportConnect \/ ReadEnd
  PROVE  /\ UNCHANGED <<wire, dw, pc, pipe>>
         /\ Alive' => UNCHANGED <<high, low>>
<1>1. UNCHANGED <<wire, dw, pc, pipe>>
  BY DEF CloseDecide, ReportConnect, ReadEnd, senders, peer
<1>2. UNCHANGED <<high, low>> \/ FreeLists
  BY DEF CloseDecide, ReportConnect, ReadEnd
<1>3. FreeLists => ~Alive'
  BY DEF FreeLists, Alive, ListsFreed
<1> QED
  BY <1>1, <1>2, <1>3

\* Where force_close frees the lists, the rest of the package on the wire is
\* among what it frees, unless it is in dw_buffer.
LEMMA StreamsFreed ==
  ASSUME Base, Types, Streams, CloseDecide \/ ReportConnect \/ ReadEnd
  PROVE  /\ UNCHANGED <<wire, dw, pc>>
         /\ Alive
         /\ Alive' => UNCHANGED <<high, low>>
         /\ sp' = "closing" /\ dw' = << >> => EndsWell(wire', Cut')
<1>1. UNCHANGED <<wire, dw, pc>>
  BY DEF CloseDecide, ReportConnect, ReadEnd, senders, peer
<1>2. Alive /\ Lists
  BY DEF CloseDecide, ReportConnect, ReadEnd, Writable, Alive, ListsFreed, Base, Shape, Gone
<1>3. (UNCHANGED <<high, low>> /\ sp' # "closing") \/ FreeLists
  BY DEF CloseDecide, ReportConnect, ReadEnd
<1>4. CASE FreeLists
  <2>1. ~Alive'
    BY <1>4 DEF FreeLists, Alive, ListsFreed
  <2>2. ASSUME dw = << >> PROVE EndsWell(wire, Cut')
    <3>1. PICK w \in Seq(Byte), h \in Seq(Byte), l \in Seq(Byte) : w = wire /\ h = high /\ l = low
      BY <1>2 DEF Lists
    <3>2. Written = w \o h
      BY <2>2, <3>1, Nothing DEF Written
    <3>3. EndsWell(w, PackagesOf(h))
      BY <1>2, <3>2, GoesOn DEF Streams
    <3>4. PackagesOf(h \o l) = PackagesOf(h) \cup PackagesOf(l)
      BY PackagesJoin
    <3>5. PackagesOf(h) \subseteq Package
      BY PackagesType
    <3>6. dropped' = dropped \cup PackagesOf(h \o l)
      BY <1>4, <3>1 DEF FreeLists
    <3>7. PackagesOf(h) \subseteq Cut'
      BY <2>1, <3>4, <3>5, <3>6 DEF Cut, CutOff, Alive
    <3>8. QED
      BY <3>1, <3>3, <3>7, SeamsGrow
  <2>3. QED
    BY <1>1, <1>2, <2>1, <2>2
<1> QED
  BY <1>1, <1>2, <1>3, <1>4

LEMMA StreamsStep == Base /\ Types /\ Marks /\ Streams /\ [Next]_vars => Streams'
<1> SUFFICES ASSUME Base, Types, Marks, Streams, [Next]_vars
             PROVE  /\ Alive' => Stream(Written')
                    /\ Alive' => \A t \in Thread : pc'[t] \in {"double", "write"} => Stream(wire')
                    /\ Seams(wire', Cut')
                    /\ sp' = "closing" /\ dw' = << >> => EndsWell(wire', Cut')
  BY DEF Streams
<1>0. Lists /\ Gone /\ InHand /\ Lock /\ Lists' /\ Lock' /\ wire \in Seq(Byte)
  BY ListsStep, LockStep DEF Base, Shape, Calls, Lists
<1>s. (Alive' => Alive) /\ Cut \subseteq Cut'
  BY StaysGone, CutGrows
<1>a. /\ Alive => Stream(Written)
      /\ Alive => \A t \in Thread : pc[t] \in {"double", "write"} => Stream(wire)
      /\ Seams(wire, Cut')
      /\ sp = "closing" /\ dw = << >> => EndsWell(wire, Cut')
  BY <1>0, <1>s, SeamsGrow DEF Streams
<1>1. ASSUME UNCHANGED wire, Alive' => UNCHANGED <<dw, high, pc>>,
             sp' = "closing" /\ dw' = << >> => sp = "closing" /\ dw = << >>
      PROVE  /\ Alive' => Stream(Written')
             /\ Alive' => \A t \in Thread : pc'[t] \in {"double", "write"} => Stream(wire')
             /\ Seams(wire', Cut')
             /\ sp' = "closing" /\ dw' = << >> => EndsWell(wire', Cut')
  BY <1>1, <1>s, <1>a, WrittenSame
<1>2. CASE \E t \in Thread, m \in Package, c \in {"D", "P"} : Send(t, m, c)
  <2>1. PICK t \in Thread, m \in Package, c \in {"D", "P"} : Send(t, m, c)
    BY <1>2
  <2>2. UNCHANGED <<wire, dw, high, sp>>
    BY <2>1 DEF Send, socket, peer
  <2>3. \A u \in Thread : pc'[u] \in {"double", "write"} => pc[u] \in {"double", "write"}
    BY <2>1 DEF Send, Goto, Base, IInv, PathType
  <2>4. QED
    BY <1>s, <1>a, <2>2, <2>3, WrittenSame
<1>3. CASE \E t \in Thread : SendStep(t) /\ ~DirectWrite(t)
  <2>1. PICK t \in Thread : SendStep(t) /\ ~DirectWrite(t)
    BY <1>3
  <2>2. UNCHANGED <<wire, dw, high, sp>>
    BY <2>1 DEF SendStep, Peek, TryLock, Look, DoubleCheck, EnableWrite,
       IncSendingRef, SendRequest, socket, peer
  <2>3. NothingBuffered => Written = wire
    BY <1>0, Nothing DEF NothingBuffered, Written, Lists
  <2>4. \A u \in Thread : pc'[u] \in {"double", "write"} => pc[u] \in {"double", "write"} \/ NothingBuffered
    BY <2>1, AboutToWrite
  <2>5. QED
    BY <1>s, <1>a, <2>2, <2>3, <2>4, WrittenSame
<1>4. CASE \E t \in Thread : DirectWrite(t)
  <2>1. PICK t \in Thread : DirectWrite(t)
    BY <1>4
  <2>2. /\ pc[t] = "write" /\ hand[t] \in Package /\ dw = << >> /\ Starts(high)
        /\ UNCHANGED <<high, sp, type>> /\ holder = t /\ type # "invalid"
    BY <1>0, <2>1, WriteAssumption DEF DirectWrite, InHand, Lock, Gone, Locked
  <2>3. PICK X, Y : Wrote(t, X, Y)
    BY <1>0, <2>1, <2>2, DirectWriteCases
  <2>4. PICK m \in Package : m = hand[t]
    BY <2>2
  <2>5. /\ wire' = wire \o X /\ X \in Seq(Byte)
        /\ Written' = (wire \o Bytes(m)) \o high
        /\ wire \o Bytes(m) = wire' \o Y /\ Y \in Seq(Byte) /\ wire' \in Seq(Byte)
    BY <1>0, <2>2, <2>3, <2>4, WrittenWrote
  <2>6. CASE ~Alive
    <3>1. sp = "closing" /\ ~Alive'
      BY <2>2, <2>6 DEF Alive, ListsFreed
    <3>2. Bytes(m) = X \o Y /\ dw' = Y
      BY <2>3, <2>4 DEF Wrote
    <3>3. EndsWell(wire, Cut')
      BY <1>a, <2>2, <3>1
    <3>4. PICK F : F = Cut'
      OBVIOUS
    <3>5. Seams(wire \o X, F) /\ (Y = << >> => EndsWell(wire \o X, F))
      BY <1>0, <1>a, <2>5, <3>2, <3>3, <3>4, SeamsWrote
    <3>6. QED
      BY <2>5, <3>1, <3>2, <3>4, <3>5
  <2>7. CASE Alive
    <3>1. Stream(wire) /\ high \in Seq(Byte) /\ Stream(high)
      BY <1>0, <1>a, <2>2, <2>7 DEF Lists, Stream
    <3>2. PICK W \in Seq(Byte) : W = wire \o Bytes(m) /\ Stream(W)
      BY <1>0, <2>5, <3>1, BytesStream, StreamJoin, Joined
    <3>3. Stream(W \o high)
      BY <3>1, <3>2, StreamJoin
    <3>4. Stream(Written')
      BY <2>5, <3>2, <3>3
    <3>5. PICK w \in Seq(Byte) : w = wire'
      BY <2>5
    <3>6. Whole(w \o Y)
      BY <2>5, <3>2, <3>5, StreamIsWhole
    <3>7. Whole(w)
      BY <2>5, <3>6, WholePart
    <3>8. Seams(wire', Cut')
      BY <3>5, <3>7, SeamsGrow
    <3>9. ASSUME NEW u \in Thread PROVE pc'[u] \notin {"double", "write"}
      <4>1. pc' = [pc EXCEPT ![t] = "idle"] \/ pc' = [pc EXCEPT ![t] = "enable"]
        BY <2>3 DEF Wrote, Goto, Done
      <4>2. u # t => pc[u] \notin {"double", "write"}
        BY <1>0, <2>2 DEF Lock, Locked
      <4>3. QED
        BY <4>1, <4>2 DEF Base, IInv, PathType
    <3>10. sp' # "closing"
      BY <2>2, <2>7 DEF Alive, ListsFreed
    <3>11. QED
      BY <3>4, <3>8, <3>9, <3>10
  <2>8. QED
    BY <2>6, <2>7
<1>5. CASE \E t \in Thread, how \in {"K", "shutdown"} : Close(t, how)
  <2>1. UNCHANGED <<wire, dw, high, pc, sp>>
    BY <1>5 DEF Close, socket, peer, senders
  <2>2. QED
    BY <1>1, <2>1
<1>6. CASE CtrlSend
  <2>1. /\ UNCHANGED <<wire, pc>> /\ sp' = "dec"
        /\ \/ Written' = Written
           \/ Written' = Written \o Bytes(Head(pipe)[2])
    BY <1>6, WrittenCommand DEF CtrlSend
  <2>2. Head(pipe)[2] \in Package /\ Written \in Seq(Byte)
    BY <1>0, <1>6, CtrlSendPackage, WrittenType
  <2>3. Alive' => Stream(Written')
    BY <1>s, <1>a, <2>1, <2>2, BytesStream, StreamJoin
  <2>4. QED
    BY <1>s, <1>a, <2>1, <2>3
<1>7. CASE WriteEvent \/ (CloseSocket /\ type # "invalid" /\ SendBuffer)
  <2>1. SendBuffer /\ UNCHANGED pc /\ holder = None /\ sp' # "closing"
    BY <1>7 DEF WriteEvent, Writable, CloseSocket, SendBuffer, senders
  <2>2. Alive
    BY <1>7 DEF WriteEvent, Writable, CloseSocket, Command, Alive, ListsFreed
  <2>3. (wire' = wire \/ Whole(wire')) /\ (Alive' => Stream(Written'))
    BY <2>1, <2>2, StreamsFlush
  <2>4. Seams(wire', Cut')
    <3>1. CASE wire' = wire
      BY <1>a, <3>1
    <3>2. CASE Whole(wire')
      <4>1. PICK w \in Seq(Byte) : w = wire'
        BY <1>0 DEF Lists
      <4>2. QED
        BY <3>2, <4>1, SeamsGrow
    <3>3. QED
      BY <2>3, <3>1, <3>2
  <2>5. \A t \in Thread : pc'[t] \notin {"double", "write"}
    BY <1>0, <2>1, WriteAssumption DEF Lock, Locked
  <2>6. QED
    BY <2>1, <2>3, <2>4, <2>5
<1>8. CASE CloseSocket /\ ~(type # "invalid" /\ SendBuffer)
  <2>1. UNCHANGED <<wire, dw, high, pc>> /\ sp' # "closing"
    BY <1>8 DEF CloseSocket, Command, socket, peer, senders
  <2>2. QED
    BY <1>1, <2>1
<1>9. CASE CloseDecide \/ ReportConnect \/ ReadEnd
  <2>1. /\ UNCHANGED <<wire, dw, pc>>
        /\ Alive' => high' = high
        /\ sp' = "closing" /\ dw' = << >> => EndsWell(wire', Cut')
    BY <1>9, StreamsFreed
  <2>2. QED
    BY <1>s, <1>a, <2>1, WrittenSame
<1>10. CASE ForceClose
  <2>1. UNCHANGED wire /\ ~Alive' /\ sp' = "poll"
    BY <1>10 DEF ForceClose, Invalidate, peer, Alive, ListsFreed
  <2>2. QED
    BY <1>1, <2>1
<1>11. CASE DecSendingRef \/ ConnectNomore \/ DisableWrite \/ Connected \/ PeerReads \/ PeerEnds \/ PeerFails
             \/ UNCHANGED vars
  <2>1. UNCHANGED <<wire, dw, high, pc>> /\ (sp' = "closing" => sp = "closing")
    BY <1>11 DEF DecSendingRef, ConnectNomore, DisableWrite, Connected, PeerReads, PeerEnds, PeerFails, vars,
       senders, socket, peer
  <2>2. QED
    BY <1>1, <2>1
<1> QED
  BY <1>2, <1>3, <1>4, <1>5, <1>6, <1>7, <1>8, <1>9, <1>10, <1>11 DEF Next, SocketThread, SendStep

LEMMA CoreInit == Init => Types /\ Marks /\ Streams
<1> SUFFICES ASSUME Init PROVE Types /\ Marks /\ Streams
  OBVIOUS
<1>1. Types
  BY WriteAssumption DEF Init, Types
<1>2. Marks
  BY WriteAssumption DEF Init, Marks, Asked, Alive, ListsFreed
<1>3. Streams
  <2>1. Written = << >> /\ wire = << >>
    <3>1. << >> \in Seq(Byte)
      OBVIOUS
    <3>2. << >> \o << >> = << >>
      BY <3>1, Nothing
    <3>3. QED
      BY <3>2 DEF Init, Written
  <2>2. QED
    BY <2>1, EmptyTidy DEF Streams, Seams, EndsWell
<1> QED
  BY <1>1, <1>2, <1>3

Core == Base /\ Whereabouts /\ Types /\ Marks /\ Streams

LEMMA CoreInvariant == Safety => []Core
<1>1. Base /\ Types /\ Marks /\ Streams /\ [Next]_vars => Types' /\ Marks' /\ Streams'
  BY TypesStep, MarksStep, StreamsStep
<1>2. Base /\ Whereabouts /\ Types /\ Marks /\ Streams => Core
  BY DEF Core
<1> QED
  BY <1>1, <1>2, WhereInvariant, CoreInit, PTL DEF Safety

LEMMA OnceOnWire ==
  ASSUME Base, Whereabouts, NEW i \in 1..Len(wire), NEW j \in 1..Len(wire), wire[i] = wire[j]
  PROVE  i = j
<1>1. PathType /\ InHand /\ Lists /\ wire \in Seq(Byte)
  BY DEF Base, IInv, Shape, Calls, Lists
<1>2. PICK m \in Package, k \in 1..Size : wire[i] = <<m, k>>
  BY <1>1 DEF Byte
<1>3. Count(wire, <<m, k>>) <= 1
  <2>1. /\ Count(wire, <<m, k>>) \in Nat /\ Left(<<m, k>>) \in Nat /\ Loose(m) \in Nat
    BY <1>1, CountTypes, LooseType
  <2>2. Where(m)
    BY DEF Whereabouts
  <2>3. m \notin fresh /\ m \notin dropped => Count(wire, <<m, k>>) + Left(<<m, k>>) + Loose(m) = 1
    BY <2>2 DEF Where
  <2>4. m \in fresh => Count(wire, <<m, k>>) = 0
    BY <2>2 DEF Where
  <2>5. m \in dropped => Count(wire, <<m, k>>) <= 1
    BY <2>2 DEF Where
  <2>6. QED
    BY <2>1, <2>3, <2>4, <2>5
<1>4. PICK X : X = {<<m, k>>}
  OBVIOUS
<1>5. Count(wire, <<m, k>>) = Cardinality(Hits(wire, X))
  BY <1>4 DEF Count, Hits
<1>6. i \in Hits(wire, X) /\ j \in Hits(wire, X)
  BY <1>2, <1>4 DEF Hits
<1>7. Cardinality(Hits(wire, X)) <= 1
  BY <1>3, <1>5
<1> QED
  BY <1>1, <1>6, <1>7, HitsOnce

\* Packages are never mixed on the wire, whoever writes them (send_buffer or a
\* direct write): no byte is written twice, the bytes of each package follow each
\* other, and a package is behind an unfinished one only if force_close has freed
\* the rest of that one.
THEOREM PackagesStayWhole == Safety => []WholePackages
<1>1. Core => WholePackages
  <2> SUFFICES ASSUME Core PROVE WholePackages
    OBVIOUS
  <2>1. \A i, j \in 1..Len(wire) : wire[i] = wire[j] => i = j
    BY OnceOnWire DEF Core
  <2>2. wire \in Seq(Byte) /\ Seams(wire, Cut)
    BY DEF Core, Streams, Base, Shape, Lists
  <2>3. QED
    BY <2>1, <2>2, ByteOf DEF WholePackages, Seams, Cut
<1> QED
  BY <1>1, CoreInvariant, PTL
-----------------------------------------------------------------------------
(* The order of what one thread sends with high priority.                  *)

\* No byte of n comes before the last byte of m.
Ahead(s, m, n) ==
  \A q \in 1..Len(s) : s[q][1] = n => \E p \in 1..Len(s) : p < q /\ s[p] = <<m, Size>>

\* The thread that sent n, or is about to have sent it, sent m before.
Before(m, n) ==
  \/ \E i, j \in 1..Len(sent) :
       /\ i < j /\ sent[i] = m /\ sent[j] = n
       /\ sender[m] = sender[n] /\ sender[m][2] = "D"
  \/ \E t \in Thread :
       /\ pc[t] = "enable" /\ hand[t] = n
       /\ m \in Range(sent) /\ sender[m] = <<t, "D">>

InPipe(m) == \E i \in 1..Len(pipe) : pipe[i][2] = m

OnWire(m) == <<m, Size>> \in Range(wire)

\* What a thread can rely on that is about to write itself.
Direct(t, m) ==
  /\ pc[t] \in {"look", "double", "write"} => ~InPipe(m)
  /\ pc[t] = "double" => m \in dropped \/ OnWire(m)
  /\ pc[t] = "write" => OnWire(m) \/ CutOff(m)

OrderWire == \A m, n \in Package : Before(m, n) => Ahead(wire, m, n) \/ CutOff(m)

OrderLists == \A m, n \in Package : Before(m, n) => Ahead(Written, m, n)

OrderPipe ==
  \A m, n \in Package : Before(m, n) =>
    \A q, p \in 1..Len(pipe) : pipe[q][2] = m /\ pipe[p][2] = n => q < p

LowOnly == \A m \in Package : sender[m][2] = "D" => m \notin PackagesOf(low)

DirectAll == \A t \in Thread, m \in Range(sent) : sender[m] = <<t, "D">> => Direct(t, m)

Order ==
  /\ OrderWire
  /\ DirectAll
  /\ Alive => OrderLists /\ OrderPipe /\ LowOnly

LEMMA AheadNone ==
  ASSUME NEW s, NEW m, NEW n, n \notin PackagesOf(s)
  PROVE  Ahead(s, m, n)
BY DEF Ahead, PackagesOf

LEMMA AheadJoin ==
  ASSUME NEW s \in Seq(Byte), NEW u \in Seq(Byte), NEW m, NEW n, Ahead(s, m, n), n \notin PackagesOf(u)
  PROVE  Ahead(s \o u, m, n)
<1> DEFINE v == s \o u
<1>1. /\ Len(v) = Len(s) + Len(u) /\ Len(s) \in Nat /\ Len(u) \in Nat
      /\ \A i \in 1..Len(s) : v[i] = s[i]
      /\ \A i \in (Len(s) + 1)..(Len(s) + Len(u)) : v[i] = u[i - Len(s)]
  BY Joined
<1> HIDE DEF v
<1> SUFFICES ASSUME NEW q \in 1..Len(v), v[q][1] = n
             PROVE  \E p \in 1..Len(v) : p < q /\ v[p] = <<m, Size>>
  BY DEF Ahead, v
<1>2. CASE q <= Len(s)
  <2>1. q \in 1..Len(s) /\ s[q][1] = n
    BY <1>1, <1>2
  <2>2. PICK p \in 1..Len(s) : p < q /\ s[p] = <<m, Size>>
    BY <2>1 DEF Ahead
  <2>3. p \in 1..Len(v) /\ v[p] = <<m, Size>>
    BY <1>1, <2>2
  <2>4. QED
    BY <2>2, <2>3
<1>3. CASE q > Len(s)
  <2>1. q \in (Len(s) + 1)..(Len(s) + Len(u)) /\ q - Len(s) \in 1..Len(u)
    BY <1>1, <1>3
  <2>2. u[q - Len(s)][1] = n
    BY <1>1, <2>1
  <2>3. QED
    BY <2>1, <2>2 DEF PackagesOf
<1>4. q \in Nat /\ (q <= Len(s) \/ q > Len(s))
  BY ONLY <1>1, q \in 1..Len(v)
<1> QED
  BY <1>2, <1>3, <1>4

LEMMA AheadFound ==
  ASSUME NEW s \in Seq(Byte), NEW u \in Seq(Byte), NEW m, NEW n,
         <<m, Size>> \in Range(s), n \notin PackagesOf(s)
  PROVE  Ahead(s \o u, m, n)
<1> DEFINE v == s \o u
<1>1. /\ Len(v) = Len(s) + Len(u) /\ Len(s) \in Nat /\ Len(u) \in Nat
      /\ \A i \in 1..Len(s) : v[i] = s[i]
  BY Joined
<1> HIDE DEF v
<1> SUFFICES ASSUME NEW q \in 1..Len(v), v[q][1] = n
             PROVE  \E p \in 1..Len(v) : p < q /\ v[p] = <<m, Size>>
  BY DEF Ahead, v
<1>2. PICK p \in 1..Len(s) : s[p] = <<m, Size>>
  BY RangeOf
<1>3. q \notin 1..Len(s)
  <2>1. q \in 1..Len(s) => v[q] = s[q] /\ s[q][1] \in PackagesOf(s)
    BY <1>1 DEF PackagesOf
  <2>2. QED
    BY <2>1
<1>4. p \in 1..Len(v) /\ p < q /\ v[p] = <<m, Size>>
  BY <1>1, <1>2, <1>3
<1> QED
  BY <1>4

LEMMA AheadFront ==
  ASSUME NEW s \in Seq(Byte), NEW u \in Seq(Byte), NEW m, NEW n, Ahead(s \o u, m, n)
  PROVE  Ahead(s, m, n)
<1> DEFINE v == s \o u
<1>1. /\ Len(v) = Len(s) + Len(u) /\ Len(s) \in Nat /\ Len(u) \in Nat
      /\ \A i \in 1..Len(s) : v[i] = s[i]
  BY Joined
<1>2. Ahead(v, m, n)
  OBVIOUS
<1> HIDE DEF v
<1> SUFFICES ASSUME NEW q \in 1..Len(s), s[q][1] = n
             PROVE  \E p \in 1..Len(s) : p < q /\ s[p] = <<m, Size>>
  BY DEF Ahead
<1>3. q \in 1..Len(v) /\ v[q][1] = n
  BY <1>1
<1>4. PICK p \in 1..Len(v) : p < q /\ v[p] = <<m, Size>>
  BY <1>2, <1>3 DEF Ahead
<1>5. p \in 1..Len(s)
  BY <1>1, <1>4
<1>6. s[p] = <<m, Size>>
  BY <1>1, <1>4, <1>5
<1> QED
  BY <1>4, <1>5, <1>6

LEMMA JoinedAs ==
  ASSUME NEW s \in Seq(Byte), NEW t \in Seq(Byte), NEW u, u = s \o t
  PROVE  /\ u \in Seq(Byte) /\ Len(u) = Len(s) + Len(t)
         /\ \A i \in 1..Len(s) : u[i] = s[i]
         /\ \A i \in 1..Len(t) : u[Len(s) + i] = t[i]
BY Joined

LEMMA AheadInsert ==
  ASSUME NEW s \in Seq(Byte), NEW b \in Seq(Byte), NEW u \in Seq(Byte), NEW m, NEW n,
         Ahead(s \o u, m, n), n \notin PackagesOf(b)
  PROVE  Ahead((s \o b) \o u, m, n)
<1> DEFINE v == s \o u
           c == s \o b
           w == c \o u
<1>1. /\ Len(v) = Len(s) + Len(u) /\ Len(s) \in Nat /\ Len(u) \in Nat
      /\ \A i \in 1..Len(s) : v[i] = s[i]
      /\ \A i \in 1..Len(u) : v[Len(s) + i] = u[i]
  BY Joined
<1>2. /\ c \in Seq(Byte) /\ Len(c) = Len(s) + Len(b) /\ Len(b) \in Nat
      /\ \A i \in 1..Len(s) : c[i] = s[i]
      /\ \A i \in (Len(s) + 1)..(Len(s) + Len(b)) : c[i] = b[i - Len(s)]
  BY Joined
<1>3. Ahead(v, m, n)
  OBVIOUS
<1> HIDE DEF v, c
<1>4. /\ Len(w) = Len(c) + Len(u)
      /\ \A i \in 1..Len(c) : w[i] = c[i]
      /\ \A i \in 1..Len(u) : w[Len(c) + i] = u[i]
  <2>1. w = c \o u /\ c \in Seq(Byte)
    BY <1>2
  <2> HIDE DEF w
  <2>2. QED
    BY <2>1, JoinedAs
<1> HIDE DEF w
<1> SUFFICES ASSUME NEW q \in 1..Len(w), w[q][1] = n
             PROVE  \E p \in 1..Len(w) : p < q /\ w[p] = <<m, Size>>
  BY DEF Ahead, w, c
<1>5. \A i \in 1..Len(s) : i \in 1..Len(w) /\ w[i] = s[i]
  BY <1>1, <1>2, <1>4
<1>6. CASE q \in 1..Len(s)
  <2>1. q \in 1..Len(v) /\ v[q][1] = n
    BY <1>1, <1>5, <1>6
  <2>2. PICK p \in 1..Len(v) : p < q /\ v[p] = <<m, Size>>
    BY <1>3, <2>1 DEF Ahead
  <2>3. p \in 1..Len(s)
    BY <1>1, <1>6, <2>2
  <2>4. p \in 1..Len(w) /\ w[p] = <<m, Size>>
    BY <1>1, <1>5, <2>2, <2>3
  <2>5. QED
    BY <2>2, <2>4
<1>7. CASE q \in (Len(s) + 1)..(Len(s) + Len(b))
  <2>1. q \in 1..Len(c) /\ q - Len(s) \in 1..Len(b)
    BY <1>1, <1>2, <1>7
  <2>2. w[q] = b[q - Len(s)]
    BY <1>2, <1>4, <1>7, <2>1
  <2>3. QED
    BY <2>1, <2>2 DEF PackagesOf
<1>8. CASE q > Len(c)
  <2>1. PICK k \in 1..Len(u) : q = Len(c) + k
    <3>1. q - Len(c) \in 1..Len(u) /\ q = Len(c) + (q - Len(c))
      BY <1>1, <1>2, <1>4, <1>8
    <3>2. QED
      BY <3>1
  <2>2. w[q] = u[k] /\ v[Len(s) + k] = u[k] /\ Len(s) + k \in 1..Len(v)
    BY <1>1, <1>4, <2>1
  <2>3. PICK p \in 1..Len(v) : p < Len(s) + k /\ v[p] = <<m, Size>>
    BY <1>3, <2>2 DEF Ahead
  <2>4. CASE p \in 1..Len(s)
    <3>1. p \in 1..Len(w) /\ w[p] = <<m, Size>> /\ p < q
      BY <1>1, <1>2, <1>5, <2>1, <2>3, <2>4
    <3>2. QED
      BY <3>1
  <2>5. CASE p \notin 1..Len(s)
    <3>1. PICK l \in 1..Len(u) : p = Len(s) + l
      <4>1. p - Len(s) \in 1..Len(u) /\ p = Len(s) + (p - Len(s))
        BY <1>1, <2>5
      <4>2. QED
        BY <4>1
    <3>2. v[p] = u[l] /\ w[Len(c) + l] = u[l]
      BY <1>1, <1>4, <3>1
    <3>3. l < k
      BY <1>1, <2>1, <2>3, <3>1
    <3>4. Len(c) + l \in 1..Len(w) /\ Len(c) + l < q
      BY <1>1, <1>2, <1>4, <2>1, <3>1, <3>3
    <3>5. QED
      BY <2>3, <3>2, <3>4
  <2>6. QED
    BY <2>4, <2>5
<1> QED
  BY <1>1, <1>2, <1>4, <1>6, <1>7, <1>8
-----------------------------------------------------------------------------
(* Where the packages of a sender can be.                                  *)

LEMMA HandLoose ==
  ASSUME Base, NEW t \in Thread, pc[t] \notin {"idle", "enable"}
  PROVE  hand[t] \in Package /\ Loose(hand[t]) >= 1
<1>1. PathType /\ InHand
  BY DEF Base, IInv, Calls
<1>2. hand[t] \in Package /\ hand[t] \in Owned(t)
  BY <1>1 DEF InHand, Owned
<1>3. PICK m \in Package : m = hand[t]
  BY <1>2
<1>4. Cardinality(Holders(m)) = 1 /\ Cardinality(Mentions(m)) \in Nat
  BY <1>1, <1>2, <1>3, HoldersOf, LooseType
<1>5. Loose(m) >= 1
  BY <1>4 DEF Loose
<1> QED
  BY <1>3, <1>5

LEMMA PipeLoose ==
  ASSUME Base, NEW m \in Package
  PROVE  /\ InPipe(m) => Loose(m) >= 1
         /\ ~InPipe(m) => Cardinality(Mentions(m)) = 0
<1>1. PathType /\ InHand /\ pipe \in Seq(Request)
  BY DEF Base, IInv, Calls, PathType
<1>2. Mentions(m) = Hits(pipe, {c \in Request : c[2] = m})
  BY <1>1, MentionsAre
<1>3. IsFiniteSet(Mentions(m)) /\ Cardinality(Mentions(m)) \in Nat /\ Cardinality(Holders(m)) \in Nat
  BY <1>1, <1>2, HitsFinite, LooseType
<1>4. InPipe(m) <=> Mentions(m) # {}
  BY DEF InPipe, Mentions
<1>5. Mentions(m) # {} <=> Cardinality(Mentions(m)) # 0
  BY <1>3, FS_EmptySet
<1> QED
  BY <1>3, <1>4, <1>5 DEF Loose

LEMMA LooseIsNowhere ==
  ASSUME Base, Whereabouts, NEW m \in Package, Loose(m) >= 1
  PROVE  /\ m \notin fresh /\ m \notin dropped
         /\ m \notin PackagesOf(wire) /\ m \notin PackagesOf(low) /\ m \notin PackagesOf(Written)
<1>1. PathType /\ InHand /\ Lists /\ Where(m)
  BY DEF Base, IInv, Calls, Shape, Whereabouts
<1>2. Loose(m) \in Nat
  BY <1>1, LooseType
<1>3. m \notin fresh /\ m \notin dropped
  BY <1>1, <1>2 DEF Where
<1>4. ASSUME NEW i \in 1..Size
      PROVE  /\ Count(wire, <<m, i>>) = 0 /\ Count(high, <<m, i>>) = 0
             /\ Count(low, <<m, i>>) = 0 /\ Count(dw, <<m, i>>) = 0
  <2>1. /\ Count(wire, <<m, i>>) \in Nat /\ Count(high, <<m, i>>) \in Nat
        /\ Count(low, <<m, i>>) \in Nat /\ Count(dw, <<m, i>>) \in Nat
    BY <1>1, CountTypes
  <2>2. Count(wire, <<m, i>>) + Left(<<m, i>>) + Loose(m) = 1
    BY <1>1, <1>3 DEF Where
  <2>3. QED
    BY <1>2, <2>1, <2>2 DEF Left
<1>5. m \notin PackagesOf(wire) /\ m \notin PackagesOf(high) /\ m \notin PackagesOf(low)
      /\ m \notin PackagesOf(dw)
  <2>1. /\ m \in PackagesOf(wire) => \E i \in 1..Size : Count(wire, <<m, i>>) > 0
        /\ m \in PackagesOf(high) => \E i \in 1..Size : Count(high, <<m, i>>) > 0
        /\ m \in PackagesOf(low) => \E i \in 1..Size : Count(low, <<m, i>>) > 0
        /\ m \in PackagesOf(dw) => \E i \in 1..Size : Count(dw, <<m, i>>) > 0
    BY <1>1, CountPackage DEF Lists
  <2>2. \A i \in 1..Size : /\ ~(Count(wire, <<m, i>>) > 0) /\ ~(Count(high, <<m, i>>) > 0)
                           /\ ~(Count(low, <<m, i>>) > 0) /\ ~(Count(dw, <<m, i>>) > 0)
    BY <1>4
  <2>3. QED
    BY <2>1, <2>2, Zenon
<1>6. PackagesOf(Written) = (PackagesOf(wire) \cup PackagesOf(dw)) \cup PackagesOf(high)
  <2>1. wire \in Seq(Byte) /\ dw \in Seq(Byte) /\ high \in Seq(Byte) /\ wire \o dw \in Seq(Byte)
    BY <1>1, WrittenType DEF Lists
  <2>2. PICK V \in Seq(Byte) : V = wire \o dw
    BY <2>1
  <2>3. PackagesOf(V) = PackagesOf(wire) \cup PackagesOf(dw)
    BY <2>1, <2>2, PackagesJoin
  <2>4. PackagesOf(V \o high) = PackagesOf(V) \cup PackagesOf(high)
    BY <2>1, PackagesJoin
  <2>5. Written = V \o high
    BY <2>2 DEF Written
  <2>6. QED
    BY <2>3, <2>4, <2>5
<1> QED
  BY <1>3, <1>5, <1>6

\* What was sent with high priority and has left the pipe is on the wire, or
\* will be before anything else.
LEMMA Delivered ==
  ASSUME Base, Whereabouts, LowOnly, NEW m \in Range(sent), sender[m][2] = "D",
         ~InPipe(m), m \notin dropped
  PROVE  <<m, Size>> \in Range(Written)
<1>1. PathType /\ InHand /\ Lists /\ SentOnce
  BY DEF Base, IInv, Calls, Shape
<1>2. m \in Package /\ m \notin fresh /\ Where(m)
  BY <1>1, RangeOf DEF SentOnce, Whereabouts
<1>3. Loose(m) = 0
  <2>1. \A t \in Thread : m \notin Owned(t)
    BY <1>1 DEF InHand, Owned
  <2>2. Cardinality(Holders(m)) = 0
    BY <1>1, <2>1, HoldersOf
  <2>3. Cardinality(Mentions(m)) = 0
    BY <1>2, PipeLoose
  <2>4. QED
    BY <2>2, <2>3 DEF Loose
<1>4. Size \in 1..Size
  BY SizePositive
<1>5. PICK b \in Byte : b = <<m, Size>>
  BY <1>2, <1>4 DEF Byte
<1>6. /\ Count(wire, b) \in Nat /\ Count(high, b) \in Nat
      /\ Count(low, b) \in Nat /\ Count(dw, b) \in Nat
  BY <1>1, CountTypes
<1>7. Count(wire, b) + Left(b) = 1
  <2>1. Count(wire, b) + Left(b) + Loose(m) = 1
    BY <1>2, <1>4, <1>5 DEF Where
  <2>2. QED
    BY <1>3, <1>6, <2>1 DEF Left
<1>8. Count(low, b) = 0
  <2>1. m \notin PackagesOf(low)
    BY <1>2 DEF LowOnly
  <2>2. \A i \in 1..Len(low) : low[i] # b
    BY <1>5, <2>1 DEF PackagesOf
  <2>3. QED
    BY <1>1, <2>2, CountOf DEF Lists
<1>9. Count(Written, b) = Count(wire, b) + Count(dw, b) + Count(high, b)
  <2>1. wire \in Seq(Byte) /\ dw \in Seq(Byte) /\ high \in Seq(Byte) /\ wire \o dw \in Seq(Byte)
    BY <1>1, WrittenType DEF Lists
  <2>2. PICK V \in Seq(Byte) : V = wire \o dw
    BY <2>1
  <2>3. Count(V, b) = Count(wire, b) + Count(dw, b)
    BY <2>1, <2>2, CountJoin
  <2>4. Count(V \o high, b) = Count(V, b) + Count(high, b)
    BY <2>1, CountJoin
  <2>5. Written = V \o high
    BY <2>2 DEF Written
  <2>6. QED
    BY <2>3, <2>4, <2>5
<1>10. Count(Written, b) # 0
  BY <1>6, <1>7, <1>8, <1>9 DEF Left
<1>11. Written \in Seq(Byte)
  BY <1>1, WrittenType
<1>12. PICK i \in 1..Len(Written) : Written[i] = b
  BY <1>10, <1>11, CountOf
<1>13. b \in Range(Written)
  BY <1>11, <1>12, RangeOf
<1> QED
  BY <1>5, <1>13

\* What is not in the lists, and nowhere on its way to them, is on the wire.
LEMMA NothingLeft ==
  ASSUME Base, Whereabouts, NEW m \in Range(sent), m \notin dropped, ~InPipe(m),
         high = << >>, low = << >>, dw = << >>
  PROVE  OnWire(m)
<1>1. PathType /\ InHand /\ Lists /\ SentOnce
  BY DEF Base, IInv, Calls, Shape
<1>2. m \in Package /\ m \notin fresh /\ Where(m)
  BY <1>1, RangeOf DEF SentOnce, Whereabouts
<1>3. Loose(m) = 0
  <2>1. \A t \in Thread : m \notin Owned(t)
    BY <1>1 DEF InHand, Owned
  <2>2. Cardinality(Holders(m)) = 0
    BY <1>1, <2>1, HoldersOf
  <2>3. Cardinality(Mentions(m)) = 0
    BY <1>2, PipeLoose
  <2>4. QED
    BY <2>2, <2>3 DEF Loose
<1>4. Size \in 1..Size
  BY SizePositive
<1>5. PICK b \in Byte : b = <<m, Size>>
  BY <1>2, <1>4 DEF Byte
<1>6. Count(high, b) = 0 /\ Count(low, b) = 0 /\ Count(dw, b) = 0 /\ Count(wire, b) \in Nat
  <2>1. Count(<< >>, b) = 0
    BY <1>1, CountOf DEF Lists
  <2>2. QED
    BY <1>1, <2>1, CountTypes
<1>7. Count(wire, b) + Left(b) + Loose(m) = 1
  BY <1>2, <1>4, <1>5 DEF Where
<1>8. Left(b) = 0
  BY <1>6 DEF Left
<1>9. Count(wire, b) # 0
  BY <1>3, <1>6, <1>7, <1>8
<1>10. wire \in Seq(Byte)
  BY <1>1 DEF Lists
<1>11. PICK i \in 1..Len(wire) : wire[i] = b
  BY <1>9, <1>10, CountOf
<1> QED
  BY <1>5, <1>10, <1>11, RangeOf DEF OnWire

LEMMA BeforeFacts ==
  ASSUME Base, NEW m \in Package, NEW n \in Package, Before(m, n)
  PROVE  /\ m \in Range(sent) /\ m \notin fresh /\ n \notin fresh
         /\ sender[m][2] = "D" /\ sender[n][2] = "D"
<1>1. InHand /\ SentOnce
  BY DEF Base, Calls
<1>2. /\ \A i \in 1..Len(sent) : sent[i] \in Range(sent)
      /\ \A x \in Range(sent) : x \notin fresh
  BY <1>1, RangeOf DEF SentOnce
<1>3. CASE \E i, j \in 1..Len(sent) :
             /\ i < j /\ sent[i] = m /\ sent[j] = n
             /\ sender[m] = sender[n] /\ sender[m][2] = "D"
  BY <1>2, <1>3
<1>4. CASE \E t \in Thread :
             /\ pc[t] = "enable" /\ hand[t] = n
             /\ m \in Range(sent) /\ sender[m] = <<t, "D">>
  BY <1>1, <1>2, <1>4 DEF InHand
<1> QED
  BY <1>3, <1>4 DEF Before

LEMMA BeforeSame ==
  ASSUME UNCHANGED <<sent, sender, pc, hand>>, NEW m, NEW n
  PROVE  Before(m, n)' <=> Before(m, n)
BY DEF Before

LEMMA BeforeSend ==
  ASSUME Base, NEW t \in Thread, NEW k \in Package, NEW c \in {"D", "P"}, Send(t, k, c),
         NEW m \in Package, NEW n \in Package, Before(m, n)'
  PROVE  Before(m, n)
<1>1. InHand /\ SentOnce /\ PathType
  BY DEF Base, IInv, Calls
<1>2. /\ pc[t] = "idle" /\ k \in fresh /\ sent' = sent
      /\ sender' = [sender EXCEPT ![k] = <<t, c>>]
      /\ (UNCHANGED <<pc, hand>> \/ (/\ hand' = [hand EXCEPT ![t] = k]
                                     /\ pc' = [pc EXCEPT ![t] = IF c = "D" THEN "peek" ELSE "count"]))
  BY DEF Send, Goto
<1>3. \A x \in Package : x \notin fresh => sender'[x] = sender[x]
  BY <1>1, <1>2 DEF SentOnce
<1>4. /\ \A i \in 1..Len(sent) : sent[i] \in Range(sent)
      /\ \A x \in Range(sent) : x \notin fresh /\ x \in Package
  BY <1>1, RangeOf DEF SentOnce
<1>5. CASE \E i, j \in 1..Len(sent) :
             /\ i < j /\ sent[i] = m /\ sent[j] = n
             /\ sender'[m] = sender'[n] /\ sender'[m][2] = "D"
  BY <1>3, <1>4, <1>5 DEF Before
<1>6. CASE \E u \in Thread :
             /\ pc'[u] = "enable" /\ hand'[u] = n
             /\ m \in Range(sent) /\ sender'[m] = <<u, "D">>
  <2>1. PICK u \in Thread :
             /\ pc'[u] = "enable" /\ hand'[u] = n
             /\ m \in Range(sent) /\ sender'[m] = <<u, "D">>
    BY <1>6
  <2>2. pc[u] = "enable" /\ hand[u] = n
    BY <1>1, <1>2, <2>1 DEF PathType
  <2>3. sender[m] = <<u, "D">>
    BY <1>3, <1>4, <2>1
  <2>4. QED
    BY <2>1, <2>2, <2>3 DEF Before
<1> QED
  BY <1>2, <1>5, <1>6 DEF Before

LEMMA BeforeStep ==
  ASSUME Base, NEW t \in Thread, SendStep(t), NEW m \in Package, NEW n \in Package, Before(m, n)'
  PROVE  \/ Before(m, n)
         \/ /\ DirectWrite(t) \/ SendRequest(t)
            /\ n = hand[t] /\ m \in Range(sent) /\ sender[m] = <<t, "D">>
<1>1. InHand /\ SentOnce /\ PathType
  BY DEF Base, IInv, Calls
<1>2. sender' = sender
  BY DEF SendStep, Peek, TryLock, Look, DoubleCheck, DirectWrite, EnableWrite,
     IncSendingRef, SendRequest
<1>3. CASE sent' = sent /\ hand' = hand /\ \E label : Goto(t, label) /\ (label = "enable" => DirectWrite(t))
  <2>1. CASE \E i, j \in 1..Len(sent) :
               /\ i < j /\ sent[i] = m /\ sent[j] = n
               /\ sender[m] = sender[n] /\ sender[m][2] = "D"
    BY <2>1 DEF Before
  <2>2. CASE \E u \in Thread :
               /\ pc'[u] = "enable" /\ hand[u] = n
               /\ m \in Range(sent) /\ sender[m] = <<u, "D">>
    <3>1. PICK u \in Thread :
               /\ pc'[u] = "enable" /\ hand[u] = n
               /\ m \in Range(sent) /\ sender[m] = <<u, "D">>
      BY <2>2
    <3>2. pc[u] = "enable" \/ (u = t /\ DirectWrite(t))
      BY <1>1, <1>3, <3>1 DEF PathType, Goto
    <3>3. QED
      BY <3>1, <3>2 DEF Before
  <2>3. QED
    BY <1>2, <1>3, <2>1, <2>2 DEF Before
<1>4. CASE Done(t) /\ (DirectWrite(t) \/ SendRequest(t) \/ EnableWrite(t))
  <2>1. /\ sent' = Append(sent, hand[t]) /\ hand' = [hand EXCEPT ![t] = None]
        /\ pc' = [pc EXCEPT ![t] = "idle"] /\ pc[t] # "idle"
    BY <1>4 DEF Done, Goto, DirectWrite, SendRequest, EnableWrite
  <2>2. hand[t] \in Package /\ sender[hand[t]] = <<t, cmd[t]>> /\ sent \in Seq(Package)
    BY <1>1, <2>1 DEF InHand, SentOnce
  <2>3. /\ Len(sent') = Len(sent) + 1 /\ Len(sent) \in Nat /\ sent'[Len(sent) + 1] = hand[t]
        /\ \A i \in 1..Len(sent) : sent'[i] = sent[i]
        /\ Range(sent') = Range(sent) \cup {hand[t]}
        /\ \A i \in 1..Len(sent) : sent[i] \in Range(sent)
    BY <2>1, <2>2, RangeOf
  <2>4. CASE \E i, j \in 1..Len(sent') :
               /\ i < j /\ sent'[i] = m /\ sent'[j] = n
               /\ sender[m] = sender[n] /\ sender[m][2] = "D"
    <3>1. PICK i \in 1..Len(sent'), j \in 1..Len(sent') :
               /\ i < j /\ sent'[i] = m /\ sent'[j] = n
               /\ sender[m] = sender[n] /\ sender[m][2] = "D"
      BY <2>4
    <3>2. i \in 1..Len(sent) /\ sent[i] = m /\ m \in Range(sent)
      BY <2>3, <3>1
    <3>3. CASE j \in 1..Len(sent)
      BY <2>3, <3>1, <3>2, <3>3 DEF Before
    <3>4. CASE j = Len(sent) + 1
      <4>1. n = hand[t] /\ sender[m] = <<t, "D">>
        <5>1. n = hand[t]
          BY <2>3, <3>1, <3>4
        <5>2. sender[m] = <<t, cmd[t]>> /\ cmd[t] = "D"
          BY <2>2, <3>1, <5>1
        <5>3. QED
          BY <5>1, <5>2
      <4>2. EnableWrite(t) => pc[t] = "enable"
        BY DEF EnableWrite
      <4>3. QED
        BY <1>4, <3>2, <4>1, <4>2 DEF Before
    <3>5. QED
      BY <2>3, <3>3, <3>4
  <2>5. CASE \E u \in Thread :
               /\ pc'[u] = "enable" /\ hand'[u] = n
               /\ m \in Range(sent') /\ sender[m] = <<u, "D">>
    <3>1. PICK u \in Thread :
               /\ pc'[u] = "enable" /\ hand'[u] = n
               /\ m \in Range(sent') /\ sender[m] = <<u, "D">>
      BY <2>5
    <3>2. u # t /\ pc[u] = "enable" /\ hand[u] = n
      BY <1>1, <2>1, <3>1 DEF PathType
    <3>3. m # hand[t]
      BY <2>2, <3>1, <3>2
    <3>4. m \in Range(sent)
      BY <2>3, <3>1, <3>3
    <3>5. QED
      BY <3>1, <3>2, <3>4 DEF Before
  <2>6. QED
    BY <1>2, <2>4, <2>5 DEF Before
<1>5. CASE DirectWrite(t)
  <2>1. Done(t) \/ (UNCHANGED <<hand, sent>> /\ Goto(t, "enable"))
    BY <1>5 DEF DirectWrite
  <2>2. QED
    BY <1>3, <1>4, <1>5, <2>1
<1>6. CASE SendRequest(t) \/ EnableWrite(t)
  BY <1>4, <1>6 DEF SendRequest, EnableWrite
<1>7. CASE Peek(t) \/ TryLock(t) \/ Look(t) \/ DoubleCheck(t) \/ IncSendingRef(t)
  <2>1. UNCHANGED <<hand, sent>>
        /\ (Goto(t, "count") \/ Goto(t, "try") \/ Goto(t, "look") \/ Goto(t, "double")
            \/ Goto(t, "write") \/ Goto(t, "command"))
    BY <1>7 DEF Peek, TryLock, Look, DoubleCheck, IncSendingRef
  <2>2. \E label : Goto(t, label) /\ label # "enable"
    BY <2>1
  <2>3. QED
    BY <1>3, <2>1, <2>2
<1> QED
  BY <1>5, <1>6, <1>7 DEF SendStep

LEMMA SendingZero ==
  ASSUME Base, sending = 0, NEW m \in Package
  PROVE  ~InPipe(m)
<1>1. PathType /\ SendingTrue /\ Requests /\ pipe \in Seq(Request)
  BY DEF Base, IInv, PathType, Calls
<1>2. Cardinality(Waiting) \in Nat /\ Cardinality(OnWay(pipe)) \in Nat /\ IsFiniteSet(OnWay(pipe))
  BY <1>1, WaitingFinite, OnWayFinite
<1>3. sending = Cardinality(Waiting) + Cardinality(OnWay(pipe)) + (IF sp = "dec" THEN 1 ELSE 0)
  BY <1>1, SendingIsTotal DEF Total
<1>4. OnWay(pipe) = {}
  BY <1>2, <1>3, FS_EmptySet
<1>5. \A i \in 1..Len(pipe) : pipe[i][2] = None
  BY <1>1, <1>4 DEF OnWay, Requests
<1> QED
  BY <1>5, WriteAssumption DEF InPipe

LEMMA RangeGrows ==
  ASSUME NEW s \in Seq(Byte), NEW t \in Seq(Byte), NEW b, b \in Range(s)
  PROVE  b \in Range(s \o t)
<1>1. /\ s \o t \in Seq(Byte) /\ Len(s \o t) = Len(s) + Len(t)
      /\ Len(s) \in Nat /\ Len(t) \in Nat
      /\ \A i \in 1..Len(s) : (s \o t)[i] = s[i]
  BY Joined
<1>2. PICK i \in 1..Len(s) : s[i] = b
  BY RangeOf
<1>3. i \in 1..Len(s \o t) /\ (s \o t)[i] = b
  BY <1>1, <1>2
<1>4. PICK V \in Seq(Byte) : V = s \o t
  BY <1>1
<1> QED
  BY <1>3, <1>4, RangeOf

LEMMA SenderGrows ==
  ASSUME Base, NEW t \in Thread, SendStep(t)
  PROVE  /\ \A m : OnWire(m) => OnWire(m)'
         /\ \A m \in Range(sent) : InPipe(m)' => InPipe(m)
         /\ UNCHANGED <<dropped, sender, low>>
         /\ \A m : CutOff(m)' <=> CutOff(m)
<1>1. InHand /\ PathType /\ Lists /\ Lock /\ pipe \in Seq(Request)
  BY DEF Base, IInv, PathType, Calls, Shape
<1>2. UNCHANGED <<dropped, sender, low>>
  BY DEF SendStep, Peek, TryLock, Look, DoubleCheck, DirectWrite, EnableWrite,
     IncSendingRef, SendRequest, socket
<1>3. ASSUME NEW m, OnWire(m) PROVE OnWire(m)'
  <2>1. CASE DirectWrite(t)
    <3>1. hand[t] \in Package
      BY <1>1, <2>1 DEF DirectWrite, InHand
    <3>2. PICK X, Y : Wrote(t, X, Y)
      BY <1>1, <2>1, <3>1, DirectWriteCases
    <3>3. wire' = wire \o X /\ X \in Seq(Byte) /\ wire \in Seq(Byte)
      BY <1>1, <3>2 DEF Wrote, Lists
    <3>4. QED
      BY <1>3, <3>3, RangeGrows DEF OnWire
  <2>2. CASE ~DirectWrite(t)
    <3>1. wire' = wire
      BY <2>2 DEF SendStep, Peek, TryLock, Look, DoubleCheck, EnableWrite,
         IncSendingRef, SendRequest, peer
    <3>2. QED
      BY <1>3, <3>1 DEF OnWire
  <2>3. QED
    BY <2>1, <2>2
<1>4. ASSUME NEW m \in Range(sent), InPipe(m)' PROVE InPipe(m)
  <2>1. CASE SendRequest(t)
    <3>1. pipe' = Append(pipe, <<cmd[t], hand[t]>>) /\ hand[t] # m /\ <<cmd[t], hand[t]>>[2] = hand[t]
      BY <1>1, <2>1 DEF SendRequest, InHand
    <3>2. PICK i \in 1..Len(pipe') : pipe'[i][2] = m
      BY <1>4 DEF InPipe
    <3>3. PICK c : c = <<cmd[t], hand[t]>>
      OBVIOUS
    <3>4. c \in Request /\ pipe' = Append(pipe, c) /\ c[2] # m
      BY <1>1, <3>1, <3>3 DEF PathType, Request, Commands
    <3>5. Len(pipe') = Len(pipe) + 1 /\ Len(pipe) \in Nat /\ pipe'[Len(pipe) + 1] = c
          /\ \A j \in 1..Len(pipe) : pipe'[j] = pipe[j]
      BY <1>1, <3>4
    <3>6. i \in 1..Len(pipe)
      BY <3>2, <3>4, <3>5
    <3>7. QED
      BY <3>2, <3>5, <3>6 DEF InPipe
  <2>2. CASE ~SendRequest(t)
    <3>1. pipe' = pipe
      BY <2>2 DEF SendStep, Peek, TryLock, Look, DoubleCheck, EnableWrite,
         IncSendingRef, DirectWrite
    <3>2. QED
      BY <1>4, <3>1 DEF InPipe
  <2>3. QED
    BY <2>1, <2>2
<1>5. \A m : CutOff(m)' <=> CutOff(m)
  BY <1>2, SendersFrame DEF CutOff, ListsFreed
<1> QED
  BY <1>2, <1>3, <1>4, <1>5

LEMMA DirectSender ==
  ASSUME Base, Whereabouts, Marks, DirectAll,
         NEW t \in Thread, SendStep(t)
  PROVE  DirectAll'
<1> SUFFICES ASSUME NEW u \in Thread, NEW m \in Range(sent'), sender'[m] = <<u, "D">>
             PROVE  Direct(u, m)'
  BY DEF DirectAll
<1>0. InHand /\ PathType /\ SentOnce /\ Lists
  BY DEF Base, IInv, Calls, Shape
<1>1. /\ \A k : OnWire(k) => OnWire(k)'
      /\ \A k \in Range(sent) : InPipe(k)' => InPipe(k)
      /\ UNCHANGED <<dropped, sender, low>>
      /\ \A k : CutOff(k)' <=> CutOff(k)
  BY SenderGrows
<1>2. m \in Range(sent) \/ (m = hand[t] /\ pc'[t] = "idle" /\ pc[t] # "idle")
  <2>1. sent' = sent \/ (Done(t) /\ pc[t] # "idle")
    BY DEF SendStep, Peek, TryLock, Look, DoubleCheck, EnableWrite,
       IncSendingRef, DirectWrite, SendRequest
  <2>2. CASE Done(t) /\ pc[t] # "idle"
    <3>1. sent' = Append(sent, hand[t]) /\ pc'[t] = "idle" /\ hand[t] \in Package /\ sent \in Seq(Package)
      BY <1>0, <2>2 DEF Done, Goto, InHand, PathType, SentOnce
    <3>2. QED
      BY <2>2, <3>1, RangeOf
  <2>3. QED
    BY <2>1, <2>2
<1>3. CASE u # t
  <2>1. pc'[u] = pc[u]
    BY <1>0, <1>3 DEF SendStep, Peek, TryLock, Look, DoubleCheck, EnableWrite,
       IncSendingRef, DirectWrite, SendRequest, Goto, Done, PathType
  <2>2. m \in Range(sent)
    BY <1>0, <1>1, <1>2, <1>3 DEF InHand
  <2>3. Direct(u, m)
    BY <1>1, <2>2 DEF DirectAll
  <2>4. QED
    BY <1>1, <2>1, <2>2, <2>3 DEF Direct
<1>4. CASE u = t /\ pc'[t] \in {"look", "double", "write"}
  <2>1. m \in Range(sent) /\ m \in Package
    BY <1>0, <1>2, <1>4, RangeOf DEF SentOnce
  <2>2. Direct(t, m) /\ sender[m][2] = "D"
    BY <1>1, <1>4, <2>1 DEF DirectAll
  <2>3. CASE TryLock(t)
    <3>1. sending = 0 /\ pc'[t] = "look"
      BY <1>0, <1>4, <2>3 DEF TryLock, Goto, PathType
    <3>2. ~InPipe(m)
      BY <2>1, <3>1, SendingZero
    <3>3. QED
      BY <1>1, <1>4, <2>1, <3>1, <3>2 DEF Direct
  <2>4. CASE Look(t)
    <3>1. pc[t] = "look" /\ NothingBuffered /\ pc'[t] = "double"
      BY <1>0, <1>4, <2>4 DEF Look, Goto, PathType
    <3>2. ~InPipe(m)
      BY <2>2, <3>1 DEF Direct
    <3>3. m \in dropped \/ OnWire(m)
      BY <2>1, <3>1, <3>2, NothingLeft DEF NothingBuffered
    <3>4. QED
      BY <1>1, <1>4, <2>1, <3>1, <3>2, <3>3 DEF Direct
  <2>5. CASE DoubleCheck(t)
    <3>1. pc[t] = "double" /\ type = "connected" /\ pc'[t] = "write"
      BY <1>0, <1>4, <2>5 DEF DoubleCheck, Goto, PathType
    <3>2. m \in dropped => CutOff(m)
      BY <3>1 DEF Marks, Alive, CutOff
    <3>3. QED
      BY <1>1, <1>4, <2>1, <2>2, <3>1, <3>2 DEF Direct
  <2>6. QED
    <3>1. Peek(t) => pc'[t] \in {"try", "count"}
      BY <1>0 DEF Peek, Goto, PathType
    <3>2. DirectWrite(t) => pc'[t] \in {"idle", "enable"}
      BY <1>0 DEF DirectWrite, Goto, Done, PathType
    <3>3. EnableWrite(t) \/ SendRequest(t) \/ IncSendingRef(t) => pc'[t] \in {"idle", "command"}
      BY <1>0 DEF EnableWrite, SendRequest, IncSendingRef, Goto, Done, PathType
    <3>4. QED
      BY <1>4, <2>3, <2>4, <2>5, <3>1, <3>2, <3>3 DEF SendStep
<1>5. CASE u = t /\ pc'[t] \notin {"look", "double", "write"}
  BY <1>5 DEF Direct
<1> QED
  BY <1>3, <1>4, <1>5

LEMMA BytesPackage ==
  ASSUME NEW k \in Package
  PROVE  PackagesOf(Bytes(k)) = {k}
<1>1. Len(Bytes(k)) = Size /\ \A i \in 1..Size : Bytes(k)[i] = <<k, i>>
  BY BytesStream
<1>2. 1 \in 1..Size
  BY SizePositive
<1>3. PackagesOf(Bytes(k)) = {Bytes(k)[i][1] : i \in 1..Size}
  BY <1>1 DEF PackagesOf
<1>4. \A i \in 1..Size : Bytes(k)[i][1] = k
  BY <1>1
<1> QED
  BY <1>2, <1>3, <1>4

LEMMA BeforeSender ==
  ASSUME Base, NEW m \in Package, NEW n \in Package, Before(m, n)
  PROVE  sender[m] = sender[n]
BY DEF Before, Base, Calls, InHand

\* A direct write keeps the order: the sender has found what it sent before on
\* the wire.
LEMMA OrderDirectWrite ==
  ASSUME Base, Whereabouts, OrderWire, DirectAll, Alive => OrderLists,
         NEW t \in Thread, DirectWrite(t)
  PROVE  OrderWire' /\ (Alive => OrderLists')
<1> SUFFICES ASSUME NEW m \in Package, NEW n \in Package, Before(m, n)'
             PROVE  (Ahead(wire', m, n) \/ CutOff(m)) /\ (Alive => Ahead(Written', m, n))
  <2>1. \A k : CutOff(k)' <=> CutOff(k)
    BY SenderGrows DEF SendStep
  <2>2. QED
    BY <2>1 DEF OrderWire, OrderLists
<1>0. Lists /\ Lock /\ Gone /\ InHand
  BY DEF Base, Shape, Calls
<1>1. pc[t] = "write" /\ dw = << >> /\ high' = high /\ type # "invalid" /\ hand[t] \in Package
      /\ sender[hand[t]] = <<t, cmd[t]>>
  BY <1>0, WriteAssumption DEF DirectWrite, InHand, Lock, Gone, Locked
<1>2. PICK k \in Package : k = hand[t]
  BY <1>1
<1>3. PICK X, Y : Wrote(t, X, Y)
  BY <1>0, <1>1, DirectWriteCases
<1>4. /\ Written = wire \o high
      /\ Written' = (wire \o Bytes(k)) \o high
      /\ wire' = wire \o X /\ X \in Seq(Byte)
      /\ wire \o Bytes(k) = wire' \o Y /\ Y \in Seq(Byte) /\ wire' \in Seq(Byte)
  BY <1>0, <1>1, <1>2, <1>3, WrittenWrote
<1>5. k \notin PackagesOf(wire)
  BY <1>1, <1>2, HandLoose, LooseIsNowhere
<1>6. m \in Range(sent) /\ (Before(m, n) \/ (n = k /\ sender[m] = <<t, "D">>))
      /\ (n = k => sender[m] = <<t, "D">>)
  <2>1. Before(m, n) \/ (n = k /\ m \in Range(sent) /\ sender[m] = <<t, "D">>)
    BY <1>2, BeforeStep DEF SendStep
  <2>2. ASSUME Before(m, n) PROVE m \in Range(sent) /\ (n = k => sender[m] = <<t, "D">>)
    <3>1. m \in Range(sent) /\ sender[m][2] = "D" /\ sender[m] = sender[n]
      BY <2>2, BeforeFacts, BeforeSender
    <3>2. n = k => sender[m] = <<t, cmd[t]>> /\ cmd[t] = "D"
      BY <1>1, <1>2, <3>1
    <3>3. QED
      BY <3>1, <3>2
  <2>3. QED
    BY <2>1, <2>2
<1>7. wire \in Seq(Byte) /\ high \in Seq(Byte) /\ Bytes(k) \in Seq(Byte)
  BY <1>0, BytesStream DEF Lists
<1>8. CASE ~Alive
  <2>1. CASE n = k
    <3>1. OnWire(m) \/ CutOff(m)
      BY <1>1, <1>6, <2>1 DEF DirectAll, Direct
    <3>2. OnWire(m) => Ahead(wire \o X, m, n)
      BY <1>4, <1>5, <1>7, <2>1, AheadFound DEF OnWire
    <3>3. QED
      BY <1>4, <1>8, <3>1, <3>2
  <2>2. CASE n # k
    <3>1. PackagesOf(X) \subseteq {k}
      <4>1. Bytes(k) = X \o Y
        BY <1>2, <1>3 DEF Wrote
      <4>2. PackagesOf(X \o Y) = PackagesOf(X) \cup PackagesOf(Y)
        BY <1>4, PackagesJoin
      <4>3. QED
        BY <4>1, <4>2, BytesPackage
    <3>2. Ahead(wire, m, n) \/ CutOff(m)
      BY <1>6, <2>2 DEF OrderWire
    <3>3. Ahead(wire, m, n) => Ahead(wire \o X, m, n)
      BY <1>4, <1>7, <2>2, <3>1, AheadJoin
    <3>4. QED
      BY <1>4, <1>8, <3>2, <3>3
  <2>3. QED
    BY <2>1, <2>2
<1>9. CASE Alive
  <2>1. PICK B \in Seq(Byte) : B = Bytes(k) /\ PackagesOf(B) = {k}
    BY <1>7, BytesPackage
  <2>2. PICK W \in Seq(Byte) : W = wire \o B
    BY <1>7, <2>1, Joined
  <2>3. Ahead(W \o high, m, n)
    <3>1. CASE n = k
      <4>1. Direct(t, m)
        BY <1>6, <1>9, <3>1 DEF DirectAll
      <4>2. <<m, Size>> \in Range(wire)
        BY <1>1, <1>9, <4>1 DEF Direct, OnWire, CutOff, Alive
      <4>3. PICK V \in Seq(Byte) : V = B \o high
        BY <1>7, Joined
      <4>4. Ahead(wire \o V, m, n)
        BY <1>5, <1>7, <3>1, <4>2, AheadFound
      <4>5. wire \in Seq(Byte) /\ B \in Seq(Byte) /\ high \in Seq(Byte)
        BY <1>7
      <4>6. (wire \o B) \o high = wire \o (B \o high)
        BY ONLY <4>5
      <4>7. QED
        BY <2>2, <4>3, <4>4, <4>6
    <3>2. CASE n # k
      <4>1. Ahead(wire \o high, m, n)
        BY <1>4, <1>6, <1>9, <3>2 DEF OrderLists
      <4>2. Ahead((wire \o B) \o high, m, n)
        BY <1>7, <2>1, <3>2, <4>1, AheadInsert
      <4>3. QED
        BY <2>2, <4>2
    <3>3. QED
      BY <3>1, <3>2
  <2>4. Ahead(Written', m, n)
    BY <1>4, <2>1, <2>2, <2>3
  <2>5. Ahead(W, m, n)
    BY <1>7, <2>3, AheadFront
  <2>6. PICK w \in Seq(Byte) : w = wire'
    BY <1>4
  <2>7. Ahead(w \o Y, m, n)
    BY <1>4, <2>1, <2>2, <2>5, <2>6
  <2>8. Ahead(w, m, n)
    BY <1>4, <2>7, AheadFront
  <2>9. QED
    BY <2>4, <2>6, <2>8
<1> QED
  BY <1>8, <1>9

LEMMA OrderSender ==
  ASSUME Base, Whereabouts, OrderWire, DirectAll, Alive => OrderLists,
         NEW t \in Thread, SendStep(t)
  PROVE  OrderWire' /\ (Alive => OrderLists')
<1>1. CASE DirectWrite(t)
  BY <1>1, OrderDirectWrite
<1>2. CASE ~DirectWrite(t)
  <2> SUFFICES ASSUME NEW m \in Package, NEW n \in Package, Before(m, n)'
               PROVE  (Ahead(wire', m, n) \/ CutOff(m)) /\ (Alive => Ahead(Written', m, n))
    <3>1. \A k : CutOff(k)' <=> CutOff(k)
      BY SenderGrows
    <3>2. QED
      BY <3>1 DEF OrderWire, OrderLists
  <2>1. UNCHANGED <<wire, dw, high>>
    BY <1>2 DEF SendStep, Peek, TryLock, Look, DoubleCheck, EnableWrite,
       IncSendingRef, SendRequest, socket, peer
  <2>2. Written' = Written
    BY <2>1, WrittenSame
  <2>3. CASE Before(m, n)
    BY <2>1, <2>2, <2>3 DEF OrderWire, OrderLists
  <2>4. CASE SendRequest(t) /\ n = hand[t]
    <3>1. n \notin PackagesOf(wire) /\ n \notin PackagesOf(Written)
      BY <2>4, HandLoose, LooseIsNowhere DEF SendRequest
    <3>2. QED
      BY <2>1, <2>2, <3>1, AheadNone
  <2>5. QED
    BY <1>2, <2>3, <2>4, BeforeStep
<1> QED
  BY <1>1, <1>2

LEMMA OrderPipeSender ==
  ASSUME Base, Whereabouts, OrderPipe, NEW t \in Thread, SendStep(t)
  PROVE  OrderPipe'
<1> SUFFICES ASSUME NEW m \in Package, NEW n \in Package, Before(m, n)',
                    NEW q \in 1..Len(pipe'), NEW p \in 1..Len(pipe'), pipe'[q][2] = m, pipe'[p][2] = n
             PROVE  q < p
  BY DEF OrderPipe
<1>0. PathType /\ InHand /\ Requests /\ SentOnce /\ pipe \in Seq(Request)
  BY DEF Base, IInv, PathType, Calls
<1>1. \/ Before(m, n)
      \/ /\ DirectWrite(t) \/ SendRequest(t)
         /\ n = hand[t] /\ m \in Range(sent) /\ pc[t] # "idle"
  <2>1. \/ Before(m, n)
        \/ /\ DirectWrite(t) \/ SendRequest(t)
           /\ n = hand[t] /\ m \in Range(sent)
    BY BeforeStep
  <2>2. DirectWrite(t) \/ SendRequest(t) => pc[t] # "idle"
    BY DEF DirectWrite, SendRequest
  <2>3. QED
    BY <2>1, <2>2
<1>2. m \in Range(sent)
  BY <1>1, BeforeFacts
<1>3. \A i \in 1..Len(pipe) : pipe[i][2] \in Package => pipe[i][2] \in Range(sent)
  BY <1>0, WriteAssumption DEF Requests
<1>4. ASSUME q \in 1..Len(pipe), p \in 1..Len(pipe), pipe[q][2] = m, pipe[p][2] = n PROVE q < p
  <2>1. n \in Range(sent)
    BY <1>3, <1>4
  <2>2. Before(m, n)
    BY <1>0, <1>1, <2>1 DEF InHand
  <2>3. QED
    BY <1>4, <2>2 DEF OrderPipe
<1>5. CASE SendRequest(t)
  <2>1. PICK c \in Request : c = <<cmd[t], hand[t]>>
    BY <1>0 DEF PathType, Request, Commands
  <2>2. pipe' = Append(pipe, c) /\ c[2] # m
    BY <1>0, <1>2, <1>5, <2>1 DEF SendRequest, InHand
  <2>3. Len(pipe') = Len(pipe) + 1 /\ Len(pipe) \in Nat /\ pipe'[Len(pipe) + 1] = c
        /\ \A j \in 1..Len(pipe) : pipe'[j] = pipe[j]
    BY <1>0, <2>1, <2>2
  <2>4. q \in 1..Len(pipe)
    BY <2>2, <2>3
  <2>5. CASE p \in 1..Len(pipe)
    BY <1>4, <2>3, <2>4, <2>5
  <2>6. CASE p = Len(pipe) + 1
    BY <2>3, <2>4, <2>6
  <2>7. QED
    BY <2>3, <2>5, <2>6
<1>6. CASE ~SendRequest(t)
  <2>1. pipe' = pipe
    BY <1>6 DEF SendStep, Peek, TryLock, Look, DoubleCheck, EnableWrite,
       IncSendingRef, DirectWrite
  <2>2. QED
    BY <1>4, <2>1
<1> QED
  BY <1>5, <1>6
-----------------------------------------------------------------------------
(* The other steps keep the order.                                         *)

LEMMA OrderFrame ==
  ASSUME UNCHANGED <<sent, sender, pc, hand, wire>>, \A m : CutOff(m) => CutOff(m)'
  PROVE  /\ OrderWire => OrderWire'
         /\ UNCHANGED <<dw, high>> /\ OrderLists => OrderLists'
         /\ PackagesOf(low') \subseteq PackagesOf(low) /\ LowOnly => LowOnly'
<1>1. \A m, n : Before(m, n)' <=> Before(m, n)
  BY DEF Before
<1>2. UNCHANGED <<dw, high>> => Written' = Written
  BY DEF Written
<1>3. OrderWire => OrderWire'
  BY <1>1 DEF OrderWire
<1>4. UNCHANGED <<dw, high>> /\ OrderLists => OrderLists'
  BY <1>1, <1>2 DEF OrderLists
<1>5. PackagesOf(low') \subseteq PackagesOf(low) /\ LowOnly => LowOnly'
  BY DEF LowOnly
<1> QED
  BY <1>3, <1>4, <1>5

LEMMA DirectFrame ==
  ASSUME UNCHANGED <<sent, sender, pc>>, dropped \subseteq dropped', DirectAll,
         \A m : CutOff(m) => CutOff(m)',
         \A m \in Range(sent) : (OnWire(m) => OnWire(m)') /\ (InPipe(m)' => InPipe(m))
  PROVE  DirectAll'
<1> SUFFICES ASSUME NEW u \in Thread, NEW m \in Range(sent), sender[m] = <<u, "D">>
             PROVE  Direct(u, m)'
  BY DEF DirectAll
<1>1. Direct(u, m)
  BY DEF DirectAll
<1> QED
  BY <1>1 DEF Direct

LEMMA PipeTail ==
  ASSUME PathType, pipe # << >>, pipe' = Tail(pipe)
  PROVE  /\ \A m : InPipe(m)' => InPipe(m)
         /\ UNCHANGED <<sent, sender, pc, hand>> /\ OrderPipe => OrderPipe'
<1>1. pipe \in Seq(Request) /\ Len(pipe') = Len(pipe) - 1 /\ Len(pipe) \in Nat
      /\ \A i \in 1..Len(pipe') : i + 1 \in 1..Len(pipe) /\ pipe'[i] = pipe[i + 1]
  BY DEF PathType
<1>2. ASSUME NEW m, InPipe(m)' PROVE InPipe(m)
  BY <1>1, <1>2 DEF InPipe
<1>3. ASSUME UNCHANGED <<sent, sender, pc, hand>>, OrderPipe PROVE OrderPipe'
  <2>1. \A m, n : Before(m, n)' <=> Before(m, n)
    BY <1>3 DEF Before
  <2> SUFFICES ASSUME NEW m \in Package, NEW n \in Package, Before(m, n),
                      NEW q \in 1..Len(pipe'), NEW p \in 1..Len(pipe'), pipe'[q][2] = m, pipe'[p][2] = n
               PROVE  q < p
    BY <2>1 DEF OrderPipe
  <2>2. q + 1 < p + 1
    BY <1>1, <1>3 DEF OrderPipe
  <2>3. QED
    BY <2>2
<1> QED
  BY <1>2, <1>3

LEMMA PipeSame ==
  ASSUME UNCHANGED <<pipe, sent, sender, pc, hand>>
  PROVE  /\ \A m : InPipe(m)' => InPipe(m)
         /\ OrderPipe => OrderPipe'
<1>1. \A m, n : Before(m, n)' <=> Before(m, n)
  BY DEF Before
<1> QED
  BY <1>1 DEF InPipe, OrderPipe

\* A package that has not been sent is nowhere.
LEMMA FreshIsNowhere ==
  ASSUME Base, Whereabouts, NEW m \in fresh
  PROVE  m \notin PackagesOf(low)
<1>1. Lists /\ m \in Package /\ low \in Seq(Byte)
  BY DEF Base, Shape, Lists, Calls, SentOnce
<1>2. Where(m)
  BY <1>1 DEF Whereabouts
<1>3. ASSUME NEW i \in 1..Size PROVE ~(Count(low, <<m, i>>) > 0)
  <2>1. /\ Count(high, <<m, i>>) \in Nat /\ Count(low, <<m, i>>) \in Nat /\ Count(dw, <<m, i>>) \in Nat
    BY <1>1, CountTypes
  <2>2. Left(<<m, i>>) = 0
    BY <1>2 DEF Where
  <2>3. QED
    BY <2>1, <2>2 DEF Left
<1> QED
  BY <1>1, <1>3, CountPackage

LEMMA OrderSend ==
  ASSUME Base, Whereabouts, Order, Alive' => Alive, dropped \subseteq dropped', \A m : CutOff(m) => CutOff(m)',
         NEW t \in Thread, NEW k \in Package, NEW c \in {"D", "P"}, Send(t, k, c)
  PROVE  OrderWire' /\ DirectAll' /\ (Alive' => OrderLists' /\ OrderPipe' /\ LowOnly')
<1>0. InHand /\ SentOnce /\ PathType
  BY DEF Base, IInv, Calls
<1>1. /\ UNCHANGED <<wire, dw, high, low, pipe, sent>>
      /\ k \in fresh /\ sender' = [sender EXCEPT ![k] = <<t, c>>]
      /\ dropped \subseteq dropped'
      /\ \A u \in Thread : pc'[u] \in {"look", "double", "write"} => pc'[u] = pc[u]
  BY <1>0 DEF Send, socket, peer, Goto, PathType
<1>2. \A m, n \in Package : Before(m, n)' => Before(m, n)
  BY BeforeSend
<1>3. Written' = Written
  BY <1>1, WrittenSame
<1>4. \A m \in Package : m # k => sender'[m] = sender[m]
  BY <1>0, <1>1 DEF SentOnce
<1>5. OrderWire'
  BY <1>1, <1>2 DEF Order, OrderWire
<1>6. Alive => OrderLists' /\ OrderPipe'
  BY <1>1, <1>2, <1>3 DEF Order, OrderLists, OrderPipe
<1>7. Alive => LowOnly'
  <2>1. k \notin PackagesOf(low)
    BY <1>1, FreshIsNowhere
  <2>2. QED
    BY <1>1, <1>4, <2>1 DEF Order, LowOnly
<1>8. DirectAll'
  <2> SUFFICES ASSUME NEW u \in Thread, NEW m \in Range(sent), sender'[m] = <<u, "D">>
               PROVE  Direct(u, m)'
    BY <1>1 DEF DirectAll
  <2>1. m \in Package /\ m # k
    BY <1>0, <1>1, RangeOf DEF SentOnce
  <2>2. Direct(u, m)
    BY <1>4, <2>1 DEF Order, DirectAll
  <2>3. QED
    BY <1>1, <2>2 DEF Direct, InPipe, OnWire
<1> QED
  BY <1>5, <1>6, <1>7, <1>8

LEMMA OrderClose ==
  ASSUME Base, Order, NEW t \in Thread, NEW how \in {"K", "shutdown"}, Close(t, how)
  PROVE  OrderWire' /\ DirectAll' /\ (Alive' => OrderLists' /\ OrderPipe' /\ LowOnly')
<1>0. InHand /\ SentOnce /\ PathType /\ pipe \in Seq(Request)
  BY DEF Base, IInv, Calls, PathType
<1>1. UNCHANGED <<type, sp, wire, dw, high, low, sent, sender, pc, hand, dropped>>
      /\ pipe' = Append(pipe, <<how, None>>)
  BY DEF Close, socket, senders, peer
<1>2. Alive' = Alive /\ \A m : CutOff(m) => CutOff(m)'
  BY <1>1 DEF Alive, ListsFreed, CutOff
<1>3. PICK r \in Request : r = <<how, None>> /\ r[2] = None
  <2>1. <<how, None>> \in Request /\ <<how, None>>[2] = None
    BY DEF Request, Commands
  <2>2. QED
    BY <2>1
<1>4. /\ Len(pipe') = Len(pipe) + 1 /\ Len(pipe) \in Nat /\ pipe'[Len(pipe) + 1] = r
      /\ \A i \in 1..Len(pipe) : pipe'[i] = pipe[i]
  <2>1. pipe' = Append(pipe, r)
    BY <1>1, <1>3
  <2>2. QED
    BY <1>0, <2>1
<1>5. \A i \in 1..Len(pipe') : pipe'[i][2] \in Package => i \in 1..Len(pipe) /\ pipe'[i] = pipe[i]
  <2>1. r[2] \notin Package
    BY <1>3, WriteAssumption
  <2>2. \A i \in 1..Len(pipe') : i \in 1..Len(pipe) \/ i = Len(pipe) + 1
    BY <1>4
  <2>3. QED
    BY <1>4, <2>1, <2>2
<1>6. \A m \in Package : InPipe(m)' => InPipe(m)
  BY <1>5 DEF InPipe
<1>7. OrderWire'
  BY <1>1, <1>2, OrderFrame DEF Order
<1>8. Alive => OrderLists' /\ LowOnly'
  BY <1>1, <1>2, OrderFrame DEF Order
<1>9. DirectAll'
  <2>1. \A m \in Range(sent) : (OnWire(m) => OnWire(m)') /\ (InPipe(m)' => InPipe(m))
    BY <1>0, <1>1, <1>6, RangeOf DEF OnWire, SentOnce
  <2>2. QED
    BY <1>1, <1>2, <2>1, DirectFrame DEF Order
<1>10. Alive => OrderPipe'
  <2>1. \A m, n : Before(m, n)' <=> Before(m, n)
    BY <1>1 DEF Before
  <2>2. QED
    BY <1>5, <2>1 DEF Order, OrderPipe
<1> QED
  BY <1>2, <1>7, <1>8, <1>9, <1>10

LEMMA OrderCommand ==
  ASSUME Base, Whereabouts, Marks, Order, CtrlSend,
         dropped \subseteq dropped', \A m : CutOff(m) => CutOff(m)'
  PROVE  OrderWire' /\ DirectAll' /\ (Alive' => OrderLists' /\ OrderPipe' /\ LowOnly')
<1>0. Lists /\ InHand /\ SentOnce /\ Requests /\ PathType /\ pipe \in Seq(Request)
  BY DEF Base, IInv, Shape, Calls, PathType
<1>1. /\ UNCHANGED <<wire, pc, type, conn>>
      /\ \/ Written' = Written
         \/ /\ dropped' = dropped
            /\ type \notin {"invalid", "halfclose"}
            /\ Written' = Written \o Bytes(Head(pipe)[2])
  BY WrittenCommand
<1>2. UNCHANGED <<sent, sender, hand>> /\ sp = "poll" /\ sp' = "dec"
  BY DEF CtrlSend, Command, senders
<1>3. pipe # << >> /\ pipe' = Tail(pipe) /\ Carries(Head(pipe)) /\ Head(pipe)[2] \in Package
  BY CtrlSendPackage
<1>4. PICK k \in Package : k = Head(pipe)[2]
  BY <1>3
<1>5. 1 \in 1..Len(pipe) /\ pipe[1] = Head(pipe)
  BY <1>0, <1>3
<1>6. k \notin PackagesOf(Written)
  <2>1. InPipe(k)
    BY <1>4, <1>5 DEF InPipe
  <2>2. QED
    BY <2>1, PipeLoose, LooseIsNowhere
<1>7. \A m, n : Before(m, n)' <=> Before(m, n)
  BY <1>1, <1>2 DEF Before
<1>8. Alive' = Alive
  BY <1>1, <1>2 DEF Alive, ListsFreed
<1>9. OrderWire'
  BY <1>1, <1>2, OrderFrame DEF Order
<1>10. ASSUME Alive PROVE OrderLists'
  <2> SUFFICES ASSUME NEW m \in Package, NEW n \in Package, Before(m, n)
               PROVE  Ahead(Written', m, n)
    BY <1>7 DEF OrderLists
  <2>1. Ahead(Written, m, n)
    BY <1>10 DEF Order, OrderLists
  <2>2. CASE Written' = Written
    BY <2>1, <2>2
  <2>3. CASE Written' # Written
    <3>1. type \notin {"invalid", "halfclose"} /\ Written' = Written \o Bytes(k)
      BY <1>1, <1>4, <2>3
    <3>2. Written \in Seq(Byte) /\ Bytes(k) \in Seq(Byte) /\ PackagesOf(Bytes(k)) = {k}
      BY <1>0, WrittenType, BytesStream, BytesPackage
    <3>3. CASE n # k
      BY <2>1, <3>1, <3>2, <3>3, AheadJoin
    <3>4. CASE n = k
      <4>1. ~InPipe(m)
        <5> SUFFICES ASSUME NEW q \in 1..Len(pipe), pipe[q][2] = m PROVE FALSE
          BY DEF InPipe
        <5>1. q < 1
          BY <1>4, <1>5, <1>10, <3>4 DEF Order, OrderPipe
        <5>2. QED
          BY <5>1
      <4>2. m \in Range(sent) /\ sender[m][2] = "D"
        BY BeforeFacts
      <4>3. dropped = {}
        BY <1>10, <3>1 DEF Marks
      <4>4. <<m, Size>> \in Range(Written)
        BY <1>10, <4>1, <4>2, <4>3, Delivered DEF Order
      <4>5. Ahead(Written \o Bytes(k), m, n)
        BY <1>6, <3>2, <3>4, <4>4, AheadFound
      <4>6. QED
        BY <3>1, <4>5
    <3>5. QED
      BY <3>3, <3>4
  <2>4. QED
    BY <2>2, <2>3
<1>11. Alive => OrderPipe'
  BY <1>0, <1>1, <1>2, <1>3, PipeTail DEF Order
<1>12. ASSUME Alive PROVE LowOnly'
  <2>1. \/ low' = low
        \/ Head(pipe)[1] = "P" /\ low' = low \o Bytes(k)
    BY <1>4 DEF CtrlSend
  <2>2. low \in Seq(Byte) /\ Bytes(k) \in Seq(Byte) /\ PackagesOf(Bytes(k)) = {k}
    BY <1>0, BytesStream, BytesPackage DEF Lists
  <2>3. Head(pipe)[1] = "P" => sender[k][2] = "P"
    BY <1>0, <1>3, <1>4, <1>5 DEF Requests
  <2>4. low' = low \o Bytes(k) => PackagesOf(low') = PackagesOf(low) \cup {k}
    BY <2>2, PackagesJoin
  <2>5. QED
    BY <1>2, <1>12, <2>1, <2>3, <2>4 DEF Order, LowOnly
<1>13. DirectAll'
  <2>1. \A m \in Range(sent) : (OnWire(m) => OnWire(m)') /\ (InPipe(m)' => InPipe(m))
    BY <1>0, <1>1, <1>3, PipeTail DEF OnWire
  <2>2. QED
    BY <1>1, <1>2, <2>1, DirectFrame DEF Order
<1> QED
  BY <1>8, <1>9, <1>10, <1>11, <1>12, <1>13

LEMMA OrderFlush ==
  ASSUME Base, Order, Alive, SendBuffer, UNCHANGED <<sent, sender, pc, hand>>,
         pipe' = pipe \/ (pipe # << >> /\ pipe' = Tail(pipe)), \A m : CutOff(m) => CutOff(m)'
  PROVE  OrderWire' /\ DirectAll' /\ (Alive' => OrderLists' /\ OrderPipe' /\ LowOnly')
<1>0. Lists /\ Lock /\ PathType
  BY DEF Base, IInv, Shape
<1>1. \A m, n : Before(m, n)' <=> Before(m, n)
  BY DEF Before
<1>d. DirectAll'
  <2>1. \A t \in Thread : pc[t] \notin {"look", "double", "write"}
    <3>1. holder = None
      BY <1>0, SendBufferCases
    <3>2. QED
      BY <1>0, <3>1, WriteAssumption DEF Lock, Locked
  <2>2. QED
    BY <2>1 DEF DirectAll, Direct
<1>2. CASE Fails
  <2>1. wire' = wire /\ ~Alive'
    BY <1>2 DEF Fails, Invalidate, Alive, ListsFreed
  <2>2. OrderWire'
    BY <2>1, OrderFrame DEF Order
  <2>3. QED
    BY <1>d, <2>1, <2>2
<1>3. CASE \E X, H, Y, R : Flushed(X, H, Y, R)
  <2>1. PICK X, H, Y, R : Flushed(X, H, Y, R)
    BY <1>3
  <2>2. PICK u \in Seq(Byte) :
          /\ Written' = Written \o u
          /\ Written \in Seq(Byte) /\ Written' \in Seq(Byte)
          /\ low = u \o low'
          /\ wire' \in Seq(Byte) /\ high' \in Seq(Byte)
          /\ Written' = wire' \o high'
    BY <1>0, <2>1, FlushWritten
  <2>3. PICK l \in Seq(Byte) : l = low'
    BY <2>1 DEF Flushed
  <2>4. PackagesOf(low) = PackagesOf(u) \cup PackagesOf(l)
    BY <2>2, <2>3, PackagesJoin
  <2>5. ASSUME NEW m \in Package, NEW n \in Package, Before(m, n)
        PROVE  Ahead(Written', m, n) /\ Ahead(wire', m, n)
    <3>1. Ahead(Written, m, n)
      BY <2>5 DEF Order, OrderLists
    <3>2. n \notin PackagesOf(u)
      <4>1. sender[n][2] = "D"
        BY <2>5, BeforeFacts
      <4>2. QED
        BY <2>4, <4>1 DEF Order, LowOnly
    <3>3. Ahead(Written \o u, m, n)
      BY <2>2, <3>1, <3>2, AheadJoin
    <3>4. PICK w \in Seq(Byte), h \in Seq(Byte) : w = wire' /\ h = high'
      BY <2>2
    <3>5. Ahead(w \o h, m, n)
      BY <2>2, <3>3, <3>4
    <3>6. Ahead(w, m, n)
      BY <3>5, AheadFront
    <3>7. QED
      BY <2>2, <3>3, <3>4, <3>6
  <2>6. OrderWire' /\ OrderLists'
    BY <1>1, <2>5 DEF OrderWire, OrderLists
  <2>7. LowOnly'
    BY <2>3, <2>4 DEF Order, LowOnly
  <2>8. OrderPipe'
    BY <1>0, PipeTail, PipeSame DEF Order
  <2>9. QED
    BY <1>d, <2>6, <2>7, <2>8
<1> QED
  BY <1>0, <1>2, <1>3, SendBufferCases

LEMMA OrderSocket ==
  ASSUME Base, Whereabouts, Types, Marks, Order, Alive' => Alive,
         dropped \subseteq dropped', \A m : CutOff(m) => CutOff(m)',
         SocketThread \/ Connected \/ PeerReads \/ PeerEnds \/ PeerFails \/ UNCHANGED vars
  PROVE  OrderWire' /\ DirectAll' /\ (Alive' => OrderLists' /\ OrderPipe' /\ LowOnly')
<1>0. Lists /\ Lock /\ PathType /\ Gone
  BY DEF Base, IInv, Shape
<1>1. UNCHANGED <<sent, sender, pc, hand>>
  BY SocketFrame
<1>2. ASSUME UNCHANGED wire, pipe' = pipe \/ (pipe # << >> /\ pipe' = Tail(pipe)),
             Alive' => UNCHANGED <<dw, high, low>>
      PROVE  OrderWire' /\ DirectAll' /\ (Alive' => OrderLists' /\ OrderPipe' /\ LowOnly')
  <2>1. OrderWire'
    BY <1>1, <1>2, OrderFrame DEF Order
  <2>2. /\ \A m : InPipe(m)' => InPipe(m)
        /\ OrderPipe => OrderPipe'
    BY <1>0, <1>1, <1>2, PipeTail, PipeSame
  <2>3. ASSUME Alive' PROVE OrderLists' /\ OrderPipe' /\ LowOnly'
    <3>1. UNCHANGED <<dw, high, low>> /\ OrderLists /\ OrderPipe /\ LowOnly
      BY <1>2, <2>3 DEF Order
    <3>2. OrderLists' /\ LowOnly'
      BY <1>1, <1>2, <3>1, OrderFrame
    <3>3. QED
      BY <2>2, <3>1, <3>2
  <2>4. DirectAll'
    <3>1. \A m \in Range(sent) : (OnWire(m) => OnWire(m)') /\ (InPipe(m)' => InPipe(m))
      BY <1>2, <2>2 DEF OnWire
    <3>2. QED
      BY <1>1, <3>1, DirectFrame DEF Order
  <2>5. QED
    BY <2>1, <2>3, <2>4
<1>3. CASE CtrlSend
  BY <1>3, OrderCommand
<1>4. CASE WriteEvent
  <2>1. SendBuffer /\ Alive /\ UNCHANGED pipe
    BY <1>4 DEF WriteEvent, Writable, Alive, ListsFreed
  <2>2. QED
    BY <1>1, <2>1, OrderFlush
<1>5. CASE CloseSocket
  <2>1. pipe # << >> /\ pipe' = Tail(pipe)
    BY <1>5 DEF CloseSocket, Command
  <2>2. \/ Alive /\ SendBuffer
        \/ UNCHANGED <<wire, dw, high, low>>
    BY <1>5 DEF CloseSocket, Command, Alive, ListsFreed, socket, peer
  <2>3. QED
    BY <1>1, <1>2, <2>1, <2>2, OrderFlush
<1>6. CASE CloseDecide \/ ReportConnect \/ ReadEnd
  <2>1. UNCHANGED <<wire, pipe>> /\ (Alive' => UNCHANGED <<dw, high, low>>)
    BY <1>6, FreesAll
  <2>2. QED
    BY <1>2, <2>1
<1>7. CASE ForceClose
  <2>1. UNCHANGED <<wire, pipe>> /\ ~Alive'
    BY <1>7 DEF ForceClose, Invalidate, Alive, ListsFreed, peer
  <2>2. QED
    BY <1>2, <2>1
<1>8. CASE DecSendingRef \/ ConnectNomore \/ DisableWrite \/ Connected \/ PeerReads \/ PeerEnds \/ PeerFails
             \/ UNCHANGED vars
  <2>1. UNCHANGED <<wire, pipe, dw, high, low>>
    BY <1>8 DEF DecSendingRef, ConnectNomore, DisableWrite, Connected, PeerReads, PeerEnds, PeerFails, vars,
       socket, peer
  <2>2. QED
    BY <1>2, <2>1
<1> QED
  BY <1>3, <1>4, <1>5, <1>6, <1>7, <1>8 DEF SocketThread

LEMMA OrderStep == Core /\ Order /\ [Next]_vars => Order'
<1> SUFFICES ASSUME Core, Order, [Next]_vars
             PROVE  OrderWire' /\ DirectAll' /\ (Alive' => OrderLists' /\ OrderPipe' /\ LowOnly')
  BY DEF Order
<1>1. Base /\ Whereabouts /\ Types /\ Marks
  BY DEF Core
<1>2. /\ Alive' => Alive
      /\ dropped \subseteq dropped' /\ \A m : CutOff(m) => CutOff(m)'
  BY <1>1, StaysGone, CutGrows
<1>3. OrderWire /\ DirectAll /\ (Alive => OrderLists /\ OrderPipe /\ LowOnly)
  BY DEF Order
<1>4. ASSUME NEW t \in Thread, NEW m \in Package, NEW c \in {"D", "P"}, Send(t, m, c)
      PROVE  OrderWire' /\ DirectAll' /\ (Alive' => OrderLists' /\ OrderPipe' /\ LowOnly')
  BY <1>1, <1>2, <1>4, OrderSend
<1>5. ASSUME NEW t \in Thread, SendStep(t)
      PROVE  OrderWire' /\ DirectAll' /\ (Alive' => OrderLists' /\ OrderPipe' /\ LowOnly')
  <2>1. OrderWire' /\ (Alive => OrderLists')
    BY <1>1, <1>3, <1>5, OrderSender
  <2>2. Alive => OrderPipe'
    BY <1>1, <1>3, <1>5, OrderPipeSender
  <2>3. DirectAll'
    BY <1>1, <1>3, <1>5, DirectSender
  <2>4. Alive => LowOnly'
    <3>1. UNCHANGED <<low, sender>>
      BY <1>1, <1>5, SenderGrows
    <3>2. QED
      BY <1>3, <3>1 DEF LowOnly
  <2>5. QED
    BY <1>2, <2>1, <2>2, <2>3, <2>4
<1>6. ASSUME NEW t \in Thread, NEW how \in {"K", "shutdown"}, Close(t, how)
      PROVE  OrderWire' /\ DirectAll' /\ (Alive' => OrderLists' /\ OrderPipe' /\ LowOnly')
  BY <1>1, <1>6, OrderClose
<1>7. CASE SocketThread \/ Connected \/ PeerReads \/ PeerEnds \/ PeerFails \/ UNCHANGED vars
  BY <1>1, <1>2, <1>7, OrderSocket
<1> QED
  BY <1>4, <1>5, <1>6, <1>7 DEF Next

LEMMA OrderInit == Init => Order
<1> SUFFICES ASSUME Init PROVE Order
  OBVIOUS
<1>1. \A m, n : ~Before(m, n)
  BY DEF Init, Before
<1>2. Range(sent) = {}
  BY DEF Init, Range
<1>3. PackagesOf(low) = {}
  BY DEF Init, PackagesOf
<1> QED
  BY <1>1, <1>2, <1>3 DEF Order, OrderWire, OrderLists, OrderPipe, LowOnly, DirectAll

LEMMA OrderInvariant == Safety => [](Core /\ Order)
<1>1. Core /\ [Next]_vars => Core
  OBVIOUS
<1> QED
  BY CoreInvariant, OrderInit, OrderStep, PTL DEF Safety

\* What one thread sends with high priority goes out in the order it was sent,
\* whether socket_server_send writes it or the socket thread does: no byte of
\* a package goes out before the last byte of those sent before it, but for those
\* that force_close has freed.
THEOREM SentInOrder == Safety => []InOrder
<1>1. Core /\ Order => InOrder
  <2> SUFFICES ASSUME Core, Order, NEW j \in 1..Len(sent), NEW i \in 1..Len(sent),
                      i < j, sender[sent[i]] = sender[sent[j]], sender[sent[i]][2] = "D",
                      <<sent[j], 1>> \in Range(wire), ~CutOff(sent[i])
               PROVE  \E k, n \in 1..Len(wire) :
                        k < n /\ wire[k] = <<sent[i], Size>> /\ wire[n] = <<sent[j], 1>>
    BY DEF InOrder
  <2>1. sent \in Seq(Package) /\ wire \in Seq(Byte)
    BY DEF Core, Base, Calls, SentOnce, Shape, Lists
  <2>2. PICK m \in Package, n \in Package : m = sent[i] /\ n = sent[j]
    BY <2>1
  <2>3. Before(m, n)
    BY <2>2 DEF Before
  <2>4. Ahead(wire, m, n)
    BY <2>2, <2>3 DEF Order, OrderWire
  <2>5. PICK l \in 1..Len(wire) : wire[l] = <<n, 1>>
    BY <2>1, <2>2, RangeOf
  <2>6. wire[l][1] = n
    BY <2>5
  <2>7. PICK k \in 1..Len(wire) : k < l /\ wire[k] = <<m, Size>>
    BY <2>4, <2>6 DEF Ahead
  <2>8. QED
    BY <2>2, <2>5, <2>7
<1> QED
  BY <1>1, OrderInvariant, PTL
-----------------------------------------------------------------------------
(* A graceful close.                                                       *)

\* The socket thread has worked on a close command.
Closing == sp \in {"decide", "closing"} \/ type \in {"halfclose", "invalid"}

\* No close command comes before m in the pipe.
Early(m) == \A i \in 1..Len(pipe) : pipe[i][2] = m => \A q \in 1..i : Carries(pipe[q])

\* A package sent before the first close is not lost.
Kept(m) ==
  /\ m \in Range(sent)
  /\ m \notin dropped
  /\ Early(m)
  /\ Closing => ~InPipe(m)
  /\ sp = "closing" => OnWire(m)

Grace ==
  closes # << >> /\ NoShutdown /\ Sound => \A m \in closes[1].before : Kept(m)

LEMMA EarlyTail ==
  ASSUME PathType, pipe # << >>, pipe' = Tail(pipe), NEW m, Early(m)
  PROVE  Early(m)'
<1>1. pipe \in Seq(Request) /\ Len(pipe') = Len(pipe) - 1 /\ Len(pipe) \in Nat
      /\ \A i \in 1..Len(pipe') : i + 1 \in 1..Len(pipe) /\ pipe'[i] = pipe[i + 1]
  BY DEF PathType
<1> SUFFICES ASSUME NEW i \in 1..Len(pipe'), pipe'[i][2] = m, NEW q \in 1..i
             PROVE  Carries(pipe'[q])
  BY DEF Early, Carries
<1>2. i + 1 \in 1..Len(pipe) /\ pipe[i + 1][2] = m
  BY <1>1
<1>3. q + 1 \in 1..(i + 1) /\ q \in 1..Len(pipe')
  BY <1>1
<1>4. Carries(pipe[q + 1])
  BY <1>2, <1>3 DEF Early
<1> QED
  BY <1>1, <1>3, <1>4

LEMMA EarlyAppend ==
  ASSUME PathType, NEW c \in Request, pipe' = Append(pipe, c), NEW m, c[2] # m
  PROVE  /\ Early(m) => Early(m)'
         /\ InPipe(m)' => InPipe(m)
<1>1. /\ Len(pipe') = Len(pipe) + 1 /\ Len(pipe) \in Nat /\ pipe'[Len(pipe) + 1] = c
      /\ \A i \in 1..Len(pipe) : pipe'[i] = pipe[i]
  BY DEF PathType
<1>2. \A i \in 1..Len(pipe') : pipe'[i][2] = m => i \in 1..Len(pipe) /\ pipe[i][2] = m
  <2>1. \A i \in 1..Len(pipe') : i \in 1..Len(pipe) \/ i = Len(pipe) + 1
    BY <1>1
  <2>2. QED
    BY <1>1, <2>1
<1>3. InPipe(m)' => InPipe(m)
  BY <1>2 DEF InPipe
<1>4. ASSUME Early(m), NEW i \in 1..Len(pipe'), pipe'[i][2] = m, NEW q \in 1..i
      PROVE  Carries(pipe'[q])
  <2>1. i \in 1..Len(pipe) /\ pipe[i][2] = m
    BY <1>2, <1>4
  <2>2. Carries(pipe[q])
    BY <1>4, <2>1 DEF Early
  <2>3. q \in 1..Len(pipe)
    BY <1>1, <2>1
  <2>4. QED
    BY <1>1, <2>2, <2>3
<1>5. Early(m) => Early(m)'
  BY <1>4 DEF Early, Carries
<1> QED
  BY <1>3, <1>5

LEMMA KeptFrame ==
  ASSUME NEW m, Kept(m), pipe' = pipe, m \in Range(sent'), m \notin dropped',
         Closing' => Closing,
         sp' = "closing" => sp = "closing" /\ (OnWire(m) => OnWire(m)')
  PROVE  Kept(m)'
BY DEF Kept, Early, InPipe, Carries

\* What has its last byte on the wire has no byte in dw_buffer.
LEMMA WrittenNotLeft ==
  ASSUME Base, Whereabouts, NEW m \in Package, OnWire(m)
  PROVE  m \notin PackagesOf(dw)
<1>1. Lists /\ Where(m) /\ PathType /\ InHand
  BY DEF Base, IInv, Calls, Shape, Whereabouts
<1>2. Size \in 1..Size
  BY SizePositive
<1>3. PICK b \in Byte : b = <<m, Size>>
  BY <1>2 DEF Byte
<1>4. wire \in Seq(Byte) /\ dw \in Seq(Byte) /\ Tidy(dw)
  BY <1>1 DEF Lists
<1>5. PICK i \in 1..Len(wire) : wire[i] = b
  BY <1>3, <1>4, RangeOf DEF OnWire
<1>6. Count(wire, b) # 0
  BY <1>4, <1>5, CountOf
<1>7. /\ Count(wire, b) \in Nat /\ Count(high, b) \in Nat
      /\ Count(low, b) \in Nat /\ Count(dw, b) \in Nat /\ Loose(m) \in Nat
  BY <1>1, CountTypes, LooseType
<1>8. Left(b) = 0
  <2>1. m \notin fresh /\ m \notin dropped => Count(wire, b) + Left(b) + Loose(m) = 1
    BY <1>1, <1>2, <1>3 DEF Where
  <2>2. m \in dropped => Left(b) = 0
    BY <1>1, <1>2, <1>3 DEF Where
  <2>3. m \in fresh => Count(wire, b) = 0
    BY <1>1, <1>2, <1>3 DEF Where
  <2>4. Left(b) \in Nat
    BY <1>7 DEF Left
  <2>5. QED
    BY <1>6, <1>7, <2>1, <2>2, <2>3, <2>4
<1>9. Count(dw, b) = 0
  BY <1>7, <1>8 DEF Left
<1>10. m \in PackagesOf(dw) => Count(dw, <<m, Size>>) > 0
  BY <1>4, LastCounted
<1> QED
  BY <1>3, <1>9, <1>10

LEMMA KeptSend ==
  ASSUME Base, NEW m, Kept(m), NEW t \in Thread, NEW k \in Package, NEW c \in {"D", "P"}, Send(t, k, c)
  PROVE  Kept(m)'
<1>1. /\ UNCHANGED <<pipe, sent, sp, type, wire>>
      /\ k \in fresh /\ dropped' \subseteq dropped \cup {k}
  BY DEF Send, socket, peer
<1>2. m # k
  BY <1>1 DEF Base, Calls, SentOnce, Kept
<1> QED
  BY <1>1, <1>2, KeptFrame DEF Kept, Closing, OnWire

LEMMA KeptSendStep ==
  ASSUME Base, NEW m, Kept(m), NEW t \in Thread, SendStep(t)
  PROVE  Kept(m)'
<1>0. InHand /\ PathType /\ SentOnce
  BY DEF Base, IInv, Calls
<1>1. /\ OnWire(m) => OnWire(m)'
      /\ dropped' = dropped
  BY SenderGrows
<1>2. UNCHANGED <<type, sp>>
  BY SendersFrame
<1>3. m \in Range(sent')
  <2>1. sent' = sent \/ (sent' = Append(sent, hand[t]) /\ pc[t] # "idle")
    BY DEF SendStep, Peek, TryLock, Look, DoubleCheck, EnableWrite,
       IncSendingRef, DirectWrite, SendRequest, Done
  <2>2. m \in Range(sent) /\ sent \in Seq(Package)
    BY <1>0 DEF Kept, SentOnce
  <2>3. CASE sent' = Append(sent, hand[t]) /\ pc[t] # "idle"
    <3>1. PICK h \in Package : h = hand[t]
      BY <1>0, <2>3 DEF InHand
    <3>2. Range(Append(sent, h)) = Range(sent) \cup {h}
      BY <2>2, RangeOf
    <3>3. QED
      BY <2>2, <2>3, <3>1, <3>2
  <2>4. QED
    BY <2>1, <2>2, <2>3
<1>4. CASE SendRequest(t)
  <2>1. PICK r \in Request : r = <<cmd[t], hand[t]>> /\ r[2] = hand[t]
    <3>1. <<cmd[t], hand[t]>> \in Request /\ <<cmd[t], hand[t]>>[2] = hand[t]
      BY <1>0 DEF PathType, Request, Commands
    <3>2. QED
      BY <3>1
  <2>2. pipe' = Append(pipe, r) /\ r[2] # m
    BY <1>0, <1>4, <2>1 DEF SendRequest, InHand, Kept
  <2>3. Early(m)' /\ (InPipe(m)' => InPipe(m))
    BY <1>0, <2>2, EarlyAppend DEF Kept
  <2>4. QED
    BY <1>1, <1>2, <1>3, <2>3 DEF Kept, Closing
<1>5. CASE ~SendRequest(t)
  <2>1. pipe' = pipe
    BY <1>5 DEF SendStep, Peek, TryLock, Look, DoubleCheck, EnableWrite,
       IncSendingRef, DirectWrite
  <2>2. QED
    BY <1>1, <1>2, <1>3, <2>1, KeptFrame DEF Kept, Closing
<1> QED
  BY <1>4, <1>5

LEMMA KeptClose ==
  ASSUME Base, NEW m \in Package, Kept(m), NEW t \in Thread, NEW how \in {"K", "shutdown"}, Close(t, how)
  PROVE  Kept(m)'
<1>0. PathType
  BY DEF Base, IInv
<1>1. UNCHANGED <<type, sp, wire, sent, dropped>> /\ pipe' = Append(pipe, <<how, None>>)
  BY DEF Close, socket, senders, peer
<1>2. PICK r \in Request : r = <<how, None>> /\ r[2] = None
  <2>1. <<how, None>> \in Request /\ <<how, None>>[2] = None
    BY DEF Request, Commands
  <2>2. QED
    BY <2>1
<1>3. pipe' = Append(pipe, r) /\ r[2] # m
  BY <1>1, <1>2, WriteAssumption
<1>4. Early(m)' /\ (InPipe(m)' => InPipe(m))
  BY <1>0, <1>3, EarlyAppend DEF Kept
<1> QED
  BY <1>1, <1>4 DEF Kept, Closing, OnWire

LEMMA KeptSocket ==
  ASSUME Core, NoShutdown, Sound', NEW m \in Package, Kept(m),
         SocketThread \/ Connected \/ PeerReads \/ PeerEnds \/ PeerFails \/ UNCHANGED vars
  PROVE  Kept(m)'
<1>0. Base /\ Whereabouts /\ Marks /\ Lists /\ Gone /\ PathType /\ pipe \in Seq(Request)
  BY DEF Core, Base, Shape, IInv, PathType
<1>1. Sound /\ sent' = sent /\ m \in Range(sent)
  BY SocketFrame DEF Kept
<1>2. CASE CtrlSend
  <2>1. pipe # << >> /\ pipe' = Tail(pipe) /\ Carries(Head(pipe))
    BY <1>0, <1>2, CtrlSendPackage
  <2>2. Early(m)' /\ (InPipe(m)' => InPipe(m))
    BY <1>0, <2>1, EarlyTail, PipeTail DEF Kept
  <2>3. /\ sp' = "dec" /\ type' = type
        /\ dropped' = dropped \/ (type \in {"invalid", "halfclose"} /\ dropped' = dropped \cup {Head(pipe)[2]})
    BY <1>2 DEF CtrlSend
  <2>4. Head(pipe)[2] = m => InPipe(m)
    BY <1>0, <2>1 DEF InPipe
  <2>5. m \notin dropped'
    BY <2>3, <2>4 DEF Kept, Closing
  <2>6. QED
    BY <1>1, <2>2, <2>3, <2>5 DEF Kept, Closing
<1>3. ASSUME SendBuffer, conn' = conn PROVE dropped' = dropped /\ (type' = type \/ type = "halfclose")
  BY <1>0, <1>1, <1>3, SendBufferCases DEF Fails, Sound
<1>4. CASE WriteEvent
  <2>1. SendBuffer /\ UNCHANGED <<pipe, sp, conn>> /\ sp = "poll"
    BY <1>4 DEF WriteEvent, Writable
  <2>2. QED
    BY <1>1, <1>3, <2>1, KeptFrame DEF Kept, Closing
<1>5. CASE CloseSocket
  <2>1. pipe # << >> /\ pipe' = Tail(pipe) /\ ~Carries(Head(pipe)) /\ conn' = conn /\ sp = "poll"
        /\ (SendBuffer \/ UNCHANGED <<type, dropped>>) /\ sp' \in {"poll", "decide"}
    BY <1>5 DEF CloseSocket, Command, Carries, socket, peer
  <2>2. Early(m)' /\ (InPipe(m)' => InPipe(m))
    BY <1>0, <2>1, EarlyTail, PipeTail DEF Kept
  <2>3. ~InPipe(m)
    <3> SUFFICES ASSUME NEW i \in 1..Len(pipe), pipe[i][2] = m PROVE FALSE
      BY DEF InPipe
    <3>1. 1 \in 1..i /\ pipe[1] = Head(pipe)
      BY <1>0, <2>1
    <3>2. QED
      BY <2>1, <3>1 DEF Kept, Early
  <2>4. dropped' = dropped
    BY <1>3, <2>1
  <2>5. QED
    BY <1>1, <2>1, <2>2, <2>3, <2>4 DEF Kept
<1>6. CASE CloseDecide
  <2>1. /\ sp = "decide" /\ UNCHANGED <<pipe, wire, dw>>
        /\ \/ FreeLists /\ type' = type /\ (op = "shutdown" \/ Nomore)
           \/ sp' = "poll" /\ dropped' = dropped
    BY <1>6 DEF CloseDecide, peer
  <2>2. ~InPipe(m) /\ ~InPipe(m)' /\ Closing
    BY <2>1 DEF Kept, Closing, InPipe
  <2>3. CASE FreeLists /\ type' = type /\ (op = "shutdown" \/ Nomore)
    <3>1. Nomore
      BY <1>0, <2>1, <2>3 DEF Marks
    <3>2. high = << >> /\ low = << >> /\ dw = << >>
      BY <3>1 DEF Nomore, NothingBuffered
    <3>3. OnWire(m)
      BY <1>0, <1>1, <2>2, <3>2, NothingLeft DEF Kept
    <3>4. high \o low = << >> /\ PackagesOf(<< >>) = {}
      BY <3>2 DEF PackagesOf
    <3>5. dropped' = dropped
      BY <2>3, <3>4 DEF FreeLists
    <3>6. OnWire(m)'
      BY <2>1, <3>3 DEF OnWire
    <3>7. Early(m)'
      BY <2>1 DEF Kept, Early, Carries
    <3>8. QED
      BY <1>1, <2>2, <3>5, <3>6, <3>7 DEF Kept
  <2>4. CASE sp' = "poll" /\ dropped' = dropped
    BY <1>1, <2>1, <2>2, <2>4, KeptFrame DEF Kept
  <2>5. QED
    BY <2>1, <2>3, <2>4
<1>7. CASE ForceClose
  <2>1. /\ sp = "closing" /\ sp' = "poll" /\ pipe' = pipe
        /\ dropped' = dropped \cup PackagesOf(dw)
    BY <1>7 DEF ForceClose, Invalidate
  <2>2. m \notin PackagesOf(dw)
    BY <1>0, <2>1, WrittenNotLeft DEF Kept
  <2>3. QED
    BY <1>1, <2>1, <2>2, KeptFrame DEF Kept, Closing
<1>8. CASE ReportConnect \/ ReadEnd
  <2>1. /\ sp = "poll" /\ conn' = conn /\ pipe' = pipe
        /\ ~Sound \/ (sp' = "opened" /\ dropped' = dropped /\ type = "connecting" /\ type' = "connected")
    BY <1>8 DEF ReportConnect, ReadEnd, Writable, peer, Sound
  <2>2. QED
    BY <1>1, <2>1, KeptFrame DEF Kept, Closing
<1>9. CASE DecSendingRef \/ ConnectNomore \/ DisableWrite
  <2>1. UNCHANGED <<pipe, type, dropped>> /\ sp' \in {"poll", "disable"}
    BY <1>9 DEF DecSendingRef, ConnectNomore, DisableWrite, socket
  <2>2. QED
    BY <1>1, <2>1, KeptFrame DEF Kept, Closing
<1>10. CASE Connected \/ PeerReads \/ PeerEnds \/ PeerFails \/ UNCHANGED vars
  <2>1. UNCHANGED <<pipe, type, dropped, sp, wire>>
    BY <1>10 DEF Connected, PeerReads, PeerEnds, PeerFails, vars, socket, peer
  <2>2. QED
    BY <1>1, <2>1, KeptFrame DEF Kept, Closing, OnWire
<1> QED
  BY <1>2, <1>4, <1>5, <1>6, <1>7, <1>8, <1>9, <1>10 DEF SocketThread

\* At the first close nothing has been freed, and there is no close command in
\* the pipe.
LEMMA FirstClose ==
  ASSUME Base, Types, Marks, closes = << >>, Sound, NEW m \in Range(sent)
  PROVE  Kept(m)
<1>0. Requests /\ pipe \in Seq(Request)
  BY DEF Base, Calls, IInv, PathType
<1>1. sp \notin {"decide", "closing"} /\ type \notin {"halfclose", "invalid"}
  BY DEF Marks, ListsFreed
<1>3. dropped = {}
  BY <1>1 DEF Marks, Alive, ListsFreed
<1>4. \A q \in 1..Len(pipe) : Carries(pipe[q])
  <2>1. ~Asked("K") /\ ~Asked("shutdown")
    BY DEF Marks
  <2>2. \A q \in 1..Len(pipe) : pipe[q][1] \in {"D", "P", "K", "shutdown"}
    <3>1. \A q \in 1..Len(pipe) : pipe[q] \in Request
      BY <1>0
    <3>2. QED
      BY <3>1 DEF Request, Commands
  <2>3. QED
    BY <2>1, <2>2 DEF Asked, Carries
<1>5. Early(m)
  <2>1. Len(pipe) \in Nat
    BY <1>0
  <2>2. \A i \in 1..Len(pipe) : \A q \in 1..i : q \in 1..Len(pipe)
    BY <2>1
  <2>3. QED
    BY <1>4, <2>2 DEF Early
<1> QED
  BY <1>1, <1>3, <1>5 DEF Kept, Closing

LEMMA GraceStep == Core /\ Grace /\ [Next]_vars => Grace'
<1> SUFFICES ASSUME Core, Grace, [Next]_vars, closes' # << >>, NoShutdown', Sound',
                    NEW m \in closes'[1].before
             PROVE  Kept(m)'
  BY DEF Grace
<1>1. Base /\ Whereabouts /\ Types /\ Marks /\ SentOnce
  BY DEF Core, Base, Calls
<1>2. NoShutdown /\ Sound
  BY <1>1, StaysGone
<1>3. closes \in Seq([op : {"K", "shutdown"}, before : SUBSET Package]) /\ sent \in Seq(Package)
  BY <1>1 DEF Types, SentOnce
<1>4. closes # << >> => \A k \in closes[1].before : Kept(k) /\ k \in Package
  <2> SUFFICES ASSUME closes # << >> PROVE \A k \in closes[1].before : Kept(k) /\ k \in Package
    OBVIOUS
  <2>1. 1 \in 1..Len(closes)
    BY <1>3
  <2>2. PICK S : S = [op : {"K", "shutdown"}, before : SUBSET Package]
    OBVIOUS
  <2>3. closes \in Seq(S)
    BY <1>3, <2>2
  <2>4. closes[1] \in S
    BY <2>1, <2>3
  <2>5. closes[1].before \subseteq Package
    BY <2>2, <2>4
  <2>6. QED
    BY <1>2, <2>5 DEF Grace
<1>5. ASSUME NEW t \in Thread, NEW how \in {"K", "shutdown"}, Close(t, how) PROVE Kept(m)'
  <2>1. closes' = Append(closes, [op |-> how, before |-> Range(sent)])
    BY <1>5 DEF Close
  <2>2. CASE closes = << >>
    <3>1. m \in Range(sent)
      BY <2>1, <2>2
    <3>2. m \in Package /\ Kept(m)
      BY <1>1, <1>2, <1>3, <2>2, <3>1, FirstClose, RangeOf
    <3>3. QED
      BY <1>1, <1>5, <3>2, KeptClose
  <2>3. CASE closes # << >>
    <3>1. closes'[1] = closes[1]
      BY <1>3, <2>1, <2>3
    <3>2. m \in Package /\ Kept(m)
      BY <1>4, <2>3, <3>1
    <3>3. QED
      BY <1>1, <1>5, <3>2, KeptClose
  <2>4. QED
    BY <2>2, <2>3
<1>6. CASE closes' = closes
  <2>1. m \in Package /\ Kept(m)
    BY <1>4, <1>6
  <2>2. ASSUME NEW t \in Thread, NEW k \in Package, NEW c \in {"D", "P"}, Send(t, k, c) PROVE Kept(m)'
    BY <1>1, <2>1, <2>2, KeptSend
  <2>3. ASSUME NEW t \in Thread, SendStep(t) PROVE Kept(m)'
    BY <1>1, <2>1, <2>3, KeptSendStep
  <2>4. CASE SocketThread \/ Connected \/ PeerReads \/ PeerEnds \/ PeerFails \/ UNCHANGED vars
    BY <1>2, <2>1, <2>4, KeptSocket
  <2>5. QED
    BY <1>5, <2>2, <2>3, <2>4 DEF Next
<1>7. closes' = closes \/ \E t \in Thread, how \in {"K", "shutdown"} : Close(t, how)
  BY SendersFrame, SocketFrame DEF Next
<1> QED
  BY <1>5, <1>6, <1>7

LEMMA GraceInvariant == Safety => [](Core /\ Grace)
<1>1. Init => Grace
  BY DEF Init, Grace
<1> QED
  BY <1>1, CoreInvariant, GraceStep, PTL DEF Safety

\* A graceful close loses nothing: what socket_server_send had accepted before
\* the first socket_server_close is on the wire when close_socket or send_buffer
\* has made the socket INVALID, unless a shutdown was called, or the peer ended its
\* side or failed.
THEOREM CloseIsGraceful == Safety => []GracefulClose
<1>1. Core /\ Grace => GracefulClose
  <2> SUFFICES ASSUME Core, Grace, type = "invalid", conn = "up", closes # << >>, NoShutdown,
                      NEW m \in closes[1].before
               PROVE  <<m, Size>> \in Range(wire)
    BY DEF GracefulClose
  <2>1. Kept(m)
    BY DEF Grace, Sound
  <2>2. m \in Range(sent) /\ m \notin dropped /\ ~InPipe(m)
    BY <2>1 DEF Kept, Closing
  <2>3. Base /\ Whereabouts /\ high = << >> /\ low = << >> /\ dw = << >>
    BY DEF Core, Base, Shape, Gone
  <2>4. QED
    BY <2>2, <2>3, NothingLeft DEF OnWire
<1> QED
  BY <1>1, GraceInvariant, PTL
=============================================================================
