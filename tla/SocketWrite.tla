----------------------------- MODULE SocketWrite -----------------------------
(***************************************************************************)
(* The write path of one TCP socket of the socket server                   *)
(* (test_skynet/skynet_socket/socket_server.c), from connect or accept to  *)
(* the moment its slot is INVALID again.                                   *)
(*                                                                         *)
(* Any thread may send a package.  If nothing waits to be sent it writes   *)
(* to the fd itself, under dw_lock; what the kernel does not take it       *)
(* leaves in dw_buffer.  Otherwise it counts the package in s->sending and *)
(* sends the command 'D' or 'P' through the control pipe to the socket     *)
(* thread, which owns the two lists of write buffers, the events of the fd *)
(* and the type of the socket.                                             *)
(*                                                                         *)
(* A list is the sequence of the bytes it still has to write; the bytes of *)
(* a package name it, so the write_buffer records need not be kept.  Left  *)
(* out: the sizes (wb_size is the length of the two lists), the warnings   *)
(* they give rise to, and the statistics.                                  *)
(***************************************************************************)
EXTENDS Integers, SequencesExt

CONSTANTS
  Thread,      \* threads that call socket_server_send, _close, _shutdown
  Package,     \* the packages that can be sent, each once
  Size,        \* bytes of a package
  Capacity,    \* bytes the kernel buffers for the peer
  MaxClose,    \* bound on the calls of socket_server_close and _shutdown
  FirstType,   \* the type that the socket starts with
  MayFail,     \* may the peer end its side, or the connection fail?
  None         \* no lock holder, no package in hand

ASSUME WriteAssumption ==
  /\ IsFiniteSet(Thread) /\ IsFiniteSet(Package)
  /\ None \notin Thread \cup Package
  /\ Size \in Nat \ {0}
  /\ Capacity \in Nat \ {0}
  /\ MaxClose \in Nat
  /\ FirstType \in {"connecting", "connected"}
  /\ MayFail \in BOOLEAN

VARIABLES
  type,      \* s->type
  high,      \* s->high: bytes to write
  low,       \* s->low
  dw,        \* the bytes of dw_buffer from dw_offset on; none when it is NULL
  sending,   \* the low half of s->sending
  epollout,  \* is the fd registered for write events?
  holder,    \* the sender that holds s->dw_lock, or None.  (What the socket
             \* thread does under the lock is one step.)
  pipe,      \* the commands in the control pipe
  pc,        \* pc[t]: where thread t is in socket_server_send
  hand,      \* hand[t]: its package
  cmd,       \* cmd[t]: the command it would send, 'D' or 'P'
  sp,        \* where the socket thread is
  op,        \* the close command that it works on
  conn,      \* the connection: being made; up; ended by the peer, which
             \* sends no more (a read returns 0) and still takes what is
             \* written; or gone, so that a write fails
  room,      \* bytes that the kernel can take
  wire,      \* history: the bytes written to the fd
  fresh,     \* history: the packages not sent yet
  sent,      \* history: the packages whose socket_server_send returned 0, in order
  sender,    \* history: sender[m]: the thread that sent m, and the priority
  dropped,   \* history: the packages freed before they were written out
  closes     \* the calls of socket_server_close and _shutdown, each with the
             \* packages sent before it

socket == <<type, high, low, dw, sending, epollout, holder>>
senders == <<pc, hand, cmd, fresh, sent, sender>>
peer == <<conn, room, wire>>
vars == <<socket, pipe, senders, sp, op, peer, dropped, closes>>

Bytes(m) == [i \in 1..Size |-> <<m, i>>]

\* The packages that have a byte in a list.
PackagesOf(list) == {list[i][1] : i \in 1..Len(list)}

Commands == {"D", "P", "K", "shutdown"}   \* "shutdown" is K with shutdown = 1

\* The assertion of send_buffer_: the head of the low list is never a package
\* that was written in part; that one goes to the high list.
LowWhole == low # << >> => low[1][2] = 1

TypeOK ==
  /\ LowWhole
  /\ type \in {"connecting", "connected", "halfclose", "invalid"}
  /\ {high, low, dw, wire} \subseteq Seq(Package \X (1..Size))
  /\ sending \in 0..Cardinality(Package)
  /\ epollout \in BOOLEAN
  /\ holder \in Thread \cup {None}
  /\ pipe \in Seq(Commands \X (Package \cup {None}))
  /\ pc \in [Thread -> {"idle", "peek", "try", "look", "double", "write",
                        "enable", "count", "command"}]
  /\ hand \in [Thread -> Package \cup {None}]
  /\ cmd \in [Thread -> {"D", "P"}]
  /\ sp \in {"poll", "dec", "decide", "closing", "opened", "disable"}
  /\ op \in {"K", "shutdown", None}
  /\ conn \in {"connecting", "up", "ended", "gone"}
  /\ room \in 0..Capacity
  /\ fresh \subseteq Package
  /\ sent \in Seq(Package)
  /\ sender \in [Package -> (Thread \X {"D", "P"}) \cup {<< >>}]
  /\ dropped \subseteq Package
  /\ closes \in Seq([op : {"K", "shutdown"}, before : SUBSET Package])

\* After open_socket (the connection is being made, or was made at once) or
\* start_socket (an accepted connection).
Init ==
  /\ type = FirstType
  /\ high = << >>
  /\ low = << >>
  /\ dw = << >>
  /\ sending = 0
  /\ epollout = (FirstType = "connecting")
  /\ holder = None
  /\ pipe = << >>
  /\ pc = [t \in Thread |-> "idle"]
  /\ hand = [t \in Thread |-> None]
  /\ cmd = [t \in Thread |-> "D"]
  /\ sp = "poll"
  /\ op = None
  /\ conn = IF FirstType = "connecting" THEN "connecting" ELSE "up"
  /\ room = IF FirstType = "connecting" THEN 0 ELSE Capacity
  /\ wire = << >>
  /\ fresh = Package
  /\ sent = << >>
  /\ sender = [m \in Package |-> << >>]
  /\ dropped = {}
  /\ closes = << >>
-----------------------------------------------------------------------------
(* Threads that send: socket_server_send and socket_server_send_lowpriority.*)

Goto(t, label) == pc' = [pc EXCEPT ![t] = label]

\* nomore_sending_data reads the lists and dw_buffer, then s->sending, and
\* another thread may change them in between.
NothingBuffered == high = << >> /\ low = << >> /\ dw = << >>

\* Mutant: no return after free_buffer.
BugSend(t, m, c) ==
  /\ pc[t] = "idle"
  /\ m \in fresh
  /\ fresh' = fresh \ {m}
  /\ sender' = [sender EXCEPT ![m] = <<t, c>>]
  /\ dropped' = IF type = "invalid" THEN dropped \cup {m} ELSE dropped
  /\ hand' = [hand EXCEPT ![t] = m]
  /\ cmd' = [cmd EXCEPT ![t] = c]
  /\ Goto(t, IF c = "D" THEN "peek" ELSE "count")
  /\ UNCHANGED <<socket, pipe, sent, sp, op, peer, closes>>

\* The call starts with the test that the socket exists.  A package for one
\* that does not is freed.
Send(t, m, c) ==
  /\ pc[t] = "idle"
  /\ m \in fresh
  /\ fresh' = fresh \ {m}
  /\ sender' = [sender EXCEPT ![m] = <<t, c>>]
  /\ \/ /\ type = "invalid"
        /\ dropped' = dropped \cup {m}
        /\ UNCHANGED <<pc, hand, cmd>>
     \/ /\ type # "invalid"
        /\ hand' = [hand EXCEPT ![t] = m]
        /\ cmd' = [cmd EXCEPT ![t] = c]
        /\ Goto(t, IF c = "D" THEN "peek" ELSE "count")
        /\ UNCHANGED dropped
  /\ UNCHANGED <<socket, pipe, sent, sp, op, peer, closes>>

\* can_direct_write, the first time, and socket_trylock.
Peek(t) ==
  /\ pc[t] = "peek"
  /\ Goto(t, IF NothingBuffered THEN "try" ELSE "count")
  /\ UNCHANGED <<socket, pipe, hand, cmd, fresh, sent, sender, sp, op, peer,
                 dropped, closes>>

TryLock(t) ==
  /\ pc[t] = "try"
  /\ IF sending = 0 /\ type = "connected" /\ holder = None
     THEN holder' = t /\ Goto(t, "look")
     ELSE UNCHANGED holder /\ Goto(t, "count")
  /\ UNCHANGED <<type, high, low, dw, sending, epollout, pipe, hand, cmd, fresh,
                 sent, sender, sp, op, peer, dropped, closes>>

\* Mutant: no double check.
BugLook(t) ==
  /\ pc[t] = "look"
  /\ Goto(t, "write")
  /\ UNCHANGED <<socket, pipe, hand, cmd, fresh, sent, sender, sp, op, peer,
                 dropped, closes>>

\* can_direct_write, the second time, with the lock.
Look(t) ==
  /\ pc[t] = "look"
  /\ IF NothingBuffered THEN UNCHANGED holder /\ Goto(t, "double")
                        ELSE holder' = None /\ Goto(t, "count")
  /\ UNCHANGED <<type, high, low, dw, sending, epollout, pipe, hand, cmd, fresh,
                 sent, sender, sp, op, peer, dropped, closes>>

DoubleCheck(t) ==
  /\ pc[t] = "double"
  /\ IF sending = 0 /\ type = "connected"
     THEN UNCHANGED holder /\ Goto(t, "write")
     ELSE holder' = None /\ Goto(t, "count")
  /\ UNCHANGED <<type, high, low, dw, sending, epollout, pipe, hand, cmd, fresh,
                 sent, sender, sp, op, peer, dropped, closes>>

\* The package is in the hands of the socket server: the call returns 0.
Done(t) ==
  /\ sent' = Append(sent, hand[t])
  /\ hand' = [hand EXCEPT ![t] = None]
  /\ Goto(t, "idle")

\* write: the kernel takes what it has room for, and nothing after a failure
\* (the error is ignored).  The rest is left in dw_buffer.
DirectWrite(t) ==
  /\ pc[t] = "write"
  /\ LET bytes == Bytes(hand[t])
         n == IF conn = "gone" THEN 0 ELSE Min({room, Size})
     IN  /\ wire' = wire \o SubSeq(bytes, 1, n)
         /\ room' = room - n
         /\ dw' = SubSeq(bytes, n + 1, Size)
         /\ IF n = Size
            THEN holder' = None /\ Done(t)
            ELSE UNCHANGED <<holder, hand, sent>> /\ Goto(t, "enable")
  /\ UNCHANGED <<type, high, low, sending, epollout, pipe, cmd, fresh, sender,
                 sp, op, conn, dropped, closes>>

\* Mutant: write events are not turned on for the rest.
BugEnableWrite(t) ==
  /\ pc[t] = "enable"
  /\ holder' = None
  /\ Done(t)
  /\ UNCHANGED <<type, high, low, dw, sending, epollout, pipe, cmd, fresh, sender,
                 sp, op, peer, dropped, closes>>

\* sp_write(true) and the unlock.
EnableWrite(t) ==
  /\ pc[t] = "enable"
  /\ epollout' = TRUE
  /\ holder' = None
  /\ Done(t)
  /\ UNCHANGED <<type, high, low, dw, sending, pipe, cmd, fresh, sender, sp, op,
                 peer, dropped, closes>>

\* inc_sending_ref.  (It waits when the count is 0xffff; there are not as many
\* packages here.)
IncSendingRef(t) ==
  /\ pc[t] = "count"
  /\ sending' = sending + 1
  /\ Goto(t, "command")
  /\ UNCHANGED <<type, high, low, dw, epollout, holder, pipe, hand, cmd, fresh,
                 sent, sender, sp, op, peer, dropped, closes>>

SendRequest(t) ==
  /\ pc[t] = "command"
  /\ pipe' = Append(pipe, <<cmd[t], hand[t]>>)
  /\ Done(t)
  /\ UNCHANGED <<socket, cmd, fresh, sender, sp, op, peer, dropped, closes>>

SendStep(t) ==
  \/ Peek(t)
  \/ TryLock(t)
  \/ Look(t)
  \/ DoubleCheck(t)
  \/ DirectWrite(t)
  \/ EnableWrite(t)
  \/ IncSendingRef(t)
  \/ SendRequest(t)

\* socket_server_close and socket_server_shutdown
Close(t, how) ==
  /\ pc[t] = "idle"
  /\ Len(closes) < MaxClose
  /\ pipe' = Append(pipe, <<how, None>>)
  /\ closes' = Append(closes, [op |-> how, before |-> Range(sent)])
  /\ UNCHANGED <<socket, senders, sp, op, peer, dropped>>
-----------------------------------------------------------------------------
(* The socket thread: socket_server_poll.                                  *)

\* Mutant: nomore_sending_data forgets dw_buffer.
BugNomore == high = << >> /\ low = << >> /\ sending = 0

\* nomore_sending_data, as the socket thread reads it.
Nomore == NothingBuffered /\ sending = 0

\* force_close with the lock in hand, or with nobody to wait for.  Inside
\* send_buffer it takes the lock a second time, and socket_lock counts; there
\* the whole section of the socket thread is one step, and the count is not kept.
Invalidate(lost) ==
  /\ type' = "invalid"
  /\ dropped' = dropped \cup PackagesOf(lost)
  /\ high' = << >>
  /\ low' = << >>
  /\ dw' = << >>
  /\ epollout' = FALSE

\* Mutant: dw_buffer goes behind the high list.
BugUnsent == high \o dw

\* send_buffer puts dw_buffer before the high list.
Unsent == dw \o high

\* Mutant: a low package that was written in part stays in the low list.
BugUncomplete(list) == FALSE

\* list_uncomplete: a part of the first package has been written.
Uncomplete(list) == list # << >> /\ list[1][2] > 1

\* send_buffer when it gets the lock: the high list is written as far as
\* possible, then the low list, and a low package that was written in part is
\* raised to the high list.  With both lists empty write events are turned off
\* and a half-closed socket is closed.
SendBuffer ==
  LET n == Min({room, Len(Unsent)})
      h == SubSeq(Unsent, n + 1, Len(Unsent))
      k == IF h = << >> THEN Min({room - n, Len(low)}) ELSE 0
      l == SubSeq(low, k + 1, Len(low))
      raise == h = << >> /\ Uncomplete(l)
      rest == (Size - l[1][2]) + 1   \* the bytes left of its head
  IN  /\ holder = None
      /\ \/ /\ conn = "gone"
            /\ Unsent \o low # << >>
            /\ Invalidate(Unsent \o low)   \* write fails
            /\ UNCHANGED <<room, wire>>
         \/ /\ conn # "gone" \/ Unsent \o low = << >>
            /\ wire' = wire \o SubSeq(Unsent, 1, n) \o SubSeq(low, 1, k)
            /\ room' = room - n - k
            /\ IF h \o l = << >> /\ type = "halfclose"
               THEN Invalidate(<< >>)
               ELSE /\ dw' = << >>
                    /\ high' = IF raise THEN SubSeq(l, 1, rest) ELSE h
                    /\ low' = IF raise THEN SubSeq(l, rest + 1, Len(l)) ELSE l
                    /\ epollout' = (epollout /\ h \o l # << >>)
                    /\ UNCHANGED <<type, dropped>>

\* force_close on the rest of the paths: the lists are freed and the fd leaves
\* the event poll; then the lock is waited for.
FreeLists ==
  /\ dropped' = dropped \cup PackagesOf(high \o low)
  /\ high' = << >>
  /\ low' = << >>
  /\ epollout' = FALSE
  /\ sp' = "closing"

ForceClose ==
  /\ sp = "closing"
  /\ holder = None
  /\ Invalidate(dw)
  /\ sp' = "poll"
  /\ UNCHANGED <<sending, holder, pipe, senders, op, peer, closes>>

\* The command at the head of the pipe.
Command(cs) == sp = "poll" /\ pipe # << >> /\ Head(pipe)[1] \in cs

\* send_socket
CtrlSend ==
  LET m == Head(pipe)[2]
  IN  /\ Command({"D", "P"})
      /\ pipe' = Tail(pipe)
      /\ sp' = "dec"
      /\ \/ /\ type \in {"invalid", "halfclose"}
            /\ dropped' = dropped \cup {m}
            /\ UNCHANGED <<high, low, epollout>>
         \/ /\ type = "connected"
            /\ high = << >> /\ low = << >>
            /\ high' = Bytes(m)
            /\ epollout' = TRUE
            /\ UNCHANGED <<low, dropped>>
         \/ /\ type = "connecting" \/ (type = "connected" /\ high \o low # << >>)
            /\ IF Head(pipe)[1] = "P"
               THEN low' = low \o Bytes(m) /\ UNCHANGED high
               ELSE high' = high \o Bytes(m) /\ UNCHANGED low
            /\ UNCHANGED <<epollout, dropped>>
      /\ UNCHANGED <<type, dw, sending, holder, senders, op, peer, closes>>

\* Mutant: the package of a socket that is gone is not discounted.
BugDecSendingRef ==
  /\ sp = "dec"
  /\ sending' = IF type = "invalid" THEN sending ELSE sending - 1
  /\ sp' = "poll"
  /\ UNCHANGED <<type, high, low, dw, epollout, holder, pipe, senders, op, peer,
                 dropped, closes>>

DecSendingRef ==
  /\ sp = "dec"
  /\ sending' = sending - 1
  /\ sp' = "poll"
  /\ UNCHANGED <<type, high, low, dw, epollout, holder, pipe, senders, op, peer,
                 dropped, closes>>

\* close_socket, up to its send_buffer: a socket that is gone is reported
\* closed; one that another thread is writing to is not flushed.
CloseSocket ==
  /\ Command({"K", "shutdown"})
  /\ pipe' = Tail(pipe)
  /\ \/ /\ type = "invalid"
        /\ UNCHANGED <<socket, peer, dropped, sp, op>>
     \/ /\ type # "invalid"
        /\ \/ ~Nomore /\ SendBuffer
           \/ /\ Nomore \/ holder # None
              /\ UNCHANGED <<type, high, low, dw, epollout, room, wire, dropped>>
        /\ op' = Head(pipe)[1]
        /\ sp' = IF type' = "invalid" THEN "poll" ELSE "decide"
        /\ UNCHANGED <<sending, holder, conn>>
  /\ UNCHANGED <<senders, closes>>

\* Mutant: request->shutdown is not looked at.
BugCloseDecide ==
  /\ sp = "decide"
  /\ \/ /\ Nomore
        /\ FreeLists
        /\ UNCHANGED type
     \/ /\ ~Nomore
        /\ type' = "halfclose"
        /\ sp' = "poll"
        /\ UNCHANGED <<high, low, epollout, dropped>>
  /\ op' = None
  /\ UNCHANGED <<dw, sending, holder, pipe, senders, peer, closes>>

\* The rest of close_socket.
CloseDecide ==
  /\ sp = "decide"
  /\ \/ /\ op = "shutdown" \/ Nomore
        /\ FreeLists
        /\ UNCHANGED type
     \/ /\ op = "K" /\ ~Nomore
        /\ type' = "halfclose"
        /\ sp' = "poll"
        /\ UNCHANGED <<high, low, epollout, dropped>>
  /\ op' = None
  /\ UNCHANGED <<dw, sending, holder, pipe, senders, peer, closes>>

\* A write event of the fd.
Writable ==
  /\ sp = "poll"
  /\ epollout
  /\ conn = "gone" \/ (conn \in {"up", "ended"} /\ room > 0)

\* report_connect
ReportConnect ==
  /\ Writable
  /\ type = "connecting"
  /\ \/ conn = "gone" /\ FreeLists /\ UNCHANGED type
     \/ /\ conn # "gone"
        /\ type' = "connected"
        /\ sp' = "opened"
        /\ UNCHANGED <<high, low, epollout, dropped>>
  /\ UNCHANGED <<dw, sending, holder, pipe, senders, op, peer, closes>>

ConnectNomore ==
  /\ sp = "opened"
  /\ sp' = IF Nomore THEN "disable" ELSE "poll"
  /\ UNCHANGED <<socket, pipe, senders, op, peer, dropped, closes>>

\* sp_write(false)
DisableWrite ==
  /\ sp = "disable"
  /\ epollout' = FALSE
  /\ sp' = "poll"
  /\ UNCHANGED <<type, high, low, dw, sending, holder, pipe, senders, op, peer,
                 dropped, closes>>

\* A write event goes to send_buffer, which leaves without the lock.
WriteEvent ==
  /\ Writable
  /\ type \in {"connected", "halfclose"}
  /\ SendBuffer
  /\ UNCHANGED <<sending, holder, pipe, senders, sp, op, conn, closes>>

\* A read event for which read returns 0, as the peer has ended its side, or
\* fails.
ReadEnd ==
  /\ sp = "poll"
  /\ conn \in {"ended", "gone"}
  /\ type \in {"connected", "halfclose"}
  /\ FreeLists
  /\ UNCHANGED <<type, dw, sending, holder, pipe, senders, op, peer, closes>>

SocketThread ==
  \/ ForceClose
  \/ CtrlSend
  \/ DecSendingRef
  \/ CloseSocket
  \/ CloseDecide
  \/ ReportConnect
  \/ ConnectNomore
  \/ DisableWrite
  \/ WriteEvent
  \/ ReadEnd
-----------------------------------------------------------------------------
(* The kernel and the peer.                                                *)

Connected ==
  /\ conn = "connecting"
  /\ conn' = "up"
  /\ room' = Capacity
  /\ UNCHANGED <<socket, pipe, senders, sp, op, wire, dropped, closes>>

PeerReads ==
  /\ conn \in {"up", "ended"}
  /\ room < Capacity
  /\ room' = Capacity
  /\ UNCHANGED <<socket, pipe, senders, sp, op, conn, wire, dropped, closes>>

\* The peer's FIN.
PeerEnds ==
  /\ MayFail
  /\ conn = "up"
  /\ conn' = "ended"
  /\ UNCHANGED <<socket, pipe, senders, sp, op, room, wire, dropped, closes>>

PeerFails ==
  /\ MayFail
  /\ conn # "gone"
  /\ conn' = "gone"
  /\ UNCHANGED <<socket, pipe, senders, sp, op, room, wire, dropped, closes>>

Next ==
  \/ \E t \in Thread, m \in Package, c \in {"D", "P"} : Send(t, m, c)
  \/ \E t \in Thread : SendStep(t)
  \/ \E t \in Thread, how \in {"K", "shutdown"} : Close(t, how)
  \/ SocketThread
  \/ Connected
  \/ PeerReads
  \/ PeerEnds
  \/ PeerFails

Safety == Init /\ [][Next]_vars

\* A thread inside socket_server_send leaves it, the socket thread runs, the
\* connection is made and the peer reads.  Nothing makes a thread send or close.
Fairness ==
  /\ \A t \in Thread : WF_vars(SendStep(t))
  /\ WF_vars(SocketThread)
  /\ WF_vars(Connected)
  /\ WF_vars(PeerReads)

Spec == Safety /\ Fairness
-----------------------------------------------------------------------------
(* Properties.                                                             *)

\* force_close has freed the lists.  It does so before it takes the lock and
\* before the type changes.  A sender that holds the lock, or takes it first,
\* then finds the lists empty and the type CONNECTED, and writes its package,
\* even behind one whose rest was in the lists.
ListsFreed == sp = "closing" \/ type = "invalid"

\* What force_close has kept from being written out.
CutOff(m) == ListsFreed /\ m \in dropped

\* Packages are never mixed on the wire: the bytes of each follow each other,
\* in order and once, whoever writes them (a sender, or the socket thread from
\* dw_buffer, the high or the low list).  A package is behind an unfinished one
\* only if force_close freed the rest of that one.
WholePackages ==
  /\ \A i, j \in 1..Len(wire) : wire[i] = wire[j] => i = j
  /\ \A i \in 1..Len(wire) :
       IF wire[i][2] = 1
       THEN i > 1 => wire[i - 1][2] = Size \/ CutOff(wire[i - 1][1])
       ELSE i > 1 /\ wire[i - 1] = <<wire[i][1], wire[i][2] - 1>>

\* What one thread sends with high priority goes out in the order it was sent,
\* though some packages are written by that thread and some take the way
\* through the pipe and the high list: the reason for the double check.  A
\* package overtakes an earlier one only if force_close freed the earlier one.
InOrder ==
  \A j \in 1..Len(sent), i \in 1..Len(sent) :
    /\ i < j
    /\ sender[sent[i]] = sender[sent[j]]
    /\ sender[sent[i]][2] = "D"
    /\ <<sent[j], 1>> \in Range(wire)
    => \/ CutOff(sent[i])
       \/ \E k, n \in 1..Len(wire) :
            k < n /\ wire[k] = <<sent[i], Size>> /\ wire[n] = <<sent[j], 1>>

\* The packages that the call of t has not given away.
Owned(t) == IF pc[t] \in {"idle", "enable"} THEN {} ELSE {hand[t]}

Count(list, b) == Cardinality({i \in 1..Len(list) : list[i] = b})

\* The places from which a byte may still be written or freed.
Held(b) ==
  Count(high, b) + Count(low, b) + Count(dw, b)
    + Cardinality({t \in Thread : b[1] \in Owned(t)})
    + Cardinality({i \in 1..Len(pipe) : pipe[i][2] = b[1]})

\* Every byte of a package that was handed over is in exactly one place until
\* it is written, and a package that was freed early is nowhere any more, not
\* in a list, with a sender or in the pipe: nothing is leaked, written twice,
\* freed twice or written after it was freed.
Accounted ==
  \A m \in Package \ fresh, i \in 1..Size :
    IF m \in dropped THEN Held(<<m, i>>) = 0 /\ Count(wire, <<m, i>>) <= 1
                     ELSE Held(<<m, i>>) + Count(wire, <<m, i>>) = 1

\* s->sending counts the packages on their way to the lists: the assertion of
\* dec_sending_ref, and what can_direct_write and close_socket read it for.
SendingTrue ==
  sending = Cardinality({t \in Thread : pc[t] = "command"})
              + Cardinality({i \in 1..Len(pipe) : pipe[i][1] \in {"D", "P"}})
              + (IF sp = "dec" THEN 1 ELSE 0)

\* A graceful close loses nothing: when a socket has been closed by 'K' alone,
\* and the peer neither ended its side nor failed, every package sent before the
\* first close is on the wire.  (force_close frees what is left when a read
\* returns 0, also on a half-closed socket; a shutdown frees it too.)
NoShutdown == \A i \in 1..Len(closes) : closes[i].op = "K"

GracefulClose ==
  /\ type = "invalid"
  /\ conn = "up"
  /\ closes # << >> /\ NoShutdown
  => \A m \in closes[1].before : <<m, Size>> \in Range(wire)

\* Data that waits is written out, or the socket is closed.
AllFlushed == ~NothingBuffered ~> NothingBuffered

\* A shutdown closes the socket, whatever the senders do.
ShutdownCloses ==
  (\E i \in 1..Len(closes) : closes[i].op = "shutdown") ~> (type = "invalid")

\* What a direct write leaves in dw_buffer is sent by the socket thread.
DirectWriteFinishes == (dw # << >>) ~> (dw = << >>)

\* A half-closed socket is closed when what it had to send is sent.
HalfCloseEnds == (type = "halfclose") ~> (type = "invalid")
=============================================================================
