------------------------------- MODULE RsStream -------------------------------
(***************************************************************************)
(* A connected stream socket of librdmacm (rsocket.c) at both of its ends. *)
(*                                                                         *)
(* Data goes by RDMA writes with an immediate from the sender's sbuf into  *)
(* the halves of the receiver's rbuf.  The receiver tells the sender which *)
(* half is free by an RDMA write into the sender's target_sgl, and how     *)
(* many messages it may send by the credits in the immediate; that message *)
(* takes one of the RS_QP_CTRL_SIZE control slots.  rs[e] holds the fields *)
(* of struct rsocket under their names, and below them what the adapter    *)
(* holds for the end: its send queue, the executed work requests whose     *)
(* acknowledgement is under way, its completion queue, the number of       *)
(* posted receives, the notification and the events of its channel.  The   *)
(* adapter executes the work requests of a queue pair in order, and waits  *)
(* for a posted receive at the other end (rnr_retry_count = 7).            *)
(*                                                                         *)
(* Every end is used by one thread: app[e] is the call it is in.  Lengths  *)
(* are in units of a few hundred bytes; byte number i of a direction has   *)
(* the value i.  sq_inline is 0 (rs_create_ep), which leaves RDMA writes   *)
(* with an immediate as the only transport.                                *)
(***************************************************************************)
EXTENDS Integers, Sequences, FiniteSets, SequencesExt

CONSTANTS
  Ends,          \* the two ends
  RbufSize, SbufSize, RqSize, SqSize,
  CtrlSize,      \* RS_QP_CTRL_SIZE
  SeqSpace,        \* 2^16: sseq_no and rseq_no are uint16_t
  SndLowat,      \* RS_SNDLOWAT and RS_OLAP_START_SIZE
  MaxTransfer,   \* RS_MAX_TRANSFER
  Uses           \* the uses the applications make of the socket

(* A use is a record: the ends that send, the flags they pass to rsend,    *)
(* the lengths they pass, and how much they send (a bound); the lengths    *)
(* and flags of rrecv, and whether it comes after rpoll; the arguments of  *)
(* rshutdown and whether rclose is called; the number of keep-alives (a    *)
(* bound); and whether acknowledgements may come late.                     *)

ASSUME EndsAssumption == Cardinality(Ends) = 2
ASSUME SizeAssumption ==
  /\ RbufSize % 2 = 0 /\ CtrlSize < SqSize /\ SndLowat <= SbufSize
  /\ RqSize <= SeqSpace - 2   \* RS_QP_MAX_SIZE is 0xFFFE

Peer(e) == CHOOSE p \in Ends : p # e
Half == RbufSize \div 2
CtrlMod == 4 * CtrlSize     \* 2^32: ctrl_seqno is an unsigned int

VARIABLES use, rs, app, sent, got, cut

vars == <<use, rs, app, sent, got, cut>>

NoSlot == CtrlSize

(* rs_init_bufs, rs_create_ep, and what rs_save_conn_data takes from the   *)
(* connection data of the other end.                                       *)
Connected ==
  [state |-> {"connected", "readable", "writable"},
   sseq_no |-> 0, sseq_comp |-> RqSize, rseq_no |-> 0, rseq_comp |-> RqSize \div 2,
   ctrl_seqno |-> 0, ctrl_max_seqno |-> CtrlSize,
   remote_sge |-> 1, target_sge |-> 0,
   target_sgl |-> [i \in 0..1 |-> [addr |-> 0, length |-> IF i = 0 THEN Half ELSE 0]],
   rbuf_bytes_avail |-> Half, rbuf_free_offset |-> Half, rbuf_offset |-> 0,
   rbuf |-> [i \in 0..RbufSize - 1 |-> 0],
   sbuf |-> [i \in 0..SbufSize - 1 |-> 0], sbuf_next |-> 0,
   sbuf_bytes_avail |-> SbufSize, sqe_avail |-> SqSize - CtrlSize,
   ctrl_buf |-> [i \in 0..CtrlSize - 1 |-> 0],
   rmsg |-> <<>>, cq_armed |-> FALSE, keepalive |-> 0,
   sq |-> <<>>, unacked |-> <<>>, cq |-> <<>>, posted |-> RqSize,
   notify |-> TRUE, events |-> 0, up |-> TRUE]

(* A thread between two calls; eof: an rrecv has returned 0; shut: the     *)
(* directions it has shut down.                                            *)
Idle == [pc |-> "idle", test |-> "none", left |-> 0, olen |-> SndLowat, nonblock |-> FALSE,
         flag |-> "none", ctrl |-> "none", events |-> {}, closing |-> FALSE, wr |-> <<>>,
         eof |-> FALSE, shut |-> {}]

Init ==
  /\ use \in Uses
  /\ rs = [e \in Ends |-> [Connected EXCEPT !.keepalive = use.keepalives[e]]]
  /\ app = [e \in Ends |-> Idle]
  /\ sent = [e \in Ends |-> 0] /\ got = [e \in Ends |-> <<>>]
  /\ cut = {}

-----------------------------------------------------------------------------
(* Work requests and completions.                                          *)

Wr(op, arg, len, from, to) == [op |-> op, arg |-> arg, len |-> len, from |-> from, to |-> to]
RecvWc(w) == [recv |-> TRUE, op |-> w.op, arg |-> w.arg, ok |-> TRUE]
SendWc(w, ok) == [recv |-> FALSE, op |-> w.op, arg |-> w.arg, ok |-> ok]
FlushedRecv == [recv |-> TRUE, op |-> "none", arg |-> 0, ok |-> FALSE]

Post(r, w) == [r EXCEPT !.sq = Append(@, w)]

(* A completion is added, and raises the event if the queue is armed.      *)
Complete(r, wc) ==
  [r EXCEPT !.cq = Append(@, wc),
            !.events = IF r.notify THEN @ + 1 ELSE @, !.notify = FALSE]

-----------------------------------------------------------------------------
Sum(q) == FoldLeft(+, 0, q)

(* Credits.                                                                *)

CtrlAvail(r) == r.ctrl_seqno # r.ctrl_max_seqno

(* (short) (rseq_no - rseq_comp) >= 0                                      *)
Reached(a, b) == (a - b) % SeqSpace < SeqSpace \div 2

GiveCredits(r) ==
  /\ r.rbuf_bytes_avail >= Half \/ Reached(r.rseq_no, r.rseq_comp)
  /\ CtrlAvail(r) /\ "connected" \in r.state

(* Mutant of Offer: the place of the next half does not wrap.              *)
OfferWithoutWrap(r, slot) ==
  [r EXCEPT !.ctrl_buf[slot] = r.rbuf_free_offset, !.rbuf_bytes_avail = @ - Half,
            !.rbuf_free_offset = @ + Half, !.remote_sge = (@ + 1) % 2]
(* Mutant of Offer: the half is still counted as free.                     *)
OfferAndKeep(r, slot) ==
  [r EXCEPT !.ctrl_buf[slot] = r.rbuf_free_offset,
            !.rbuf_free_offset = IF @ + Half >= RbufSize THEN 0 ELSE @ + Half,
            !.remote_sge = (@ + 1) % 2]
(* Mutant of Offer: the half that is being read is offered.                *)
OfferReadPlace(r, slot) ==
  [r EXCEPT !.ctrl_buf[slot] = r.rbuf_offset, !.rbuf_bytes_avail = @ - Half,
            !.rbuf_free_offset = IF @ + Half >= RbufSize THEN 0 ELSE @ + Half,
            !.remote_sge = (@ + 1) % 2]
(* Mutant of Offer: every offer goes to the same entry of target_sgl.      *)
OfferSameEntry(r, slot) ==
  [r EXCEPT !.ctrl_buf[slot] = r.rbuf_free_offset, !.rbuf_bytes_avail = @ - Half,
            !.rbuf_free_offset = IF @ + Half >= RbufSize THEN 0 ELSE @ + Half]
(* A free half is offered: its address goes to the control buffer.         *)
Offer(r, slot) ==
  [r EXCEPT !.ctrl_buf[slot] = r.rbuf_free_offset,
            !.rbuf_bytes_avail = @ - Half,
            !.rbuf_free_offset = IF @ + Half >= RbufSize THEN 0 ELSE @ + Half,
            !.remote_sge = (@ + 1) % 2]

SendCredits(r) ==
  LET seqno == (r.ctrl_seqno + 1) % CtrlMod
      slot == seqno % CtrlSize
      credits == (r.rseq_no + RqSize) % SeqSpace
      s == [r EXCEPT !.ctrl_seqno = seqno,
                     !.rseq_comp = (r.rseq_no + RqSize \div 2) % SeqSpace]
  IN IF r.rbuf_bytes_avail >= Half
     THEN Post(Offer(s, slot), Wr("sgl", credits, Half, slot, r.remote_sge))
     ELSE Post(s, Wr("sgl", credits, 0, NoSlot, 0))

UpdateCredits(r) == IF GiveCredits(r) THEN SendCredits(r) ELSE r

-----------------------------------------------------------------------------
(* rs_poll_cq: completions are taken until the queue is empty or a message *)
(* ends the connection; a receive is posted for each one consumed.         *)

EndsStream(r, wc) ==
  /\ wc.recv /\ wc.ok /\ wc.op = "ctrl"
  /\ wc.arg = "disconnect" \/ "writable" \notin r.state

PollCq(r) ==
  LET last == {i \in DOMAIN r.cq : EndsStream(r, r.cq[i])}
      polled == SubSeq(r.cq, 1, IF last = {} THEN Len(r.cq) ELSE Min(last))
      received(op) == SelectSeq(polled, LAMBDA wc : wc.recv /\ wc.ok /\ wc.op = op)
      lengths(wcs) == [i \in DOMAIN wcs |-> wcs[i].arg]
      credits == received("sgl")
      written == SelectSeq(polled, LAMBDA wc : ~wc.recv /\ wc.op = "data")
      control == SelectSeq(polled, LAMBDA wc : ~wc.recv /\ wc.op # "data")
      state == IF last # {} \/ \E wc \in Range(control) : wc.op = "ctrl" /\ wc.arg = "disconnect"
               THEN {"disconnected"}
               ELSE IF "connected" \in r.state /\ \E wc \in Range(polled) : ~wc.recv /\ ~wc.ok
               THEN {"error"}
               ELSE IF received("ctrl") # <<>> THEN r.state \ {"readable"} ELSE r.state
  IN [r EXCEPT !.cq = SubSeq(@, Len(polled) + 1, Len(@)), !.state = state,
               !.sseq_comp = IF credits = <<>> THEN @ ELSE Last(credits).arg,
               !.rmsg = @ \o lengths(received("data")),
               !.sqe_avail = @ + Len(written),
               !.sbuf_bytes_avail = @ + Sum(lengths(written)),
               !.ctrl_max_seqno = (@ + Len(control)) % CtrlMod,
               !.posted = IF "connected" \in state
                          THEN @ + Len(SelectSeq(polled, LAMBDA wc : wc.recv /\ wc.ok)) ELSE @]

-----------------------------------------------------------------------------
(* The conditions the calls wait for.                                      *)

(* Mutant of CanSend: the credits are not looked at.                       *)
CanSendWithoutCredit(r) ==
  /\ r.sqe_avail > 0 /\ r.sbuf_bytes_avail >= SndLowat
  /\ r.target_sgl[r.target_sge].length # 0
CanSend(r) ==
  /\ r.sqe_avail > 0 /\ r.sbuf_bytes_avail >= SndLowat
  /\ r.sseq_no # r.sseq_comp /\ r.target_sgl[r.target_sge].length # 0

AllSendsDone(r) ==
  \/ ((r.ctrl_max_seqno - r.ctrl_seqno) % CtrlMod) + r.sqe_avail = SqSize
  \/ "connected" \notin r.state

HaveRdata(r) == r.rmsg # <<>> \/ "readable" \notin r.state

Revents(r, events) ==
  {v \in events : IF v = "in" THEN HaveRdata(r) ELSE CanSend(r)}
    \cup (IF "connected" \in r.state THEN {} ELSE {"hup"})

(* What rs_process_cq waits for on behalf of each call.                    *)
Test(t, r) ==
  CASE t = "send" -> CanSend(r) \/ "writable" \notin r.state
    [] t = "recv" -> HaveRdata(r)
    [] t = "ctrl" -> CtrlAvail(r) \/ "connected" \notin r.state
    [] t = "done" -> AllSendsDone(r)
    [] t = "armed" -> r.cq_armed
    [] t = "all" -> TRUE

-----------------------------------------------------------------------------
(* The application's thread.  A call that cannot go on is at pass, where   *)
(* rs_process_cq works for its test.                                       *)

Set(e, r, a) == rs' = [rs EXCEPT ![e] = r] /\ app' = [app EXCEPT ![e] = a]
Process(a, test) == [a EXCEPT !.pc = "pass", !.test = test]
Return(a) == [Idle EXCEPT !.eof = a.eof, !.shut = a.shut]

Call(e, a) == app[e].pc = "idle" /\ app' = [app EXCEPT ![e] = a] /\ UNCHANGED <<use, rs, sent, got, cut>>

(* rsend is at send when it can go on, and has returned when nothing is    *)
(* left.                                                                   *)
Sending(a, r) ==
  IF a.left = 0 THEN Return(a)
  ELSE IF CanSend(r) THEN [a EXCEPT !.pc = "send"] ELSE Process(a, "send")

Rsend(e, n, nonblock) ==
  /\ sent[e] + n <= use.bytes /\ "wr" \notin app[e].shut
  /\ Call(e, Sending([app[e] EXCEPT !.left = n, !.nonblock = nonblock], rs[e]))

(* Mutant of XferSize: the room left in sbuf is not looked at.             *)
XferSizeOfTarget(a, r) == Min({a.olen, a.left, r.target_sgl[r.target_sge].length})
(* How much goes in one work request: the size doubles from one to the     *)
(* next.                                                                   *)
XferSize(a, r) ==
  Min({a.olen, a.left, r.sbuf_bytes_avail, r.target_sgl[r.target_sge].length})

(* x bytes are copied into the send buffer and rs_write_data takes the     *)
(* credit, the space and the part of the target entry they use ...         *)
WriteData(e) ==
  LET r == rs[e]
      x == XferSize(app[e], r)
      i == r.target_sge
  IN /\ app[e].pc = "send"
     /\ Set(e, [r EXCEPT !.sseq_no = (@ + 1) % SeqSpace, !.sqe_avail = @ - 1,
                         !.sbuf_bytes_avail = @ - x, !.sbuf_next = (@ + x) % SbufSize,
                         !.sbuf = [k \in DOMAIN @ |->
                                     LET d == (k - r.sbuf_next) % SbufSize
                                     IN IF d < x THEN sent[e] + d + 1 ELSE @[k]],
                         !.target_sgl[i] = [addr |-> @.addr + x, length |-> @.length - x],
                         !.target_sge = IF r.target_sgl[i].length = x THEN (@ + 1) % 2 ELSE @],
               [app[e] EXCEPT !.pc = "write",
                              !.wr = <<Wr("data", x, x, r.sbuf_next, r.target_sgl[i].addr)>>,
                              !.olen = IF @ < app[e].left /\ @ < MaxTransfer THEN 2 * @ ELSE @])
     /\ sent' = [sent EXCEPT ![e] = @ + x]
     /\ UNCHANGED <<use, got, cut>>

(* ... before the write is posted.                                         *)
PostWrite(e) ==
  LET a == app[e]
      r == Post(rs[e], a.wr[1])
  IN /\ a.pc = "write"
     /\ Set(e, r, Sending([a EXCEPT !.left = @ - a.wr[1].len, !.wr = <<>>], r))
     /\ UNCHANGED <<use, sent, got, cut>>

(* Mutant of RecvFrom: the end of the stream is looked at before rmsg.     *)
RecvFromReadable(e, a) ==
  IF "readable" \notin rs[e].state THEN [a EXCEPT !.pc = "copy", !.left = 0]
  ELSE IF rs[e].rmsg # <<>> THEN [a EXCEPT !.pc = "copy"] ELSE Process(a, "recv")
(* rrecv; flag is "waitall", "peek", "dontwait" or "none".                 *)
RecvFrom(e, a) ==
  IF rs[e].rmsg # <<>> THEN [a EXCEPT !.pc = "copy"] ELSE Process(a, "recv")

Rrecv(e, n, flag) ==
  /\ ~app[e].eof
  /\ Call(e, RecvFrom(e, [app[e] EXCEPT !.left = n, !.flag = flag, !.nonblock = flag = "dontwait"]))

(* The bytes of the first messages are copied out and their space is free; *)
(* rseq_no counts the messages that are used up.                           *)
Copy(e) ==
  LET r == rs[e]
      a == app[e]
      q == r.rmsg
      n == Min({a.left, Sum(q)})
      whole == Cardinality({k \in 1..Len(q) : Sum(SubSeq(q, 1, k)) <= n})
      rest == SubSeq(q, whole + 1, Len(q))
      more == [a EXCEPT !.left = @ - n]
  IN /\ a.pc = "copy" /\ a.flag # "peek"
     /\ rs' = [rs EXCEPT ![e] =
          [r EXCEPT !.rmsg = IF rest = <<>> THEN rest
                             ELSE [rest EXCEPT ![1] = @ - (n - Sum(SubSeq(q, 1, whole)))],
                    !.rseq_no = (@ + whole) % SeqSpace,
                    !.rbuf_offset = (@ + n) % RbufSize,
                    !.rbuf_bytes_avail = @ + n]]
     /\ app' = [app EXCEPT ![e] =
          IF more.left > 0 /\ a.flag = "waitall" /\ "readable" \in r.state
          THEN Process(more, "recv") ELSE [Return(a) EXCEPT !.eof = n = 0]]
     /\ got' = [got EXCEPT ![e] = @ \o [i \in 1..n |-> r.rbuf[(r.rbuf_offset + i - 1) % RbufSize]]]
     /\ UNCHANGED <<use, sent, cut>>

(* rs_peek: the bytes stay.                                                *)
Peek(e) ==
  /\ app[e].pc = "copy" /\ app[e].flag = "peek"
  /\ app' = [app EXCEPT ![e] = [Return(@) EXCEPT !.eof = rs[e].rmsg = <<>>]]
  /\ UNCHANGED <<use, rs, sent, got, cut>>

(* Where a call goes on when its test holds, and when it may not wait.     *)
Passed(a, r) ==
  CASE a.test = "send" -> IF "writable" \in r.state THEN [a EXCEPT !.pc = "send"] ELSE Return(a)
    [] a.test = "recv" -> [a EXCEPT !.pc = "copy"]
    [] a.test = "ctrl" -> [a EXCEPT !.pc = "ctrl"]
    [] a.test = "done" -> [a EXCEPT !.pc = "down"]
    [] a.test = "all" -> IF Revents(r, a.events) # {} THEN Return(a) ELSE Process(a, "armed")
    [] a.test = "armed" -> IF Revents(r, a.events) # {} THEN Return(a)
                           ELSE [a EXCEPT !.pc = "poll"]

(* Mutant of Pass: no poll after the notification was requested.           *)
PassWithoutRepoll(e) ==
  LET a == app[e] IN
  /\ a.pc = "pass"
  /\ \E r \in {PollCq(UpdateCredits(rs[e]))} :
       IF Test(a.test, r) THEN Set(e, UpdateCredits(r), Passed(a, r))
       ELSE IF a.nonblock THEN Set(e, UpdateCredits(r), Return(a))
       ELSE IF ~r.cq_armed THEN Set(e, [r EXCEPT !.cq_armed = TRUE, !.notify = TRUE], [a EXCEPT !.pc = "wait"])
       ELSE Set(e, UpdateCredits(r), [a EXCEPT !.pc = "wait"])
  /\ UNCHANGED <<use, sent, got, cut>>
(* One turn of the loop of rs_process_cq: completions are polled again     *)
(* after the notification was requested, and only then the thread waits.   *)
Pass(e) ==
  LET a == app[e] IN
  /\ a.pc = "pass"
  /\ \E r \in {PollCq(UpdateCredits(rs[e]))} :
       IF Test(a.test, r) THEN Set(e, UpdateCredits(r), Passed(a, r))
       ELSE IF a.nonblock THEN Set(e, UpdateCredits(r), Return(a))
       ELSE IF ~r.cq_armed THEN Set(e, [r EXCEPT !.cq_armed = TRUE, !.notify = TRUE], a)
       ELSE Set(e, UpdateCredits(r), [a EXCEPT !.pc = "wait"])
  /\ UNCHANGED <<use, sent, got, cut>>

(* rs_get_comp first calls rs_process_cq without waiting.                  *)
Spin(e) ==
  LET r == PollCq(UpdateCredits(rs[e])) IN
  /\ app[e].pc = "pass" /\ app[e].test \in {"send", "recv"} /\ ~app[e].nonblock
  /\ ~rs[e].cq_armed /\ ~Test(app[e].test, r)
  /\ Set(e, UpdateCredits(r), app[e])
  /\ UNCHANGED <<use, sent, got, cut>>

(* Mutant of GetCqEvent: cq_armed is not reset.                            *)
GetCqEventStaysArmed(e) ==
  /\ app[e].pc \in {"wait", "poll"} /\ rs[e].events > 0
  /\ Set(e, [rs[e] EXCEPT !.events = @ - 1],
         IF app[e].pc = "wait" THEN [app[e] EXCEPT !.pc = "pass"] ELSE Process(app[e], "all"))
  /\ UNCHANGED <<use, sent, got, cut>>
(* rs_get_cq_event, for a call and for rpoll.                              *)
GetCqEvent(e) ==
  /\ app[e].pc \in {"wait", "poll"} /\ rs[e].events > 0
  /\ Set(e, [rs[e] EXCEPT !.events = @ - 1, !.cq_armed = FALSE],
         IF app[e].pc = "wait" THEN [app[e] EXCEPT !.pc = "pass"] ELSE Process(app[e], "all"))
  /\ UNCHANGED <<use, sent, got, cut>>

(* rpoll; the check of the socket is rs_process_cq with rs_poll_all.       *)
Rpoll(e, events) == Call(e, [Process(app[e], "all") EXCEPT !.events = events])

PollTimeout(e) ==
  /\ app[e].pc = "poll"
  /\ app' = [app EXCEPT ![e] = Return(@)]
  /\ UNCHANGED <<use, rs, sent, got, cut>>

(* rshutdown.                                                              *)
Directions(how) ==
  CASE how = "rdwr" -> {"rd", "wr"} [] how = "wr" -> {"wr"} [] how = "rd" -> {"rd"}

ShutState(state, how) ==
  state \ ((IF "rd" \in Directions(how) THEN {"readable"} ELSE {})
             \cup (IF "wr" \in Directions(how) THEN {"writable"} ELSE {}))

Rshutdown(e, how, closing) ==
  LET r == [rs[e] EXCEPT !.keepalive = 0]
      s == [r EXCEPT !.state = ShutState(@, how)]
      a == [app[e] EXCEPT !.shut = @ \cup Directions(how), !.closing = closing,
                          !.ctrl = IF how = "wr" /\ "readable" \in s.state
                                   THEN "shutdown" ELSE "disconnect"]
  IN /\ a.pc = "idle" /\ a.shut # app[e].shut
     /\ IF "connected" \notin r.state THEN Set(e, r, [a EXCEPT !.pc = "down"])
        ELSE IF how = "rd" /\ "writable" \in r.state THEN Set(e, s, [a EXCEPT !.pc = "down"])
        ELSE IF CtrlAvail(r) THEN Set(e, s, [a EXCEPT !.pc = "ctrl"])
        ELSE Set(e, s, Process(a, "ctrl"))
     /\ UNCHANGED <<use, sent, got, cut>>

ShutdownCtrl(e) ==
  LET r == rs[e]
      a == app[e]
  IN /\ a.pc = "ctrl"
     /\ IF "connected" \in r.state
        THEN Set(e, IF CtrlAvail(r)
                    THEN Post([r EXCEPT !.ctrl_seqno = (@ + 1) % CtrlMod],
                              Wr("ctrl", a.ctrl, 0, NoSlot, 0))
                    ELSE r,
                 Process(a, "done"))
        ELSE Set(e, r, [a EXCEPT !.pc = "down"])
     /\ UNCHANGED <<use, sent, got, cut>>

(* The end of rshutdown: a disconnected socket's queue pair goes into the  *)
(* error state; and of rclose: rs_free destroys it.                        *)
ShutdownEnd(e) ==
  LET r == rs[e]
      a == app[e]
      left == r.state = {"disconnected"} \/ a.closing
  IN /\ a.pc = "down"
     /\ Set(e, IF a.closing THEN [r EXCEPT !.up = FALSE, !.sq = <<>>, !.unacked = <<>>, !.cq = <<>>,
                                           !.posted = 0, !.events = 0, !.notify = FALSE]
               ELSE IF left THEN [r EXCEPT !.notify = TRUE, !.up = FALSE] ELSE r,
            IF a.closing THEN [Return(a) EXCEPT !.pc = "closed"] ELSE Return(a))
     /\ cut' = IF left /\ (\E w \in Range(r.sq) : w.op = "data") THEN cut \cup {e} ELSE cut
     /\ UNCHANGED <<use, sent, got>>

Rclose(e) ==
  \/ "connected" \in rs[e].state /\ Rshutdown(e, "rdwr", TRUE)
  \/ /\ app[e].pc = "idle" /\ "connected" \notin rs[e].state
     /\ Set(e, [rs[e] EXCEPT !.keepalive = 0],
            [app[e] EXCEPT !.pc = "down", !.closing = TRUE, !.shut = {"rd", "wr"}])
     /\ UNCHANGED <<use, sent, got, cut>>

(* tcp_svc_send_keepalive, on the service thread.                          *)
Keepalive(e) ==
  /\ rs[e].keepalive > 0
  /\ rs' = [rs EXCEPT ![e] =
       IF CtrlAvail(@) /\ "connected" \in @.state
       THEN Post([@ EXCEPT !.ctrl_seqno = (@ + 1) % CtrlMod, !.keepalive = @ - 1],
                 Wr("ctrl", "keepalive", 0, NoSlot, 0))
       ELSE [@ EXCEPT !.keepalive = @ - 1]]
  /\ UNCHANGED <<use, app, sent, got, cut>>

-----------------------------------------------------------------------------
(* The adapters.                                                           *)

(* The first work request is executed at the other end.  A keep-alive is a *)
(* plain write; everything else takes a posted receive there.              *)
Deliver(e) ==
  LET p == Peer(e)
      w == rs[e].sq[1]
      quiet == w.op = "ctrl" /\ w.arg = "keepalive"
      written ==
        [rs[p] EXCEPT
           !.rbuf = IF w.op = "data"
                    THEN [k \in DOMAIN @ |-> IF k \in w.to..w.to + w.len - 1
                                             THEN rs[e].sbuf[(w.from + k - w.to) % SbufSize]
                                             ELSE @[k]]
                    ELSE @,
           !.target_sgl = IF w.op = "sgl" /\ w.len > 0
                          THEN [@ EXCEPT ![w.to] = [addr |-> rs[e].ctrl_buf[w.from], length |-> w.len]]
                          ELSE @]
  IN /\ rs[e].sq # <<>> /\ rs[e].up /\ rs[p].up
     /\ quiet \/ rs[p].posted > 0
     /\ rs' = [rs EXCEPT ![e] = IF use.lateAcks
                                THEN [@ EXCEPT !.sq = Tail(@), !.unacked = Append(@, w)]
                                ELSE Complete([@ EXCEPT !.sq = Tail(@)], SendWc(w, TRUE)),
                         ![p] = IF quiet THEN @
                                ELSE Complete([written EXCEPT !.posted = @ - 1], RecvWc(w))]
     /\ UNCHANGED <<use, app, sent, got, cut>>

Ack(e) ==
  /\ rs[e].unacked # <<>> /\ rs[e].up
  /\ rs' = [rs EXCEPT ![e] = Complete([@ EXCEPT !.unacked = Tail(@)], SendWc(@.unacked[1], TRUE))]
  /\ UNCHANGED <<use, app, sent, got, cut>>

(* A queue pair in the error state, or one whose peer is, ends its work    *)
(* requests in error, and flushes its receives.                            *)
Flush(e) ==
  LET r == rs[e]
      wrs == r.unacked \o r.sq
      broken == ~r.up \/ (~rs[Peer(e)].up /\ wrs # <<>>)
  IN /\ broken /\ app[e].pc # "closed" /\ (wrs # <<>> \/ r.posted > 0)
     /\ rs' = [rs EXCEPT ![e] =
          [Complete(r, FlushedRecv) EXCEPT
             !.cq = r.cq \o [i \in DOMAIN wrs |-> SendWc(wrs[i], FALSE)]
                         \o (IF r.posted > 0 THEN <<FlushedRecv>> ELSE <<>>),
             !.up = FALSE, !.sq = <<>>, !.unacked = <<>>, !.posted = 0]]
     /\ UNCHANGED <<use, app, sent, got, cut>>

-----------------------------------------------------------------------------
Next == \E e \in Ends :
  \/ \E n \in use.sendLens, nonblock \in use.nonblock : e \in use.senders /\ Rsend(e, n, nonblock)
  \/ WriteData(e) \/ PostWrite(e)
  \/ \E n \in use.recvLens, flag \in use.flags : Peer(e) \in use.senders /\ Rrecv(e, n, flag)
  \/ Copy(e) \/ Peek(e) \/ Pass(e) \/ Spin(e) \/ GetCqEvent(e)
  \/ use.polls /\ Peer(e) \in use.senders /\ Rpoll(e, {"in"})
  \/ PollTimeout(e)
  \/ \E how \in use.hows[e] : Rshutdown(e, how, FALSE)
  \/ ShutdownCtrl(e) \/ ShutdownEnd(e)
  \/ e \in use.closers /\ Rclose(e)
  \/ Keepalive(e) \/ Deliver(e) \/ Ack(e) \/ Flush(e)

Fairness == \A e \in Ends :
  /\ WF_vars(WriteData(e) \/ PostWrite(e) \/ Copy(e) \/ Peek(e) \/ Pass(e) \/ GetCqEvent(e)
               \/ ShutdownCtrl(e) \/ ShutdownEnd(e))
  /\ WF_vars(Deliver(e) \/ Ack(e) \/ Flush(e))
  /\ SF_vars(\E n \in use.recvLens, flag \in use.flags \ {"peek"} :
               Peer(e) \in use.senders /\ Rrecv(e, n, flag))

Spec == Init /\ [][Next]_vars /\ Fairness

-----------------------------------------------------------------------------
(* The counters of sq entries, send buffer, receive buffer and posted      *)
(* receives, which are taken and given back by different calls and         *)
(* completions, stay within what was allocated, and so do the addresses    *)
(* and lengths that the ends write into each other's target_sgl.           *)
TypeOK ==
  /\ sent \in [Ends -> 0..use.bytes] /\ got \in [Ends -> Seq(1..use.bytes)]
  /\ \A e \in Ends :
       LET r == rs[e] IN
       /\ r.sqe_avail \in 0..SqSize - CtrlSize /\ r.sbuf_bytes_avail \in 0..SbufSize
       /\ r.rbuf_bytes_avail \in 0..RbufSize /\ r.rbuf_free_offset \in {0, Half}
       /\ \A i \in 0..1 : r.target_sgl[i].addr \in 0..RbufSize /\ r.target_sgl[i].length \in 0..Half
       /\ r.posted \in 0..RqSize /\ r.events \in 0..3

Total(q, f(_)) == FoldLeft(LAMBDA n, x : n + f(x), 0, q)

(* The receive buffer is never lent twice: what has arrived and is not     *)
(* read, what is on its way, what the sender may still write, the halves   *)
(* offered in messages under way and what is free make up rbuf.            *)
RbufConserved ==
  \A e \in Ends :
    LET r == rs[e]
        s == rs[Peer(e)]
        data(w) == IF w.op = "data" THEN w.len ELSE 0
        sgl(w) == IF w.op = "sgl" THEN w.len ELSE 0
        arrived(wc) == IF wc.recv /\ wc.op = "data" THEN wc.arg ELSE 0
    IN r.up /\ s.up =>
         Sum(r.rmsg) + Total(r.cq, arrived) + Total(s.sq \o app[Peer(e)].wr, data)
           + s.target_sgl[0].length + s.target_sgl[1].length
           + Total(r.sq, sgl) + r.rbuf_bytes_avail = RbufSize

(* No queue overflows: the queue pair has room for every work request and  *)
(* the completion queue for every completion, although control messages    *)
(* (credits, shutdown, keep-alives of the service thread) are posted       *)
(* without looking at sqe_avail; and the other end's rmsg, a ring without  *)
(* a check of its own, has a place for every data message on the way.      *)
QueuesFit ==
  \A e \in Ends :
    LET r == rs[e]
        s == rs[Peer(e)]
        done == Len(SelectSeq(r.cq, LAMBDA wc : ~wc.recv))
        data(w) == IF w.op = "data" THEN 1 ELSE 0
        arrived(wc) == IF wc.recv /\ wc.op = "data" THEN 1 ELSE 0
    IN /\ Len(r.sq) + Len(r.unacked) + done <= SqSize
       /\ Len(r.cq) + Len(r.sq) + Len(r.unacked) + r.posted <= SqSize + RqSize
       /\ Len(r.rmsg) + Total(r.cq, arrived) + Total(s.sq \o app[Peer(e)].wr, data) <= RqSize

(* A control buffer and a byte of the send buffer keep their contents      *)
(* until the adapter has executed the write that takes them.               *)
BuffersKept == [][
  \A e \in Ends :
    \A w \in Range(rs[e].sq) \cap Range(rs'[e].sq) :
      /\ w.op = "sgl" /\ w.len > 0 => rs'[e].ctrl_buf[w.from] = rs[e].ctrl_buf[w.from]
      /\ w.op = "data" =>
           \A k \in 0..w.len - 1 :
             rs'[e].sbuf[(w.from + k) % SbufSize] = rs[e].sbuf[(w.from + k) % SbufSize]]_vars

(* "Otherwise the remote side may update the entry before we do": a new    *)
(* half is only ever offered in an entry the sender has used up.           *)
SglUsedUp == [][
  \A e \in Ends, i \in 0..1 :
    rs'[e].target_sgl[i].length > rs[e].target_sgl[i].length
      => rs[e].target_sgl[i].length = 0]_vars

(* rrecv returns 0 only at the end of the data: everything the other end   *)
(* sent has been read, unless this end shut down reading or the other one  *)
(* gave up its outstanding sends.                                          *)
EofMeansAll ==
  \A e \in Ends :
    app[e].eof /\ "rd" \notin app[e].shut /\ Peer(e) \notin cut => Len(got[e]) = sent[Peer(e)]

(* The stream of ByteStream, which holds no more than one receive buffer.  *)
Stream == INSTANCE ByteStream WITH Capacity <- RbufSize
ImplementsByteStream == Stream!StreamSpec

(* Whatever is sent is read, if the other end keeps reading: no wakeup is  *)
(* lost between polling, arming and waiting, and credits and halves come   *)
(* back.                                                                   *)
EverythingArrives ==
  \A e \in Ends :
    <>[](Len(got[e]) = sent[Peer(e)] \/ "rd" \in app[e].shut \/ Peer(e) \in cut)

(* The rsend and the rshutdown of an end whose data the other one keeps    *)
(* reading return.                                                         *)
CallsReturn ==
  \A e \in Ends :
    e \in use.senders /\ app[e].pc # "idle" /\ app[e].test \notin {"recv", "all", "armed"}
      ~> app[e].pc \in {"idle", "closed"} \/ "rd" \in app[Peer(e)].shut
=============================================================================
