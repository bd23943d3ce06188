------------------------------ MODULE Messages ------------------------------
(***************************************************************************)
(* The programs that talk over System V message queues.                    *)
(*  - problem_3/two_way_msg.c: processes a and b, each with a main thread  *)
(*    that sends the lines of its input and a thread that receives; a      *)
(*    queue for each direction, which nobody removes: it may still hold    *)
(*    messages of an earlier session.                                      *)
(*  - practice/msgsnd.c and msgrcv.c (lab_2): the sender removes the queue *)
(*    after its last message; each side creates the queue if it is missing.*)
(* A queue has room for QUEUE_MAX messages; a sender waits for room.       *)
(***************************************************************************)
EXTENDS Runtime

CONSTANTS Inputs,       \* what may be typed: sequences of lines; "end" is one
          QUEUE_MAX

Programs == {"two_way_msg", "msgsnd"}

Proc == {"a", "b"}
Peer(p) == CHOOSE q \in Proc : q # p
Receiver(p) == IF p = "a" THEN "receiver_a" ELSE "receiver_b"
Threads == Proc \cup {Receiver(p) : p \in Proc} \cup {"sender", "receiver"}

(* queue[p] holds what p has sent; old[p] is what it held in the beginning. *)
Init ==
  \/ \E input \in [Proc -> Inputs], old \in [Proc -> {<<>>, <<"end">>}] :
       Start("two_way_msg",
             [t \in Proc \cup {Receiver(p) : p \in Proc} |-> IF t \in Proc THEN "get" ELSE "none"],
             [input |-> input, queue |-> old, old |-> old,
              sent |-> [p \in Proc |-> <<>>], got |-> [p \in Proc |-> <<>>]])
  \/ \E input \in Inputs :
       Start("msgsnd", [t \in {"sender", "receiver"} |-> "get"],
             [input |-> input \o <<"end">>, sent |-> <<>>, got |-> <<>>, queue |-> <<>>,
              created |-> 0, id |-> 0, used |-> [t \in {"sender", "receiver"} |-> 0]])

-----------------------------------------------------------------------------
(* two_way_msg.c *)

(* msgget of both queues and the receiver thread; any of them may fail. *)
GetQueues(p) == \/ /\ pc[p] = "get" /\ UNCHANGED <<program, mem>>
                   /\ pc' = [pc EXCEPT ![p] = "send", ![Receiver(p)] = "receive"]
                \/ Goto(p, "get", "failed")

SendLine(p) ==
  LET line == Head(mem.input[p])
  IN  \/ /\ mem.input[p] # <<>> /\ Len(mem.queue[p]) < QUEUE_MAX
         /\ Move(p, "send", IF line = "end" THEN "join" ELSE "send",
                 [mem EXCEPT !.queue[p] = Append(@, line), !.sent[p] = Append(@, line),
                             !.input[p] = Tail(@)])
      \/ mem.input[p] = <<>> /\ Goto(p, "send", "join")

(* msgsnd fails; perror says so, and the line counts as sent. *)
LineFails(p) ==
  /\ mem.input[p] # <<>>
  /\ Move(p, "send", IF Head(mem.input[p]) = "end" THEN "join" ELSE "send",
          [mem EXCEPT !.input[p] = Tail(@)])

Receive(p) ==
  LET q == mem.queue[Peer(p)]
  IN  /\ q # <<>>
      /\ Move(Receiver(p), "receive", IF Head(q) = "end" THEN "done" ELSE "receive",
              [mem EXCEPT !.queue[Peer(p)] = Tail(@), !.got[p] = Append(@, Head(q))])

-----------------------------------------------------------------------------
(* msgsnd.c and msgrcv.c *)

(* msgget with IPC_CREAT: the queue there is, or a new one. *)
GetQueue(t, to) ==
  \/ IF mem.id # 0 THEN Move(t, "get", to, [mem EXCEPT !.used[t] = mem.id])
     ELSE Move(t, "get", to, [mem EXCEPT !.created = @ + 1, !.id = mem.created + 1,
                                         !.used[t] = mem.created + 1])
  \/ Goto(t, "get", "failed")

SendAll(t) ==
  \/ /\ mem.input # <<>> /\ Len(mem.queue) < QUEUE_MAX
     /\ Move(t, "send", "send", [mem EXCEPT !.queue = Append(@, Head(mem.input)),
                                            !.sent = Append(@, Head(mem.input)),
                                            !.input = Tail(@)])
  \/ mem.input = <<>> /\ Move(t, "send", "done", [mem EXCEPT !.id = 0, !.queue = <<>>])

(* msgsnd fails and the loop goes on; msgctl fails and the queue stays. *)
SendAllFails(t) ==
  \/ mem.input # <<>> /\ Move(t, "send", "send", [mem EXCEPT !.input = Tail(@)])
  \/ mem.input = <<>> /\ Goto(t, "send", "failed")

(* msgrcv fails on a queue that was removed. *)
ReceiveAll(t) ==
  IF mem.id # mem.used[t] THEN Goto(t, "receive", "error")
  ELSE /\ mem.queue # <<>>
       /\ Move(t, "receive", IF Head(mem.queue) = "end" THEN "done" ELSE "receive",
               [mem EXCEPT !.queue = Tail(@), !.got = Append(@, Head(mem.queue))])

Step(t) ==
  \/ /\ program = "two_way_msg"
     /\ \E p \in Proc : \/ t = p /\ (GetQueues(p) \/ SendLine(p)
                                     \/ Join(p, {Receiver(p)}, "join", "exited"))
                        \/ t = Receiver(p) /\ Receive(p)
  \/ /\ program = "msgsnd"
     /\ \/ t = "sender" /\ (GetQueue(t, "send") \/ SendAll(t))
        \/ t = "receiver" /\ (GetQueue(t, "receive") \/ ReceiveAll(t))

(* The failing calls that need not happen, however long a sender waits. *)
SendFails == \/ program = "two_way_msg" /\ \E p \in Proc : LineFails(p)
             \/ program = "msgsnd" /\ SendAllFails("sender")

Next == SendFails \/ \E t \in Threads : Step(t)

Fairness == \A t \in Threads : WF_vars(Step(t))

-----------------------------------------------------------------------------
(* Properties *)

Holds(s, line) == \E k \in DOMAIN s : s[k] = line

(* What was received and what the queue still holds is what was sent, in   *)
(* order, after the left-overs, `sent' being the lines for which msgsnd    *)
(* succeeded; a receiver stops at the first "end" it sees.  Only the       *)
(* removal of the queue at msgsnd.c:50 discards lines.                     *)
InOrder ==
  /\ program = "two_way_msg" => \A p \in Proc :
       /\ mem.got[p] \o mem.queue[Peer(p)] = mem.old[Peer(p)] \o mem.sent[Peer(p)]
       /\ \A k \in DOMAIN mem.got[p] : mem.got[p][k] = "end" <=>
            k = Len(mem.got[p]) /\ pc[Receiver(p)] = "done"
  /\ program = "msgsnd" =>
       /\ mem.got = SubSeq(mem.sent, 1, Len(mem.got))
       /\ mem.got \o mem.queue = mem.sent \/ pc["sender"] = "done"
       /\ pc["receiver"] = "error" => pc["sender"] = "done" /\ ~Holds(mem.got, "end")

(* A process ends when its peer has sent an "end"; it waits for ever for a *)
(* peer that never does, or whose "end" could not be sent, or for room in  *)
(* a queue nobody reads any more, because its reader met an "end" before.  *)
WaitsForPeer(p) ==
  \/ pc[p] = "join" /\ pc[Receiver(p)] = "receive" /\ mem.queue[Peer(p)] = <<>>
     /\ (~Holds(mem.sent[Peer(p)], "end") /\ pc[Peer(p)] # "get")
  \/ pc[p] = "send" /\ Len(mem.queue[p]) = QUEUE_MAX
     /\ pc[Receiver(Peer(p))] # "receive"

AtRest ==
  CASE program = "two_way_msg" ->
         \A p \in Proc : pc[p] \in {"exited", "failed"} \/ WaitsForPeer(p)
    [] program = "msgsnd" ->
         \/ pc["sender"] = "failed" \/ pc["receiver"] = "failed"
         \/ pc["sender"] = "done" /\ pc["receiver"] \in {"done", "error"}
         \/ pc["sender"] = "done" /\ mem.used["receiver"] = mem.id /\ mem.created = 2
         \/ pc["sender"] = "send" /\ pc["receiver"] = "done" /\ Len(mem.queue) = QUEUE_MAX
=============================================================================
