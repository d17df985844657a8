------------------------- MODULE SubscriptionStream -------------------------
(***************************************************************************)
(* The streaming tool on top of GroupDelivery: the task that forwards one  *)
(* merged subscription to the client's open stream (adapter.rs,            *)
(* subscribe_many_group_messages), the stream writer of the transport      *)
(* library, and clients that come back and resume from the last cursor     *)
(* they were given.                                                        *)
(*                                                                         *)
(* The task is asynchronous: the transport may cancel it wherever it       *)
(* awaits, and the handle is dropped with it.  The writer's active flag is *)
(* flipped behind its back, by the client's abort or by the library's      *)
(* keepalive.  A write is no sign of life: the relay accepts a frame       *)
(* whether or not the client is there.                                     *)
(***************************************************************************)
EXTENDS GroupDelivery, SequencesExt

CONSTANTS
    Clients,  \* clients that stream
    Nobody,   \* the owner of an id not opened yet
    Wanted    \* the groups they ask for, in the order of the request

(* The request of a client that resumes after the given cursors; a cursor  *)
(* of 0 is an absent `after`.                                              *)
ResumeFrom(after) ==
    [k \in DOMAIN Wanted |-> [group_id |-> Wanted[k], after_cursor |-> after[Wanted[k]]]]

ASSUME WantedAssumption == Wanted \in Seq(Groups) \ {<<>>}
ASSUME NobodyAssumption == Nobody \notin Clients
ASSUME ResumesAssumption == \A after \in [Groups -> 0 .. MaxLog] : ResumeFrom(after) \in Requests

VARIABLES
    stage,      \* per id: where the task of its tool call is
    active,     \* per id: the writer's flag
    connected,  \* per id: is the client reading this stream?
    owner,      \* per id: the client
    received    \* per client and group: the frames read, over all its streams

task == <<stage, active, connected, owner, received>>
stream_vars == <<vars, task>>

(* The last cursor of a group that a client has been given. *)
Have(c, g) ==
    IF received[c][g] = <<>> THEN 0 ELSE Last(received[c][g]).cursor

(* Where the task may be cancelled: it awaits the writer, recv or the timer. *)
Awaiting(id) == stage[id] \in {"start", "wait", "write", "close"}

StreamInit ==
    /\ Init
    /\ stage = [id \in Ids |-> "none"]
    /\ active = [id \in Ids |-> FALSE]
    /\ connected = [id \in Ids |-> FALSE]
    /\ owner = [id \in Ids |-> Nobody]
    /\ received = [c \in Clients |-> [g \in Groups |-> <<>>]]

(* A client without a stream opens one, after the last cursors it knows.   *)
(* An earlier stream of the client may still be served.                    *)
OpenStream(c) ==
    LET id == next_id IN
    /\ \A i \in Ids : owner[i] = c => ~ connected[i]
    /\ SubscribeMany(ResumeFrom([g \in Groups |-> Have(c, g)]))
    /\ stage' = [stage EXCEPT ![id] = "call"]
    /\ active' = [active EXCEPT ![id] = TRUE]
    /\ connected' = [connected EXCEPT ![id] = TRUE]
    /\ owner' = [owner EXCEPT ![id] = c]
    /\ UNCHANGED received

(* The subscribe call runs without an await. *)
Subscribe(id) ==
    /\ SubscribeStep(id)
    /\ stage' = CASE pc'[id] = "error" -> [stage EXCEPT ![id] = "done"]
                  [] pc'[id] = "live" -> [stage EXCEPT ![id] = "start"]
                  [] OTHER -> stage
    /\ connected' = [connected EXCEPT ![id] = @ /\ pc'[id] # "error"]
    /\ UNCHANGED <<active, owner, received>>

(* sink.start(), whose result nobody looks at. *)
SinkStart(id) ==
    /\ stage[id] = "start"
    /\ stage' = [stage EXCEPT ![id] = "loop"]
    /\ UNCHANGED <<vars, active, connected, owner, received>>

(* A record is ready, at once or while the timer runs. *)
LoopRecv(id) ==
    /\ stage[id] \in {"loop", "wait"}
    /\ Recv(id)
    /\ stage' = [stage EXCEPT ![id] = "write"]
    /\ UNCHANGED <<active, connected, owner, received>>

(* None is ready: recv is pending and SINK_ACTIVE_POLL runs.  It cannot    *)
(* end with None: the registry keeps the sender as long as the handle lives. *)
LoopIdle(id) ==
    /\ stage[id] = "loop"
    /\ taken[id] = Len(channel[id])
    /\ stage' = [stage EXCEPT ![id] = "wait"]
    /\ UNCHANGED <<vars, active, connected, owner, received>>

LoopPollBlind(id) ==
    /\ stage[id] = "wait"
    /\ stage' = [stage EXCEPT ![id] = "loop"]
    /\ UNCHANGED <<vars, active, connected, owner, received>>

(* The timer won: the pending recv is dropped, the record it may have been *)
(* about to return stays in the channel.                                   *)
LoopPoll(id) ==
    /\ stage[id] = "wait"
    /\ stage' = [stage EXCEPT ![id] = IF active[id] THEN "loop" ELSE "close"]
    /\ UNCHANGED <<vars, active, connected, owner, received>>

(* The record just taken goes out, and the client has it if it is there. *)
Forwarded(id) ==
    LET rec == channel[id][taken[id]] IN
    IF connected[id] THEN [received EXCEPT ![owner[id]][rec.group_id] = Append(@, rec)]
    ELSE received

LoopWriteAgain(id) ==
    /\ stage[id] = "write"
    /\ \/ /\ active[id]
          /\ received' = Forwarded(id)
          /\ stage' = [stage EXCEPT ![id] = "written"]
       \/ /\ stage' = [stage EXCEPT ![id] = "loop"]
          /\ UNCHANGED received
    /\ UNCHANGED <<vars, active, connected, owner>>

(* sink.write(): the frame goes out while the writer is active; or the     *)
(* writer refuses (always when it is inactive), which ends the loop.       *)
LoopWrite(id) ==
    /\ stage[id] = "write"
    /\ \/ /\ active[id]
          /\ received' = Forwarded(id)
          /\ stage' = [stage EXCEPT ![id] = "written"]
       \/ /\ stage' = [stage EXCEPT ![id] = "close"]
          /\ UNCHANGED received
    /\ UNCHANGED <<vars, active, connected, owner>>

(* ... && is_active(), read after the write. *)
LoopWritten(id) ==
    /\ stage[id] = "written"
    /\ stage' = [stage EXCEPT ![id] = IF active[id] THEN "loop" ELSE "close"]
    /\ UNCHANGED <<vars, active, connected, owner, received>>

(* The loop is left; a writer that is still active is closed, and the      *)
(* client learns of it.                                                    *)
CloseSink(id) ==
    /\ stage[id] = "close"
    /\ active' = [active EXCEPT ![id] = FALSE]
    /\ connected' = [connected EXCEPT ![id] = FALSE]
    /\ stage' = [stage EXCEPT ![id] = "drop"]
    /\ UNCHANGED <<vars, owner, received>>

(* The handle goes out of scope and unsubscribes. *)
DropSubscription(id) ==
    /\ stage[id] = "drop"
    /\ Unsubscribe(id)
    /\ pc'[id] = "dropped"
    /\ stage' = [stage EXCEPT ![id] = "done"]
    /\ UNCHANGED <<active, connected, owner, received>>

(* Transport teardown cancels the task at an await; its locals are dropped. *)
CancelTask(id) ==
    /\ Awaiting(id)
    /\ active' = [active EXCEPT ![id] = FALSE]
    /\ connected' = [connected EXCEPT ![id] = FALSE]
    /\ stage' = [stage EXCEPT ![id] = "drop"]
    /\ UNCHANGED <<vars, owner, received>>

(* The client aborts the stream, or goes away without a word. *)
ClientLeaves(id) ==
    /\ connected[id]
    /\ connected' = [connected EXCEPT ![id] = FALSE]
    /\ \E flag \in {FALSE, active[id]} : active' = [active EXCEPT ![id] = flag]
    /\ UNCHANGED <<vars, stage, owner, received>>

(* The library's keepalive: no answer to a probe.  A probe may also be     *)
(* lost while the client is there; it is then told that the stream ended.  *)
KeepaliveTimeout(id) ==
    /\ active[id]
    /\ active' = [active EXCEPT ![id] = FALSE]
    /\ connected' = [connected EXCEPT ![id] = FALSE]
    /\ UNCHANGED <<vars, stage, owner, received>>

TaskStep(id) ==
    \/ Subscribe(id)
    \/ SinkStart(id)
    \/ LoopRecv(id)
    \/ LoopIdle(id)
    \/ LoopPoll(id)
    \/ LoopWrite(id)
    \/ LoopWritten(id)
    \/ CloseSink(id)
    \/ DropSubscription(id)

PostTo == Post /\ UNCHANGED task

StreamNext ==
    \/ PostTo
    \/ \E c \in Clients : OpenStream(c)
    \/ \E id \in Ids :
         \/ TaskStep(id)
         \/ CancelTask(id)
         \/ ClientLeaves(id)
         \/ KeepaliveTimeout(id)

StreamSpec == StreamInit /\ [][StreamNext]_stream_vars

(* Started calls and tasks go on, and the keepalive of a writer whose      *)
(* client is gone runs out.  Nobody has to post, to leave or to come back. *)
(* Only weak fairness: std::sync::Mutex promises no fair hand-over.        *)
StreamFairness ==
    /\ \A p \in Posters : WF_stream_vars(PostPublish(p) /\ UNCHANGED task)
    /\ \A id \in Ids :
         /\ WF_stream_vars(TaskStep(id))
         /\ WF_stream_vars(~ connected[id] /\ KeepaliveTimeout(id))

FairStreamSpec == StreamSpec /\ StreamFairness

-----------------------------------------------------------------------------
StreamTypeOK ==
    /\ TypeOK
    /\ stage \in [Ids -> {"none", "call", "start", "loop", "wait", "write",
                          "written", "close", "drop", "done"}]
    /\ active \in [Ids -> BOOLEAN]
    /\ connected \in [Ids -> BOOLEAN]
    /\ owner \in [Ids -> Clients \cup {Nobody}]
    /\ received \in [Clients -> [Groups -> Seq(GroupMessageRecord)]]

(* A client that resumes from the last cursor it was given reads the log   *)
(* of every group from the first message on, each message once and in      *)
(* order, over all its streams: whatever was in the channel, in the        *)
(* writer or in the buffer of the stream that broke comes again, and the   *)
(* old task, which may still be forwarding, adds nothing.                  *)
ResumeGapFree ==
    \A c \in Clients, g \in Groups :
        \A k \in DOMAIN received[c][g] : received[c][g][k] = RecordAt(g, k)

(* A stream whose client has gone away, silently or not, is not kept:      *)
(* the subscriber and its unbounded channel leave the registry.            *)
GoneStreamsEnd ==
    \A id \in Ids :
        stage[id] # "none" /\ ~ connected[id] ~> id \notin DOMAIN subscribers

(* Every message of a group that a connected client asked for reaches it,  *)
(* unless the stream ends first.                                           *)
EventuallyReceivedByClient ==
    \A id \in Ids, g \in ToSet(Wanted), k \in 1 .. MaxLog :
        (connected[id] /\ k <= Len(log[g]))
        ~> (~ connected[id] \/ Have(owner[id], g) >= k)
=============================================================================
