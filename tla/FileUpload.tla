------------------------------ MODULE FileUpload ------------------------------
(***************************************************************************)
(* An upload of a file into the guest, over its three hops.  The library    *)
(* reads the caller's reader in a task of its own and sends the chunks to   *)
(* the monitor; the monitor relays them, from a task of its own again, to    *)
(* the guest agent; the agent writes a temporary file in blocking jobs and   *)
(* renames it when the request stream ends.  A stream that is cut must not   *)
(* look like one that ended.                                                *)
(***************************************************************************)
EXTENDS Integers, Sequences, FiniteSets

CONSTANTS Chunks,    \* chunks of the caller's file
          QueueCap,  \* room in the request channel of a hop
          UpScopes   \* [faults, target: first state of the guest's path]

Absent == [kind |-> "absent", content |-> 0]
Directory == [kind |-> "dir", content |-> 0]
FileWith(n) == [kind |-> "file", content |-> n]
Other == FileWith(Chunks + 1) \* a file this upload did not write

VARIABLES upScope,
          hop,      \* the two request streams: 1 library to monitor, 2 monitor to guest
          libvm,    \* upload_file of the library: [pc, result]
          producer, \* the task that reads the caller's reader: [pc, next]
          proxy,    \* upload_file of the monitor
          relay,    \* the monitor's relay task: pc
          done,     \* completion channel of each producer: none, ok, error, stopped
          agent,    \* upload_file of the guest agent: pc
          upJob,      \* its blocking job: [step, detached]
          written,  \* chunks written to its temporary file
          temporary,\* the temporary file exists
          target,   \* the guest's path
          history   \* [commits: what was renamed over what, left: the guest ended with a temporary file]

upVars == <<upScope, hop, libvm, producer, proxy, relay, done, agent, upJob, written, temporary, target, history>>
libVars == <<libvm, producer>>
monVars == <<proxy, relay>>
guestVars == <<agent, upJob, written, temporary, target, history>>

may(f) == f \in upScope.faults

OpenHop == [queue |-> <<>>, senders |-> {"guard", "producer"}, reset |-> FALSE, reply |-> "none"]

UpInit ==
  /\ upScope \in UpScopes
  /\ hop = [h \in 1..2 |-> IF h = 1 THEN OpenHop ELSE [OpenHop EXCEPT !.senders = {}]]
  /\ libvm = [pc |-> "select", result |-> "none"]
  /\ producer = [pc |-> "send", next |-> 0]
  /\ proxy = "header"
  /\ relay = "unborn" /\ done = [h \in 1..2 |-> "none"]
  /\ agent = "idle" /\ upJob = [step |-> "none", detached |-> FALSE]
  /\ written = 0 /\ temporary = FALSE /\ target = upScope.target
  /\ history = [commits |-> {}, left |-> FALSE]

-----------------------------------------------------------------------------
(* A request stream.  The receiver sees its end only when every sender of   *)
(* the channel is gone and the channel is empty; once the call is dropped    *)
(* or answered nobody takes from it, and a send fails.                       *)

takes(h) == ~hop[h].reset /\ hop[h].reply = "none"
ended(h) == takes(h) /\ hop[h].senders = {} /\ hop[h].queue = <<>>
available(h) == takes(h) /\ hop[h].queue # <<>>
hasRoom(h) == Len(hop[h].queue) < QueueCap
answered(h) == hop[h].reply # "none" \/ hop[h].reset

Push(h, x) == [hop EXCEPT ![h].queue = Append(@, x)]
Taken(h) == [hop EXCEPT ![h].queue = Tail(@)]
DropSender(h, who) == [hop EXCEPT ![h].senders = @ \ who]
Reply(h, r) == [hop EXCEPT ![h].reply = r, ![h].queue = <<>>]
Cut(h) == [hop EXCEPT ![h].reset = TRUE, ![h].queue = <<>>]

-----------------------------------------------------------------------------
(* The library. *)

\* spawn_upload_producer: the header, then what the reader gives.
ProducerSends ==
  /\ producer.pc = "send" /\ producer.next <= Chunks
  /\ takes(1) /\ hasRoom(1)
  /\ hop' = Push(1, producer.next) /\ producer' = [producer EXCEPT !.next = @ + 1]
  /\ UNCHANGED <<upScope, libvm, monVars, done, guestVars>>

\* The reader is at its end: the sender is dropped before the completion is told.
ProducerEnds ==
  /\ producer.pc = "send" /\ producer.next > Chunks
  /\ hop' = DropSender(1, {"producer"}) /\ producer' = [producer EXCEPT !.pc = "gone"]
  /\ done' = [done EXCEPT ![1] = "ok"]
  /\ UNCHANGED <<upScope, libvm, monVars, guestVars>>

\* The reader fails, or the stream is closed: the error is told and the sender is kept until the task is aborted.
ProducerFails ==
  /\ producer.pc = "send"
  /\ \/ may("reader") /\ producer.next \in 1..Chunks
     \/ producer.next <= Chunks /\ ~takes(1)
  /\ producer' = [producer EXCEPT !.pc = "pending"] /\ done' = [done EXCEPT ![1] = "error"]
  /\ UNCHANGED <<upScope, hop, libvm, monVars, guestVars>>

AbortProducer == producer' = [producer EXCEPT !.pc = "gone"]

\* upload_file: the answer comes first.
LibraryAnswered ==
  /\ libvm.pc \in {"select", "await"} /\ answered(1)
  /\ libvm' = [pc |-> "done", result |-> IF hop[1].reset THEN "error" ELSE hop[1].reply]
  /\ hop' = DropSender(1, {"guard", "producer"}) /\ AbortProducer
  /\ UNCHANGED <<upScope, monVars, done, guestVars>>

\* upload_file: the producer is done first; only then may the stream end.
LibraryProduced ==
  /\ libvm.pc = "select" /\ done[1] = "ok"
  /\ libvm' = [libvm EXCEPT !.pc = "await"] /\ hop' = DropSender(1, {"guard"})
  /\ UNCHANGED <<upScope, producer, monVars, done, guestVars>>

\* upload_file: the producer failed: the call is dropped before the senders.
LibraryDropsCall ==
  /\ \/ libvm.pc = "select" /\ done[1] = "error" /\ libvm' = [pc |-> "drop", result |-> "error"]
     \/ may("caller") /\ libvm.pc \in {"select", "await"} /\ libvm' = [pc |-> "drop", result |-> "cancelled"]
  /\ hop' = Cut(1)
  /\ UNCHANGED <<upScope, producer, monVars, done, guestVars>>

LibraryDropsSenders ==
  /\ libvm.pc = "drop"
  /\ libvm' = [libvm EXCEPT !.pc = "done"]
  /\ hop' = DropSender(1, {"guard", "producer"}) /\ AbortProducer
  /\ UNCHANGED <<upScope, monVars, done, guestVars>>

-----------------------------------------------------------------------------
(* The monitor. *)

\* The handler returns or is dropped: its locals go, the call to the guest before the senders of its stream.
ProxyLeaves(reply, cutting) ==
  /\ proxy' = "done" /\ relay' = "gone"
  /\ hop' = [hop EXCEPT ![1].reply = IF hop[1].reset THEN @ ELSE reply, ![1].queue = <<>>,
                        ![2].reset = IF cutting /\ hop[2].reply = "none" THEN TRUE ELSE @,
                        ![2].queue = IF cutting THEN <<>> ELSE @, ![2].senders = {}]

\* upload_file: the header is validated and queued, and the relay task started, before the guest is connected.
ProxyHeader ==
  /\ proxy = "header" /\ available(1)
  /\ hop' = [Taken(1) EXCEPT ![2] = [OpenHop EXCEPT !.queue = <<0>>]]
  /\ proxy' = "connect" /\ relay' = "relay"
  /\ UNCHANGED <<upScope, libVars, done, guestVars>>

\* The header did not come in time, the stream was cut, or no guest could be connected.
ProxyGivesUp ==
  /\ \/ proxy = "header" /\ (may("timeout") \/ hop[1].reset \/ ended(1))
     \/ proxy = "connect" /\ (may("connect"))
  /\ ProxyLeaves("error", TRUE)
  /\ UNCHANGED <<upScope, libVars, done, guestVars>>

ProxyConnects ==
  /\ proxy = "connect" /\ agent = "idle"
  /\ proxy' = "select" /\ agent' = "header"
  /\ UNCHANGED <<upScope, hop, libVars, relay, done, upJob, written, temporary, target, history>>

\* The relay task: a chunk is taken and sent on; its end and its errors go through the completion channel.
RelayChunk ==
  /\ relay = "relay" /\ available(1) /\ takes(2) /\ hasRoom(2)
  /\ hop' = [Taken(1) EXCEPT ![2].queue = Append(@, Head(hop[1].queue))]
  /\ UNCHANGED <<upScope, libVars, monVars, done, guestVars>>

RelayEnds ==
  /\ relay = "relay" /\ ended(1)
  /\ relay' = "gone" /\ hop' = DropSender(2, {"producer"}) /\ done' = [done EXCEPT ![2] = "ok"]
  /\ UNCHANGED <<upScope, libVars, proxy, guestVars>>

RelayFails ==
  /\ relay = "relay"
  /\ \/ (may("timeout") \/ hop[1].reset) /\ done' = [done EXCEPT ![2] = "error"]
     \/ available(1) /\ ~takes(2) /\ done' = [done EXCEPT ![2] = "stopped"]
  /\ relay' = "pending"
  /\ UNCHANGED <<upScope, hop, libVars, proxy, guestVars>>

ProxyProduced ==
  /\ proxy = "select" /\ done[2] = "ok"
  /\ proxy' = "await" /\ hop' = DropSender(2, {"guard"})
  /\ UNCHANGED <<upScope, libVars, relay, done, guestVars>>

\* The guest stopped taking: its answer is awaited, and is an error whatever it says.
ProxyRelayStopped ==
  /\ proxy = "select" /\ done[2] = "stopped"
  /\ proxy' = "stopped" /\ relay' = "gone" /\ hop' = DropSender(2, {"guard", "producer"})
  /\ UNCHANGED <<upScope, libVars, done, guestVars>>

ProxyCutsSendersFirst ==
  /\ \/ proxy = "select" /\ done[2] = "error"
     \/ proxy \in {"select", "await", "stopped", "connect"} /\ hop[1].reset
  /\ proxy' = "cut" /\ relay' = "gone"
  /\ hop' = DropSender(2, {"guard", "producer"})
  /\ UNCHANGED <<upScope, libVars, done, guestVars>>

\* The relay failed, or the library dropped the call: the call to the guest is dropped first.
ProxyCuts ==
  /\ \/ proxy = "select" /\ done[2] = "error"
     \/ proxy \in {"select", "await", "stopped", "connect"} /\ hop[1].reset
  /\ proxy' = "cut" /\ hop' = Cut(2)
  /\ UNCHANGED <<upScope, libVars, relay, done, guestVars>>

ProxyCutDone ==
  /\ proxy = "cut" /\ ProxyLeaves("error", TRUE)
  /\ UNCHANGED <<upScope, libVars, done, guestVars>>

\* The guest answered, or the call to it timed out.
ProxyAnswered ==
  /\ proxy \in {"select", "await", "stopped"} /\ (answered(2) \/ may("timeout"))
  /\ ProxyLeaves(IF proxy = "stopped" \/ ~answered(2) \/ hop[2].reset THEN "error" ELSE hop[2].reply, TRUE)
  /\ UNCHANGED <<upScope, libVars, done, guestVars>>

-----------------------------------------------------------------------------
(* The guest agent. *)

\* The handler returns or is dropped, and its Upload with it unless a blocking job has it.
AgentLeaves(reply) ==
  /\ agent' = "done"
  /\ hop' = IF takes(2) THEN Reply(2, reply) ELSE hop
  /\ upJob' = [upJob EXCEPT !.detached = @ \/ upJob.step # "none"]
  /\ temporary' = (temporary /\ upJob.step # "none")
  /\ UNCHANGED <<upScope, libVars, monVars, done, written, target, history>>

\* run_blocking: the job goes on when the handler has stopped waiting for it.
StartJob(step) == upJob' = [step |-> step, detached |-> FALSE]

JobEnds(next) ==
  /\ upJob' = [step |-> "none", detached |-> FALSE]
  /\ agent' = IF upJob.detached THEN agent ELSE next

\* The job's result is the answer, if the handler still waits.
JobAnswers(reply) ==
  /\ JobEnds("done")
  /\ hop' = IF ~upJob.detached /\ takes(2) THEN Reply(2, reply) ELSE hop

AgentTakes(pc, next, step) ==
  /\ agent = pc /\ available(2)
  /\ hop' = Taken(2) /\ agent' = next /\ StartJob(step)
  /\ UNCHANGED <<upScope, libVars, monVars, done, written, temporary, target, history>>

AgentHeader == AgentTakes("header", "prepare", "prepare")

AgentWrites == AgentTakes("receive", "write", "write")

\* The request stream has ended: commit.
AgentCommits ==
  /\ agent = "receive" /\ ended(2)
  /\ agent' = "commit" /\ StartJob("attributes")
  /\ UNCHANGED <<upScope, hop, libVars, monVars, done, written, temporary, target, history>>

\* A deadline passes, the stream fails, or the reset of the call drops the handler.
AgentGivesUp ==
  /\ agent \in {"header", "prepare", "receive", "write", "commit"}
  /\ may("timeout") \/ hop[2].reset \/ (agent = "header" /\ ended(2))
  /\ AgentLeaves("error")

\* A step fails, or the path is a directory; the Upload is dropped and takes its temporary file with it.
JobFails ==
  /\ \/ upJob.step # "none" /\ may("io")
     \/ upJob.step \in {"prepare", "rename", "replace"} /\ target.kind = "dir"
  /\ JobAnswers("error") /\ temporary' = FALSE
  /\ UNCHANGED <<upScope, libVars, monVars, done, written, target, history>>

\* prepare_upload: a temporary file of a new name beside the path.
PrepareUpload ==
  /\ upJob.step = "prepare" /\ target.kind # "dir"
  /\ JobEnds("receive") /\ temporary' = ~upJob.detached /\ written' = 0
  /\ UNCHANGED <<upScope, hop, libVars, monVars, done, target, history>>

WriteChunk ==
  /\ upJob.step = "write"
  /\ JobEnds("receive") /\ temporary' = ~upJob.detached /\ written' = written + 1
  /\ UNCHANGED <<upScope, hop, libVars, monVars, done, target, history>>

\* Upload::commit: attributes and sync, a rename that does not replace, and, when that finds a file there, its
\* attributes and a rename that does.
Attributes ==
  /\ \/ upJob.step = "attributes" /\ upJob' = [upJob EXCEPT !.step = "rename"]
     \/ upJob.step = "rename" /\ target.kind = "file" /\ upJob' = [upJob EXCEPT !.step = "replace"]
  /\ UNCHANGED <<upScope, hop, libVars, monVars, done, agent, written, temporary, target, history>>

Rename ==
  /\ \/ upJob.step = "rename" /\ target.kind = "absent"
     \/ upJob.step = "replace" /\ target.kind # "dir"
  /\ target' = FileWith(written) /\ temporary' = FALSE
  /\ history' = [history EXCEPT !.commits = @ \cup {[content |-> written, over |-> target.kind]}]
  /\ JobAnswers(IF upJob.step = "replace" THEN "replaced" ELSE "created")
  /\ UNCHANGED <<upScope, libVars, monVars, done, written>>

-----------------------------------------------------------------------------
(* The environment: other requests on the path, and the end of the guest. *)

Others ==
  /\ may("others")
  /\ \/ target.kind = "absent" /\ target' \in {Other, Directory}
     \/ target.kind # "absent" /\ target' = Absent
  /\ history.commits = {}
  /\ UNCHANGED <<upScope, hop, libVars, monVars, done, agent, upJob, written, temporary, history>>

GuestEnds ==
  /\ may("crash") /\ agent \notin {"idle", "done"}
  /\ agent' = "done" /\ upJob' = [step |-> "none", detached |-> FALSE]
  /\ hop' = IF takes(2) THEN Cut(2) ELSE hop
  /\ history' = [history EXCEPT !.left = temporary]
  /\ UNCHANGED <<upScope, libVars, monVars, done, written, temporary, target>>

UpNext ==
  \/ ProducerSends \/ ProducerEnds \/ ProducerFails
  \/ LibraryAnswered \/ LibraryProduced \/ LibraryDropsCall \/ LibraryDropsSenders
  \/ ProxyHeader \/ ProxyGivesUp \/ ProxyConnects \/ RelayChunk \/ RelayEnds \/ RelayFails
  \/ ProxyProduced \/ ProxyRelayStopped \/ ProxyCuts \/ ProxyCutDone \/ ProxyAnswered
  \/ AgentHeader \/ AgentWrites \/ AgentCommits \/ AgentGivesUp \/ JobFails
  \/ PrepareUpload \/ WriteChunk \/ Attributes \/ Rename
  \/ Others \/ GuestEnds

UpSpec == UpInit /\ [][UpNext]_upVars

-----------------------------------------------------------------------------
Over == /\ libvm.pc = "done" /\ proxy = "done" /\ agent \in {"idle", "done"} /\ upJob.step = "none"
        /\ producer.pc = "gone" /\ relay \in {"unborn", "gone"}

(***************************************************************************)
(* Whatever fails, is cut, times out or is cancelled at any of the three    *)
(* places: what is renamed onto the guest's path is the whole file, an      *)
(* upload the caller is told of as done was committed once, one whose       *)
(* reader failed never is; no hop waits for ever on another; and when all    *)
(* is over neither task nor temporary file is left, unless the guest ended.  *)
(***************************************************************************)
UploadIsWhole ==
  /\ \A c \in history.commits : c.content = Chunks /\ c.over # "dir"
  /\ libvm.result \in {"created", "replaced"} => Cardinality(history.commits) = 1
  /\ done[1] = "error" /\ producer.next <= Chunks /\ may("reader") => history.commits = {}
  /\ ENABLED UpNext \/ Over
  /\ Over => temporary = history.left

==============================================================================
