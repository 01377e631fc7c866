----------------------------- MODULE FileDownload -----------------------------
(***************************************************************************)
(* Downloads of a guest file.  A task of the guest agent reads the file in  *)
(* blocking jobs and a task of the monitor relays the chunks; each has a     *)
(* bounded channel to its reader, a permit of its service, deadlines, and a  *)
(* delivery slot per chunk, one fewer than the channel has room.            *)
(***************************************************************************)
EXTENDS Integers, Sequences, SequencesExt, FiniteSets

CONSTANTS Callers,       \* concurrent downloads
          FileChunks,    \* chunks of the file
          MaxTransfer,   \* chunks a transfer may have (MAX_UPLOAD_BYTES, MAX_TRANSFER_BYTES)
          RelayCapacity, \* room of a channel (RELAY_CAPACITY)
          Capacity,      \* permits of each service
          DlScopes       \* [callers, faults]

Hops == {"guest", "monitor"} \* who sends
NoStream == [items |-> <<>>, open |-> FALSE, read |-> FALSE]

VARIABLES dlScope,
          stream,  \* stream[d][h]: the channel of the task of h: [items, open: it has its sender, read: its reader lives]
          task,    \* task[d][h]: none, read, slot, fail, stopped
          permit,  \* permit[h]: the downloads that hold a permit
          reading, \* downloads whose blocking read goes on
          sent,    \* sent[d][h]: chunks passed by a task
          reader   \* reader[d]: what the caller got and how it ended

dlVars == <<dlScope, stream, task, permit, reading, sent, reader>>

dlMay(f) == f \in dlScope.faults

DlInit ==
  /\ dlScope \in DlScopes
  /\ stream = [d \in Callers |-> [h \in Hops |-> NoStream]]
  /\ task = [d \in Callers |-> [h \in Hops |-> "none"]]
  /\ permit = [h \in Hops |-> {}] /\ reading = {}
  /\ sent = [d \in Callers |-> [h \in Hops |-> 0]]
  /\ reader = [d \in Callers |-> [got |-> <<>>, end |-> IF d \in dlScope.callers THEN "asking" ELSE "absent"]]

\* admit, on both sides; a failed admission, open or connect is the answer of the call.
Ask(d) ==
  /\ reader[d].end = "asking"
  /\ \/ /\ \A h \in Hops : Cardinality(permit[h]) < Capacity
        /\ permit' = [h \in Hops |-> permit[h] \cup {d}]
        /\ task' = [task EXCEPT ![d] = [h \in Hops |-> "read"]]
        /\ stream' = [stream EXCEPT ![d] = [h \in Hops |-> [items |-> <<>>, open |-> TRUE, read |-> TRUE]]]
        /\ reader' = [reader EXCEPT ![d].end = "reading"]
        /\ reading' = reading \cup {d}
     \/ /\ (\E h \in Hops : Cardinality(permit[h]) >= Capacity) \/ dlMay("io")
        /\ reader' = [reader EXCEPT ![d].end = "refused"]
        /\ UNCHANGED <<permit, task, stream, reading>>
  /\ UNCHANGED <<dlScope, sent>>

\* The end of a task: its sender goes, the monitor's also drops the guest's stream.
Stop(d, h, items) ==
  /\ task' = [task EXCEPT ![d][h] = "stopped"]
  /\ LET s == [stream EXCEPT ![d][h].open = FALSE, ![d][h].items = items]
     IN stream' = IF h = "guest" THEN s ELSE [s EXCEPT ![d]["guest"].read = FALSE, ![d]["guest"].items = <<>>]
  /\ permit' = [permit EXCEPT ![h] = @ \ (IF h = "guest" /\ d \in reading' THEN {} ELSE {d})]

\* read_download_chunk in a blocking job: a chunk, the end of the file, or an error.
ReadChunk(d) ==
  /\ task[d]["guest"] = "read" /\ d \in reading
  /\ reading' = reading \ {d}
  /\ \/ /\ sent[d]["guest"] < FileChunks
        /\ task' = [task EXCEPT ![d]["guest"] = IF sent[d]["guest"] < MaxTransfer THEN "slot" ELSE "fail"]
        /\ UNCHANGED <<stream, permit>>
     \/ sent[d]["guest"] = FileChunks /\ Stop(d, "guest", stream[d]["guest"].items)
     \/ dlMay("io") /\ task' = [task EXCEPT ![d]["guest"] = "fail"] /\ UNCHANGED <<stream, permit>>
  /\ UNCHANGED <<dlScope, sent, reader>>

\* A blocking read nobody waits for any more ends, and with it its share of the permit.
LateRead(d) ==
  /\ task[d]["guest"] = "stopped" /\ d \in reading
  /\ reading' = reading \ {d} /\ permit' = [permit EXCEPT !["guest"] = @ \ {d}]
  /\ UNCHANGED <<dlScope, stream, task, sent, reader>>

\* The relay takes what the guest's stream gives; the stream of a guest that is gone gives an error.
TakeChunk(d) ==
  LET s == stream[d]["guest"] IN
  /\ task[d]["monitor"] = "read"
  /\ \/ /\ s.items # <<>>
        /\ task' = [task EXCEPT ![d]["monitor"] = IF Head(s.items) = 0 THEN "fail" ELSE "slot"]
        /\ stream' = [stream EXCEPT ![d]["guest"].items = Tail(@)]
        /\ permit' = [permit EXCEPT !["monitor"] = IF Head(s.items) = 0 THEN @ \ {d} ELSE @]
        /\ UNCHANGED reading
     \/ s.items = <<>> /\ ~s.open /\ UNCHANGED reading /\ Stop(d, "monitor", stream[d]["monitor"].items)
     \/ /\ dlMay("crash") /\ task' = [task EXCEPT ![d]["monitor"] = "fail"]
        /\ permit' = [permit EXCEPT !["monitor"] = @ \ {d}] /\ UNCHANGED <<reading, stream>>
  /\ UNCHANGED <<dlScope, sent, reader>>

slotsOfWholeChannel(d, h) == Len(SelectSeq(stream[d][h].items, LAMBDA i : i # 0)) < RelayCapacity

\* delivery_slots: a chunk in the channel holds one of RelayCapacity - 1 slots, so an error always has room.
slotIsFree(d, h) == Len(SelectSeq(stream[d][h].items, LAMBDA i : i # 0)) < RelayCapacity - 1

SendChunk(d, h) ==
  /\ task[d][h] = "slot" /\ slotIsFree(d, h) /\ Len(stream[d][h].items) < RelayCapacity
  /\ IF stream[d][h].read
     THEN /\ stream' = [stream EXCEPT ![d][h].items = Append(@, sent[d][h] + 1)]
          /\ sent' = [sent EXCEPT ![d][h] = @ + 1]
          /\ task' = [task EXCEPT ![d][h] = "read"]
          /\ reading' = IF h = "guest" THEN reading \cup {d} ELSE reading
          /\ UNCHANGED permit
     ELSE UNCHANGED <<reading, sent>> /\ Stop(d, h, <<>>)
  /\ UNCHANGED <<dlScope, reader>>

\* A deadline passes while a task waits for a chunk or for a slot; the monitor's gives its permit back first.
Deadline(d, h) ==
  /\ dlMay("stall") /\ task[d][h] \in {"read", "slot"}
  /\ task' = [task EXCEPT ![d][h] = "fail"]
  /\ permit' = IF h = "monitor" THEN [permit EXCEPT ![h] = @ \ {d}] ELSE permit
  /\ UNCHANGED <<dlScope, stream, reading, sent, reader>>

\* The last item of a task that failed.
SendError(d, h) ==
  /\ task[d][h] = "fail" /\ Len(stream[d][h].items) < RelayCapacity
  /\ UNCHANGED reading
  /\ Stop(d, h, IF stream[d][h].read THEN Append(stream[d][h].items, 0) ELSE <<>>)
  /\ UNCHANGED <<dlScope, sent, reader>>

\* poll_chunk: what the caller reads; it may also stop reading, or drop the stream.
Read(d) ==
  LET s == stream[d]["monitor"] IN
  /\ reader[d].end = "reading" /\ ~dlMay("stall")
  /\ \/ /\ s.items # <<>> /\ Head(s.items) # 0
        /\ reader' = [reader EXCEPT ![d].got = Append(@, Head(s.items))]
        /\ stream' = [stream EXCEPT ![d]["monitor"].items = Tail(@)]
     \/ s.items # <<>> /\ Head(s.items) = 0 /\ reader' = [reader EXCEPT ![d].end = "error"] /\ UNCHANGED stream
     \/ s.items = <<>> /\ ~s.open /\ reader' = [reader EXCEPT ![d].end = "eof"] /\ UNCHANGED stream
     \/ dlMay("drop") /\ reader' = [reader EXCEPT ![d].end = "dropped"]
        /\ stream' = [stream EXCEPT ![d]["monitor"] = [@ EXCEPT !.items = <<>>, !.read = FALSE]]
  /\ UNCHANGED <<dlScope, task, permit, reading, sent>>

DlNext == \E d \in Callers :
  \/ Ask(d) \/ ReadChunk(d) \/ LateRead(d) \/ TakeChunk(d) \/ Read(d)
  \/ \E h \in Hops : SendChunk(d, h) \/ Deadline(d, h) \/ SendError(d, h)

DlSpec == DlInit /\ [][DlNext]_dlVars

-----------------------------------------------------------------------------
TasksAreOver == \A d \in Callers, h \in Hops : task[d][h] \in {"none", "stopped"}

(***************************************************************************)
(* A caller reads the file in order and without a gap, and is told the end   *)
(* of the stream only behind the last chunk: a read error, a passed          *)
(* deadline, a lost guest or a file over the limit is an error.  A caller    *)
(* that has stopped reading holds up no task for ever, and the tasks give    *)
(* their permits back.                                                      *)
(***************************************************************************)
DownloadIsWhole ==
  /\ \A d \in Callers :
       /\ IsPrefix(reader[d].got, [i \in 1..FileChunks |-> i])
       /\ reader[d].end = "eof" => Len(reader[d].got) = FileChunks
  /\ ENABLED DlNext \/ (TasksAreOver /\ reading = {} /\ \A h \in Hops : permit[h] = {})
==============================================================================
