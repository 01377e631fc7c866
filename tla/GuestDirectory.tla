---------------------------- MODULE GuestDirectory ----------------------------
(***************************************************************************)
(* Directories of the guest: paged listing, creation with parents and        *)
(* recursive removal, as blocking jobs of the agent that hold descriptors    *)
(* of directories while other jobs change the tree.  One directory "d" with  *)
(* entries 1, 2, ... in the order of their names; a directory that was        *)
(* removed and made again is a new inode.  The path rules of the library, of  *)
(* the monitor and of the agent are here too.                               *)
(***************************************************************************)
EXTENDS Integers, Sequences, SequencesExt, FiniteSets

CONSTANTS DirJobs,     \* requests
          PageLimit,
          Inodes,   \* incarnations of "d", 1..k
          MaxParts, \* components of a path
          DirScopes \* [jobs: requests, first: entries at first, restart]

VARIABLES dirScope,
          root,     \* the inode "d" names, 0 for none
          entries,  \* entries[i]: of a directory inode
          dead,     \* inodes that were removed
          instance, \* of the agent
          step, fd, names, \* of a job: where it is, its directory, the names it read
          answer,   \* of a job
          listing,  \* of the caller that pages through "d": [cursor, seen, state]
          always,   \* history: entries of "d" since the listing began
          ever

dirVars == <<dirScope, root, entries, dead, instance, step, fd, names, answer, listing, always, ever>>
dirJobVars == <<step, fd, names, answer>>
listVars == <<listing, always, ever>>
treeVars == <<root, entries, dead>>

req(j) == dirScope.jobs[j]
jobsOf == DOMAIN dirScope.jobs
NoCursor == [instance |-> 0, name |-> 0]

DirInit ==
  /\ dirScope \in DirScopes
  /\ root = 1 /\ dead = {} /\ instance = 1
  /\ entries = [i \in Inodes |-> IF i = 1 THEN dirScope.first ELSE {}]
  /\ step = [j \in DirJobs |-> IF j \in DOMAIN dirScope.jobs THEN "start" ELSE "done"]
  /\ fd = [j \in DirJobs |-> 0] /\ names = [j \in DirJobs |-> {}] /\ answer = [j \in DirJobs |-> "none"]
  /\ listing = [cursor |-> NoCursor, seen |-> <<>>, state |-> "ask"]
  /\ always = dirScope.first /\ ever = dirScope.first

-----------------------------------------------------------------------------
(* Paths: whether they are absolute, and their parts behind the first slash.  *)

PathParts == {"", ".", "..", "name", "long"}
Paths == [absolute : BOOLEAN, parts : UNION {[1..n -> PathParts] : n \in 1..MaxParts}]
isRoot(p) == p.absolute /\ p.parts = <<"">>
bad(p, S) == \E i \in DOMAIN p.parts : p.parts[i] \in S
trailing(p) == Len(p.parts) > 1 /\ p.parts[Len(p.parts)] = ""

\* validate_path and reject_root of the library.
libraryAccepts(p, rootAllowed) ==
  /\ p.absolute
  /\ isRoot(p) \/ ~(trailing(p) \/ bad(p, {"", ".", "..", "long"}))
  /\ isRoot(p) => rootAllowed

\* validate_path of the monitor.
monitorAccepts(p, rootAllowed) ==
  /\ p.absolute
  /\ IF isRoot(p) THEN rootAllowed ELSE ~trailing(p) /\ ~bad(p, {"", ".", "..", "long"})

\* resolve and reject_root of the agent: no double slash, no slash at the end, no long or dot part.
agentAccepts(p, rootAllowed) ==
  /\ p.absolute /\ ~trailing(p)
  /\ \A i \in DOMAIN p.parts : p.parts[i] = "" => i = Len(p.parts)
  /\ isRoot(p) \/ ~bad(p, {".", "..", "long"})
  /\ isRoot(p) => rootAllowed

-----------------------------------------------------------------------------
Step(j, s) == step' = [step EXCEPT ![j] = s]
Answers(j, a) == step' = [step EXCEPT ![j] = "done"] /\ answer' = [answer EXCEPT ![j] = IF @ = "none" THEN a ELSE @]

\* A change of the tree, with what the listing may and must show of it.
Change(i, S) ==
  /\ entries' = [entries EXCEPT ![i] = S]
  /\ always' = IF i = root THEN always \cap S ELSE always
  /\ ever' = IF i = root THEN ever \cup S ELSE ever

\* open_create_parent: "d" is opened, and made first when it is missing and parents were asked for.
OpenParent(j) ==
  /\ step[j] = "start" /\ req(j).op = "create"
  /\ \/ root # 0 /\ fd' = [fd EXCEPT ![j] = root] /\ Step(j, "stat") /\ UNCHANGED <<root, answer>>
     \/ /\ root = 0 /\ req(j).parents /\ \E i \in Inodes \ dead : root' = i
        /\ fd' = fd /\ Step(j, "start") /\ UNCHANGED answer
     \/ root = 0 /\ ~req(j).parents /\ Answers(j, "missing") /\ UNCHANGED <<root, fd>>
  /\ UNCHANGED <<dirScope, entries, dead, instance, names, listVars>>

\* create_directory_at: looked up, then made; a maker that comes second finds it there.
LookUp(j) ==
  /\ step[j] = "stat" /\ req(j).op = "create"
  /\ Step(j, IF req(j).name \in entries[fd[j]] THEN "exists" ELSE "mkdir")
  /\ UNCHANGED <<dirScope, treeVars, instance, fd, names, answer, listVars>>


MakeDirectory(j) ==
  /\ step[j] = "mkdir"
  /\ \/ fd[j] \in dead /\ Answers(j, "missing") /\ UNCHANGED <<entries, always, ever>>
     \/ fd[j] \notin dead /\ req(j).name \in entries[fd[j]] /\ Step(j, "exists") /\ UNCHANGED <<entries, always, ever, answer>>
     \/ /\ fd[j] \notin dead /\ req(j).name \notin entries[fd[j]] /\ Step(j, "made") /\ UNCHANGED answer
        /\ Change(fd[j], entries[fd[j]] \cup {req(j).name})
  /\ UNCHANGED <<dirScope, root, dead, instance, fd, names, listing>>

\* What was found or made is opened, checked and, when made, given its attributes.
OpenMade(j) ==
  /\ step[j] \in {"exists", "made"}
  /\ Answers(j, IF req(j).name \notin entries[fd[j]] THEN "missing" ELSE IF step[j] = "made" THEN "created" ELSE "exists")
  /\ UNCHANGED <<dirScope, treeVars, instance, fd, names, listVars>>

\* remove_at "d", recursively or not; remove_directory_contents takes the entries one by one.
OpenVictim(j) ==
  /\ step[j] = "start" /\ req(j).op = "remove"
  /\ \/ root = 0 /\ Answers(j, "missing") /\ UNCHANGED fd
     \/ root # 0 /\ fd' = [fd EXCEPT ![j] = root] /\ Step(j, IF req(j).recursive THEN "empty" ELSE "rmdir") /\ UNCHANGED answer
  /\ names' = [names EXCEPT ![j] = IF root = 0 THEN {} ELSE entries[root]]
  /\ UNCHANGED <<dirScope, treeVars, instance, listVars>>

RemoveEntry(j) ==
  /\ step[j] = "empty" /\ names[j] # {}
  /\ \E n \in names[j] :
       /\ names' = [names EXCEPT ![j] = @ \ {n}]
       /\ IF n \in entries[fd[j]] THEN Change(fd[j], entries[fd[j]] \ {n}) /\ UNCHANGED <<step, answer>>
          ELSE Answers(j, "missing") /\ UNCHANGED <<entries, always, ever>>
  /\ UNCHANGED <<dirScope, root, dead, instance, fd, listing>>

RemoveDirectory(j) ==
  /\ step[j] = "rmdir" \/ (step[j] = "empty" /\ names[j] = {})
  /\ \/ root = 0 /\ Answers(j, "missing") /\ UNCHANGED <<root, dead, always>>
     \/ root # 0 /\ entries[root] # {} /\ Answers(j, "not empty") /\ UNCHANGED <<root, dead, always>>
     \/ root # 0 /\ entries[root] = {} /\ root' = 0 /\ dead' = dead \cup {root} /\ Answers(j, "removed") /\ UNCHANGED always
  /\ UNCHANGED <<dirScope, entries, instance, fd, names, listing, ever>>

-----------------------------------------------------------------------------
(* list: the directory is opened and read, the names behind the cursor are   *)
(* sorted, a page of them is looked up; the cursor names the agent's         *)
(* instance and the last entry.                                             *)

ListRead(j) ==
  /\ step[j] = "start" /\ req(j).op = "list" /\ listing.state = "ask"
  /\ IF listing.cursor # NoCursor /\ listing.cursor.instance # instance
     THEN Answers(j, "expired") /\ listing' = [listing EXCEPT !.state = "failed"] /\ UNCHANGED <<fd, names>>
     ELSE IF root = 0 THEN Answers(j, "missing") /\ listing' = [listing EXCEPT !.state = "failed"] /\ UNCHANGED <<fd, names>>
     ELSE /\ Step(j, "page") /\ fd' = [fd EXCEPT ![j] = root]
          /\ names' = [names EXCEPT ![j] = {n \in entries[root] : n > listing.cursor.name}]
          /\ UNCHANGED <<answer, listing>>
  /\ UNCHANGED <<dirScope, treeVars, instance, always, ever>>

pageOf(S) == SubSeq(SetToSortSeq(S, LAMBDA a, b : a < b), 1, IF Cardinality(S) < PageLimit THEN Cardinality(S) ELSE PageLimit)

cursorAfter(S) == IF Cardinality(S) > PageLimit THEN [instance |-> instance, name |-> Last(pageOf(S))] ELSE NoCursor

\* validate_directory_page of the monitor.
pageIsValid(p) == Len(p) <= PageLimit /\ \A i \in 1..(Len(p) - 1) : p[i] < p[i + 1]

ListPage(j) ==
  /\ step[j] = "page"
  /\ LET page == pageOf(names[j]) IN
     IF \E i \in DOMAIN page : page[i] \notin entries[fd[j]]
     THEN Answers(j, "missing") /\ listing' = [listing EXCEPT !.state = "failed"]
     ELSE IF ~pageIsValid(page) THEN Answers(j, "invalid page") /\ listing' = [listing EXCEPT !.state = "failed"]
     ELSE IF cursorAfter(names[j]) = NoCursor
          THEN Answers(j, "listed") /\ listing' = [listing EXCEPT !.seen = @ \o page, !.state = "complete"]
          ELSE Step(j, "start") /\ UNCHANGED answer
               /\ listing' = [listing EXCEPT !.seen = @ \o page, !.cursor = cursorAfter(names[j])]
  /\ UNCHANGED <<dirScope, treeVars, instance, fd, names, always, ever>>

-----------------------------------------------------------------------------
\* METADATA_TIMEOUT: the caller stops waiting, the blocking job goes on.
MetadataTimeout(j) ==
  /\ dirScope.timeout /\ step[j] # "done" /\ answer[j] = "none" /\ req(j).op # "list"
  /\ answer' = [answer EXCEPT ![j] = "timed out"]
  /\ UNCHANGED <<dirScope, treeVars, instance, step, fd, names, listVars>>

\* The agent is restarted: jobs end where they are, cursors expire.
AgentRestarts ==
  /\ dirScope.restart /\ instance = 1 /\ instance' = 2
  /\ step' = [j \in DirJobs |-> IF step[j] # "done" /\ req(j).op # "list" THEN "done" ELSE IF step[j] = "page" THEN "start" ELSE step[j]]
  /\ answer' = [j \in DirJobs |-> IF step[j] # "done" /\ req(j).op # "list" /\ answer[j] = "none" THEN "lost" ELSE answer[j]]
  /\ UNCHANGED <<dirScope, treeVars, fd, names, listVars>>

DirNext ==
  \/ \E j \in jobsOf :
       \/ OpenParent(j) \/ LookUp(j) \/ MakeDirectory(j) \/ OpenMade(j)
       \/ OpenVictim(j) \/ RemoveEntry(j) \/ RemoveDirectory(j)
       \/ ListRead(j) \/ ListPage(j) \/ MetadataTimeout(j)
  \/ AgentRestarts

DirSpec == DirInit /\ [][DirNext]_dirVars

PathsAgree ==
  \A p \in Paths, r \in BOOLEAN : libraryAccepts(p, r) = monitorAccepts(p, r) /\ libraryAccepts(p, r) = agentAccepts(p, r)

==============================================================================
