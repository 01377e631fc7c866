------------------------------- MODULE VmSpecs -------------------------------
(***************************************************************************)
(* The validity of a VM specification: specs/vm-spec (vsock, mounts) and   *)
(* specs/forward-spec (forwards), which libvm applies to every spec it     *)
(* stores and the monitor to every spec it reads.                          *)
(*                                                                         *)
(* An endpoint is [side, form, at]: side "host", "guest" or "vsock", form  *)
(* "tcp", "unix" or "port"; at is the port, or the path as [text, listens  *)
(* (the name is <mux>_<port>), absolute, normal (one component)].          *)
(* A mount tag is [text, n, long, absolute]; the tags Silo generates are   *)
(* the ones with text "generated", told apart by n.                        *)
(***************************************************************************)
EXTENDS Integers, Sequences, FiniteSets, SequencesExt

RESERVED_RUNTIME_FILENAMES == {"vm.sock", "vm.pid", "vm.lock", "krun.vsock"}
DEFAULT_VSOCK_MUX_FILENAME == "vsock.sock"
RESERVED_LISTEN_PORTS == {1027, 1028}

PathAt(text, absolute) == [text |-> text, listens |-> "", absolute |-> absolute, normal |-> TRUE]
Tcp(side, port) == [side |-> side, form |-> "tcp", port |-> port, path |-> PathAt("", FALSE)]
Unix(side, path) == [side |-> side, form |-> "unix", port |-> 0, path |-> path]
VsockPort(port) == [side |-> "vsock", form |-> "port", port |-> port, path |-> PathAt("", FALSE)]
Forward(name, listen, connect) == [name |-> name, listen |-> listen, connect |-> connect, mode |-> {}]

\* forward.rs Forward::validate, one forward by itself.
ForwardValid(f) ==
    /\ <<f.listen.side, f.connect.side>> \in
          {<<"host", "guest">>, <<"host", "vsock">>, <<"guest", "host">>, <<"vsock", "host">>}
    /\ f.listen.side = "vsock" => f.listen.port \notin RESERVED_LISTEN_PORTS
    /\ f.connect.form = "tcp" => f.connect.port # 0
    /\ \A e \in {f.listen, f.connect} :
          /\ e.side = "guest" /\ e.form = "unix" => e.path.absolute
          /\ e.side = "host" /\ e.form = "unix" => e.path.absolute \/ e.path.normal
    /\ f.mode # {} => f.listen.form = "unix"

\* A relative path of the host is a file of the machine's runtime directory.
validate_runtime_path(e, mux) ==
    e.side = "host" /\ e.form = "unix" /\ ~e.path.absolute =>
        /\ e.path.text \notin RESERVED_RUNTIME_FILENAMES
        /\ {e.path.text, e.path.listens} \cap mux = {}

validate_forwards(forwards, mux) ==
    /\ \A i \in DOMAIN forwards :
          /\ ForwardValid(forwards[i])
          /\ validate_runtime_path(forwards[i].listen, mux)
          /\ validate_runtime_path(forwards[i].connect, mux)
    /\ \A i, j \in DOMAIN forwards : i # j =>
          /\ forwards[i].name \cap forwards[j].name = {}
          /\ forwards[i].listen.form \in {"port", "unix"} => forwards[i].listen # forwards[j].listen

\* vm-spec lib.rs: the vsock of a spec is {} or {[enabled, uds]}.
VsockValid(vsock) ==
    \A v \in vsock : /\ v.uds # {} => v.enabled
                     /\ v.uds \cap RESERVED_RUNTIME_FILENAMES = {}
effective_vsock_enabled(vsock) == \E v \in vsock : v.enabled
effective_vsock_filename(vsock) ==
    UNION {IF v.uds = {} THEN {DEFAULT_VSOCK_MUX_FILENAME} ELSE v.uds : v \in {w \in vsock : w.enabled}}

-----------------------------------------------------------------------------
(* Mounts: a tag that is too long for virtiofs is replaced by a generated one. *)

Generated(n) == [text |-> "generated", n |-> n, long |-> FALSE, absolute |-> FALSE]

MountsValid(mounts) ==
    /\ \A i \in DOMAIN mounts : mounts[i].tag.text # ""
    /\ \A i, j \in DOMAIN mounts : i # j => mounts[i].tag # mounts[j].tag

ShortTags(mounts) == {mounts[i].tag : i \in {k \in DOMAIN mounts : ~mounts[k].tag.long}}

project_mounts(mounts) ==
    LET fresh(acc) == CHOOSE n \in acc.next..(acc.next + Len(mounts)) :
                          /\ Generated(n) \notin acc.reserved
                          /\ \A k \in acc.next..(n - 1) : Generated(k) \in acc.reserved
        project(acc, m) ==
            LET tag == IF m.tag.long THEN Generated(fresh(acc)) ELSE m.tag
            IN [next |-> IF m.tag.long THEN fresh(acc) + 1 ELSE acc.next,
                reserved |-> acc.reserved \cup {tag},
                out |-> Append(acc.out, [source |-> m.source, backend |-> tag,
                                         guest |-> IF m.tag.absolute THEN m.tag.text ELSE m.source])]
    IN FoldLeft(project, [next |-> 0, reserved |-> ShortTags(mounts), out |-> <<>>], mounts).out

-----------------------------------------------------------------------------
\* VmSpec::validate
SpecValid(spec) ==
    /\ VsockValid(spec.vsock)
    /\ MountsValid(spec.mounts)
    /\ validate_forwards(spec.forwards, effective_vsock_filename(spec.vsock))
=============================================================================
