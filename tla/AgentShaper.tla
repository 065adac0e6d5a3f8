----------------------------- MODULE AgentShaper -----------------------------
(***************************************************************************)
(* The agent's side of speed limits (node-agent/src/command_runner.py and   *)
(* shaper.py): one eBPF program on the node's interface enforces the        *)
(* node-wide shaper and the personal limits.  The agent remembers what it   *)
(* was told, and changes the kernel through shell scripts: a full install   *)
(* (or removal), or an update of the changed addresses only.               *)
(*                                                                         *)
(* Commands are handled one at a time, but a broken link cancels the one    *)
(* being handled: its script is not killed, runs on beside the script of    *)
(* the next command and works with the same filters and maps, command by    *)
(* command.  Bound: one script runs on at a time.                          *)
(***************************************************************************)
EXTENDS Naturals

CONSTANTS
    Clients,   \* client addresses
    Rates,     \* personal limits
    Free,      \* no personal limit
    Configs,   \* settings of the node-wide shaper
    Off,       \* the node-wide shaper switched off
    Gone       \* no program on the interface

ASSUME FreeAssumption == Free \notin Rates
ASSUME ConfigAssumption == Off \notin Configs /\ Gone \notin Configs \cup {Off}

Limits == [Clients -> Rates \cup {Free}]
NoLimits == [c \in Clients |-> Free]
General == Configs \cup {Off}

\* A script: a full install of (cfg, limits), or an update of the addresses
\* in changed to what limits says of them.
Script == [kind : {"apply", "update"}, cfg : General, limits : Limits, changed : SUBSET Clients]
NoScript == [kind |-> "none"]
NoCommand == [op |-> "none"]

VARIABLES
    general,   \* _shaper_general
    personal,  \* _shaper_personal
    loaded,    \* _shaper_loaded
    saved,     \* _shaper_state is not None
    command,   \* the command being handled and the script it awaits
    orphan,    \* a script nobody awaits any more, still running
    overlap,   \* ghost: two scripts have run at the same time, and one still does
    kernel,    \* what the node enforces, and which maps are pinned
    cleared,   \* ghost: the last command handled was an empty list, which succeeded
               \* while no other script ran
    sure,      \* ghost: nothing failed, was cancelled or was reset since the
               \* last full install that succeeded and ran alone
    stuck      \* ghost: addresses whose last removal failed unnoticed

vars == <<general, personal, loaded, saved, command, orphan, overlap, kernel, cleared, sure, stuck>>

\* The maps of the program on the interface are pinned, or those of another
\* load, which change nothing, or none.  epoch changes with every install: the
\* clients' counters and penalties of the program that stood before are gone.
Pins == {"own", "other", "none"}
Kernel == [prog : General \cup {Gone}, limits : Limits, pins : Pins, epoch : 0 .. 1]

TypeOK ==
    /\ general \in General
    /\ personal \in Limits
    /\ loaded \in BOOLEAN
    /\ saved \in BOOLEAN
    /\ command \in {NoCommand} \cup [op : {"sync", "set"}, script : Script]
    /\ orphan \in {NoScript} \cup Script
    /\ overlap \in BOOLEAN
    /\ kernel \in Kernel
    /\ cleared \in BOOLEAN
    /\ sure \in BOOLEAN
    /\ stuck \subseteq Clients

----------------------------------------------------------------------------
(* The scripts.                                                            *)

Nothing(e) == [prog |-> Gone, limits |-> NoLimits, pins |-> "none", epoch |-> e]

Apply(cfg, limits) ==
    [kind |-> "apply", cfg |-> cfg, limits |-> limits, changed |-> {}]

\* (Mutant: addresses that left the list are not deleted.)
UpdateAddsOnly(old, new) ==
    [kind |-> "update", cfg |-> Off, limits |-> new,
     changed |-> {c \in Clients : new[c] # Free /\ old[c] # new[c]}]

Update(old, new) ==
    [kind |-> "update", cfg |-> Off, limits |-> new,
     changed |-> {c \in Clients : old[c] # new[c]}]

\* build_apply_script, or build_disable_script when nothing is limited.
Installed(s, e) ==
    IF s.cfg = Off /\ s.limits = NoLimits
    THEN Nothing(e)
    ELSE [prog |-> s.cfg, limits |-> s.limits, pins |-> "own", epoch |-> e]

\* (Mutant: the map is replaced by the difference.)
UpdatedToDifference(k, s, part) == [k EXCEPT !.limits = [c \in part |-> s.limits[c]]]

\* build_personal_update_script, which has dealt with `part` only.
Updated(k, s, part) ==
    IF k.pins # "own" THEN k
    ELSE [k EXCEPT !.limits = [c \in Clients |-> IF c \in part THEN s.limits[c] ELSE k.limits[c]]]

\* The pins are missing: the update exits with RELOAD_EXIT.
MustReload(s) == s.kind = "update" /\ kernel.pins = "none"

\* The addresses an update deletes; a delete that fails is not noticed.
Deletes(s) == {c \in s.changed : s.limits[c] = Free}

\* What a script that fails or is killed may leave behind.  A failed install
\* has already taken the old filters off unless it stopped before that.
Failures(s) ==
    IF s.kind = "apply"
    THEN {kernel, Installed(s, 1 - kernel.epoch)}
            \cup {[Nothing(1 - kernel.epoch) EXCEPT !.pins = p] : p \in {"other", "none"}}
    ELSE {Updated(kernel, s, part) : part \in SUBSET s.changed}

Running ==
    (IF command = NoCommand THEN {} ELSE {command.script})
        \cup (IF orphan = NoScript THEN {} ELSE {orphan})

\* What scripts that run at the same time may leave behind, well or badly as
\* they end: each address as it was, free, or as one of them says, and the
\* program and the pins of any of them.
Mixtures ==
    LET installs == {s \in Running : s.kind = "apply"}
        limits == {l \in Limits : \A c \in Clients :
                      l[c] \in {kernel.limits[c], Free} \cup {s.limits[c] : s \in Running}}
    IN  IF installs = {}
        THEN {[kernel EXCEPT !.limits = l] : l \in limits}
        ELSE [prog : {kernel.prog, Gone} \cup {s.cfg : s \in installs},
              limits : limits, pins : Pins, epoch : 0 .. 1]

----------------------------------------------------------------------------
Init ==
    /\ general = Off
    /\ personal = NoLimits
    /\ loaded = FALSE
    /\ saved = FALSE
    /\ command = NoCommand
    /\ orphan = NoScript
    /\ overlap = FALSE
    /\ kernel = Nothing(0)
    /\ cleared = FALSE
    /\ sure = FALSE
    /\ stuck = {}

Handle(op, script) ==
    /\ command' = [op |-> op, script |-> script]
    /\ overlap' = (orphan # NoScript)

\* _sync_throttled_ips: the list replaces the previous one; only what differs
\* is changed while the program stands.
SyncThrottledIps(l) ==
    LET incremental == loaded /\ (general # Off \/ l # NoLimits)
        update == Update(personal, l)
    IN  /\ command = NoCommand
        /\ personal' = l
        /\ IF incremental /\ update.changed = {}
           THEN cleared' = (l = NoLimits /\ orphan = NoScript) /\ UNCHANGED <<command, overlap>>
           ELSE /\ cleared' = FALSE
                /\ Handle("sync", IF incremental THEN update ELSE Apply(general, l))
        /\ UNCHANGED <<general, loaded, saved, orphan, kernel, sure, stuck>>

\* (Mutant: settings sent again are always applied.)
SetShaperAlways(cfg) ==
    /\ command = NoCommand
    /\ general' = cfg
    /\ Handle("set", Apply(cfg, personal))
    /\ cleared' = FALSE
    /\ UNCHANGED <<personal, loaded, saved, orphan, kernel, sure, stuck>>

\* _set_shaper: settings that already stand are only answered.
SetShaper(cfg) ==
    /\ command = NoCommand
    /\ cleared' = FALSE
    /\ IF cfg # Off /\ cfg = general /\ loaded /\ saved
       THEN UNCHANGED <<general, command, overlap>>
       ELSE general' = cfg /\ Handle("set", Apply(cfg, personal))
    /\ UNCHANGED <<personal, loaded, saved, orphan, kernel, sure, stuck>>

\* The update finds no pins, now or when it looked, and the command falls back
\* to a full install.
Reload ==
    /\ command # NoCommand
    /\ command.script.kind = "update"
    /\ MustReload(command.script) \/ overlap
    /\ Handle(command.op, Apply(general, personal))
    /\ UNCHANGED <<general, personal, loaded, saved, orphan, kernel, cleared, sure, stuck>>

InstallOk(s) ==
    /\ s.kind = "apply"
    /\ kernel' = Installed(s, 1 - kernel.epoch)
    /\ sure' = TRUE
    /\ stuck' = {}

UpdateOk(s) ==
    /\ s.kind = "update"
    /\ ~MustReload(s)
    /\ \E failed \in SUBSET Deletes(s) :
          /\ kernel' = Updated(kernel, s, s.changed \ failed)
          /\ stuck' = (stuck \ s.changed) \cup failed
    /\ UNCHANGED sure

\* The script exits with 0 and the command is answered.
ScriptOk ==
    /\ command # NoCommand
    /\ LET s == command.script
       IN  /\ \/ ~overlap /\ (InstallOk(s) \/ UpdateOk(s))
              \/ overlap /\ kernel' \in Mixtures /\ sure' = FALSE /\ UNCHANGED stuck
           /\ loaded' = IF s.kind = "apply" THEN s.cfg # Off \/ s.limits # NoLimits ELSE loaded
    /\ saved' = IF command.op = "set" THEN TRUE ELSE saved
    /\ cleared' = (command.op = "sync" /\ personal = NoLimits /\ ~overlap)
    /\ command' = NoCommand
    /\ overlap' = (overlap /\ orphan # NoScript)
    /\ UNCHANGED <<general, personal, orphan>>

\* The script exits with an error, or its shell is killed after its minute; the
\* command the shell was in may run on.
ScriptFails ==
    /\ command # NoCommand
    /\ kernel' \in IF overlap THEN Mixtures ELSE Failures(command.script)
    /\ loaded' = IF command.script.kind = "apply" THEN FALSE ELSE loaded
    /\ saved' = IF command.op = "set" THEN FALSE ELSE saved
    /\ cleared' = FALSE
    /\ sure' = FALSE
    /\ command' = NoCommand
    /\ orphan' \in IF orphan = NoScript THEN {NoScript, command.script} ELSE {orphan}
    /\ overlap' = (overlap /\ orphan' # NoScript)
    /\ UNCHANGED <<general, personal, stuck>>

\* The link breaks: the listen task is cancelled where it awaits the script,
\* which goes on, or had not been started.
Cancel ==
    /\ command # NoCommand
    /\ orphan = NoScript
    /\ orphan' \in {NoScript, command.script}
    /\ overlap' = (overlap /\ orphan' # NoScript)
    /\ command' = NoCommand
    /\ cleared' = FALSE
    /\ sure' = FALSE
    /\ UNCHANGED <<general, personal, loaded, saved, kernel, stuck>>

\* The effect of the orphan as a whole, or its share in a mixture.
OrphanEnds ==
    /\ orphan # NoScript
    /\ kernel' \in
          IF overlap THEN Mixtures
          ELSE IF MustReload(orphan) THEN {kernel} ELSE Failures(orphan)
    /\ orphan' = NoScript
    /\ overlap' = (overlap /\ command # NoCommand)
    /\ cleared' = FALSE
    /\ UNCHANGED <<general, personal, loaded, saved, command, sure, stuck>>

\* A new agent process: its memory and its bpffs are gone, the filters of the
\* old program stay unless the node was rebooted.
AgentRestart ==
    /\ general' = Off
    /\ personal' = NoLimits
    /\ loaded' = FALSE
    /\ saved' = FALSE
    /\ command' = NoCommand
    /\ orphan' = NoScript
    /\ overlap' = FALSE
    /\ kernel' \in {[kernel EXCEPT !.pins = "none"], Nothing(0)}
    /\ cleared' = FALSE
    /\ sure' = FALSE
    /\ stuck' = {}

Next ==
    \/ \E l \in Limits : SyncThrottledIps(l)
    \/ \E cfg \in General : SetShaper(cfg)
    \/ Reload \/ ScriptOk \/ ScriptFails \/ Cancel \/ OrphanEnds \/ AgentRestart

Spec == Init /\ [][Next]_vars

----------------------------------------------------------------------------
(* Properties                                                              *)

\* Since the last full install that succeeded and met no other script, as long
\* as every script ended well, the node enforces exactly the settings and the
\* list the agent holds in memory, although most commands only send a
\* difference to the kernel; and a removal whose failure the update swallows
\* costs no more than its own address, until that address is listed again or
\* the program is installed anew (command_runner.py:329-343, shaper.py:265-336).
KernelFollowsMemory ==
    sure /\ command = NoCommand
        => LET k == Installed(Apply(general, personal), kernel.epoch)
           IN  /\ kernel.prog = k.prog /\ kernel.pins = k.pins
               /\ \A c \in Clients \ stuck : kernel.limits[c] = k.limits[c]
               /\ \A c \in stuck : personal[c] = Free
               /\ loaded <=> kernel.prog # Gone

\* A new list, or settings that already stand and are sent again at every
\* reconnect, do not reset the penalties the kernel holds: while nothing goes
\* wrong only settings that are new or whose own install failed, or a list for
\* a node without settings, reinstall the program (shaper.py:317-323, command_runner.py:627-629).
PenaltiesSurvive ==
    [][(sure /\ sure' /\ kernel'.epoch # kernel.epoch)
         => \/ general = Off
            \/ command.op = "set" /\ (kernel'.prog # kernel.prog \/ ~saved)]_vars

\* A list is the whole list: an empty one, once it has succeeded, leaves no
\* personal limit on the node, but where the very removal failed unnoticed
\* (command_runner.py:315-316).
EmptyListClears == cleared => \A c \in Clients \ stuck : kernel.limits[c] = Free
==============================================================================
