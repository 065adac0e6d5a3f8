-------------------------- MODULE AgentShaperProofs -------------------------
(***************************************************************************)
(* Proofs about AgentShaper for any clients, limits and settings: types,   *)
(* that the kernel follows the agent's memory, and that the penalties      *)
(* survive what need not reinstall the program.                            *)
(***************************************************************************)
EXTENDS AgentShaper, TLAPS

\* No program, no limits.
LEMMA NothingTypes == NoLimits \in Limits /\ Nothing(0) \in Kernel /\ Nothing(1) \in Kernel
<1>1. 0 \in 0..1 /\ 1 \in 0..1 /\ NoLimits \in Limits
    BY DEF NoLimits, Limits
<1> QED
    BY <1>1 DEF Nothing, Kernel, Pins

\* Init establishes the types.
LEMMA InitType == Init => TypeOK
    BY NothingTypes DEF Init, TypeOK, General

\* Scripts are made of what the agent remembers.
LEMMA ScriptTypes ==
    ASSUME NEW cfg \in General, NEW old \in Limits, NEW new \in Limits
    PROVE  /\ Apply(cfg, new) \in Script
           /\ Update(old, new) \in Script
    BY DEF Script, Apply, Update, General

\* What stands in the kernel after scripts that succeeded or failed, alone or
\* at the same time.
LEMMA KernelTypes ==
    ASSUME TypeOK, NEW s \in Script
    PROVE  /\ Installed(s, 1 - kernel.epoch) \in Kernel
           /\ \A part : Updated(kernel, s, part) \in Kernel
           /\ Failures(s) \subseteq Kernel
           /\ Mixtures \subseteq Kernel
<1>1. 1 - kernel.epoch \in 0..1
    BY DEF TypeOK, Kernel
<1>2. \A e \in 0..1 : Nothing(e) \in Kernel /\ Installed(s, e) \in Kernel
    BY DEF Nothing, Installed, Kernel, Pins, Script, NoLimits, Limits
<1>3. \A part : Updated(kernel, s, part) \in Kernel
    BY DEF TypeOK, Updated, Kernel, Script, Limits
<1>4. \A p \in Pins : [Nothing(1 - kernel.epoch) EXCEPT !.pins = p] \in Kernel
    BY <1>1 DEF Nothing, Kernel, NoLimits, Limits
<1>5. Failures(s) \subseteq Kernel
    BY <1>1, <1>2, <1>3, <1>4 DEF Failures, TypeOK, Pins
<1>6. Mixtures \subseteq Kernel
    <2>1. Running \subseteq Script
        BY DEF Running, TypeOK
    <2>2. \A l \in Limits : [kernel EXCEPT !.limits = l] \in Kernel
        BY DEF TypeOK, Kernel
    <2>3. {kernel.prog, Gone} \cup {r.cfg : r \in {q \in Running : q.kind = "apply"}}
              \subseteq General \cup {Gone}
        BY <2>1 DEF TypeOK, Kernel, Script
    <2> QED
        BY <2>2, <2>3 DEF Mixtures, Kernel
<1> QED
    BY <1>1, <1>2, <1>3, <1>5, <1>6

\* Every step keeps the types.
LEMMA NextType == TypeOK /\ [Next]_vars => TypeOK'
<1> SUFFICES ASSUME TypeOK, [Next]_vars PROVE TypeOK'
    OBVIOUS
<1>1. ASSUME NEW l \in Limits, SyncThrottledIps(l) PROVE TypeOK'
    <2>1. command' \in {NoCommand} \cup [op : {"sync", "set"}, script : Script]
        BY <1>1, ScriptTypes DEF SyncThrottledIps, Handle, TypeOK
    <2> QED
        BY <1>1, <2>1 DEF SyncThrottledIps, Handle, TypeOK
<1>2. ASSUME NEW cfg \in General, SetShaper(cfg) PROVE TypeOK'
    <2>1. command' \in {NoCommand} \cup [op : {"sync", "set"}, script : Script]
        BY <1>2, ScriptTypes DEF SetShaper, Handle, TypeOK
    <2> QED
        BY <1>2, <2>1 DEF SetShaper, Handle, TypeOK
<1>3. CASE Reload
    <2>1. command' \in [op : {"sync", "set"}, script : Script]
        BY <1>3, ScriptTypes DEF Reload, Handle, TypeOK
    <2> QED
        BY <1>3, <2>1 DEF Reload, Handle, TypeOK
<1>4. CASE ScriptOk
    <2>1. command.script \in Script
        BY <1>4 DEF ScriptOk, TypeOK
    <2>2. kernel' \in Kernel
        BY <1>4, <2>1, KernelTypes DEF ScriptOk, InstallOk, UpdateOk
    <2>3. stuck' \subseteq Clients
        BY <1>4, <2>1 DEF ScriptOk, InstallOk, UpdateOk, Deletes, Script, TypeOK
    <2>4. sure' \in BOOLEAN
        BY <1>4 DEF ScriptOk, InstallOk, UpdateOk, TypeOK
    <2>5. loaded' \in BOOLEAN /\ saved' \in BOOLEAN /\ cleared' \in BOOLEAN /\ overlap' \in BOOLEAN
        BY <1>4 DEF ScriptOk, TypeOK
    <2> QED
        BY <1>4, <2>2, <2>3, <2>4, <2>5 DEF ScriptOk, TypeOK
<1>5. CASE ScriptFails
    <2>1. command.script \in Script
        BY <1>5 DEF ScriptFails, TypeOK
    <2>2. kernel' \in Kernel
        BY <1>5, <2>1, KernelTypes DEF ScriptFails
    <2> QED
        BY <1>5, <2>2 DEF ScriptFails, TypeOK
<1>6. CASE Cancel
    BY <1>6 DEF Cancel, TypeOK
<1>7. CASE OrphanEnds
    <2>1. orphan \in Script
        BY <1>7 DEF OrphanEnds, TypeOK
    <2>2. kernel' \in Kernel
        BY <1>7, <2>1, KernelTypes DEF OrphanEnds, TypeOK
    <2> QED
        BY <1>7, <2>2 DEF OrphanEnds, TypeOK
<1>8. CASE AgentRestart
    <2>1. kernel' \in Kernel
        <3>1. [kernel EXCEPT !.pins = "none"] \in Kernel
            BY DEF TypeOK, Kernel, Pins
        <3> QED
            BY <1>8, <3>1, NothingTypes DEF AgentRestart
    <2> QED
        BY <1>8, <2>1, NothingTypes DEF AgentRestart, TypeOK, General
<1>9. CASE UNCHANGED vars
    BY <1>9 DEF vars, TypeOK
<1> QED
    BY <1>1, <1>2, <1>3, <1>4, <1>5, <1>6, <1>7, <1>8, <1>9 DEF Next

\* The agent's memory, its command and the kernel keep their types
\* (CommandRunner.__init__ and every handler of a shaper command).
THEOREM TypeCorrect == Spec => []TypeOK
    BY InitType, NextType, PTL DEF Spec

----------------------------------------------------------------------------
(* What the agent is sure of.                                              *)

\* The kernel stands as the agent's memory, but for the addresses in `but`.
Stands(but) ==
    /\ general # Off \/ personal # NoLimits
    /\ loaded
    /\ kernel.prog = general
    /\ kernel.pins = "own"
    /\ \A c \in Clients \ but : kernel.limits[c] = personal[c]

\* A full install is one of what the agent remembers.
FullInstall ==
    command # NoCommand /\ command.script.kind = "apply" => command.script = Apply(general, personal)

\* Two scripts overlap as soon as both run; while the agent is sure no script of
\* a cancelled command is left.
SureAlone ==
    /\ command # NoCommand /\ orphan # NoScript => overlap
    /\ sure => orphan = NoScript /\ ~overlap

\* An update makes up for all that its command has changed in the memory, and
\* an address it does not touch is stuck only if it has no limit.
SureUpdate ==
    sure /\ command # NoCommand /\ command.script.kind = "update" =>
        LET s == command.script
        IN  /\ s.limits = personal
            /\ Stands(s.changed \cup stuck)
            /\ \A c \in stuck \ s.changed : personal[c] = Free

\* A full install under way is one that the new settings, or an answer the
\* agent does not remember, call for, or there was no program to keep.
SureInstall ==
    sure /\ command # NoCommand /\ command.script.kind = "apply" =>
        \/ general = Off
        \/ command.op = "set" /\ (Installed(Apply(general, personal), 0).prog # kernel.prog \/ ~saved)

Sure == FullInstall /\ SureAlone /\ SureUpdate /\ SureInstall /\ KernelFollowsMemory
Inv == TypeOK /\ Sure

\* What a full install of what the agent remembers brings about.
LEMMA InstallOfMemory ==
    ASSUME TypeOK, NEW e
    PROVE  LET k == Installed(Apply(general, personal), e)
           IN  /\ k.limits = personal
               /\ k.epoch = e
               /\ general = Off /\ personal = NoLimits => k.prog = Gone /\ k.pins = "none"
               /\ general # Off \/ personal # NoLimits =>
                      k.prog = general /\ k.prog # Gone /\ k.pins = "own"
    BY ConfigAssumption DEF Installed, Apply, Nothing, TypeOK, General

\* What the agent is sure of while it is idle, in detail.
LEMMA IdleKernel ==
    ASSUME Inv, sure, command = NoCommand
    PROVE  /\ ~loaded => general = Off /\ personal = NoLimits /\ kernel.prog = Gone
           /\ loaded => Stands(stuck)
           /\ \A c \in stuck : personal[c] = Free
    BY InstallOfMemory, ConfigAssumption DEF Inv, Sure, KernelFollowsMemory, Stands, TypeOK

\* Once it stands, an update that succeeds leaves it so, but for the addresses
\* whose removal failed.
LEMMA UpdateStands ==
    ASSUME TypeOK, NEW s \in Script, s.limits = personal, Stands(s.changed \cup stuck),
           NEW failed, kernel' = Updated(kernel, s, s.changed \ failed)
    PROVE  /\ kernel'.prog = general /\ kernel'.pins = "own"
           /\ \A c \in Clients \ ((stuck \ s.changed) \cup failed) : kernel'.limits[c] = personal[c]
<1>1. kernel' = [kernel EXCEPT !.limits =
                    [c \in Clients |-> IF c \in s.changed \ failed THEN s.limits[c] ELSE kernel.limits[c]]]
    BY DEF Updated, Stands
<1>2. /\ kernel'.prog = kernel.prog /\ kernel'.pins = kernel.pins
      /\ \A c \in Clients : kernel'.limits[c] =
             IF c \in s.changed \ failed THEN personal[c] ELSE kernel.limits[c]
    BY <1>1 DEF TypeOK, Kernel
<1> QED
    BY <1>2 DEF Stands

\* A list that arrives while the agent is sure.
LEMMA SyncSure ==
    ASSUME Inv, NEW l \in Limits, SyncThrottledIps(l)
    PROVE  Sure'
<1> USE DEF Inv, Sure
<1>0. /\ general' = general /\ loaded' = loaded /\ saved' = saved /\ kernel' = kernel
      /\ orphan' = orphan /\ sure' = sure /\ personal' = l /\ command = NoCommand
      /\ stuck' = stuck
    BY DEF SyncThrottledIps
<1>1. SureAlone'
    <2>1. \/ command' = NoCommand /\ overlap' = overlap
          \/ overlap' <=> orphan # NoScript
        BY <1>0 DEF SyncThrottledIps, Handle
    <2> QED
        BY <1>0, <2>1 DEF SureAlone
<1>2. CASE loaded /\ (general # Off \/ l # NoLimits) /\ Update(personal, l).changed = {}
    <2>1. command' = NoCommand
        BY <1>0, <1>2 DEF SyncThrottledIps
    <2>2. l = personal
        BY <1>2 DEF Update, TypeOK, Limits
    <2> QED
        BY <1>0, <1>1, <2>1, <2>2 DEF FullInstall, SureUpdate, SureInstall, KernelFollowsMemory
<1>3. CASE loaded /\ (general # Off \/ l # NoLimits) /\ Update(personal, l).changed # {}
    <2>1. command' = [op |-> "sync", script |-> Update(personal, l)]
        BY <1>3 DEF SyncThrottledIps, Handle
    <2>2. /\ Update(personal, l).kind = "update"
          /\ Update(personal, l).limits = l
          /\ Update(personal, l).changed = {c \in Clients : personal[c] # l[c]}
        BY DEF Update
    <2>3. command' # NoCommand
        BY <2>1 DEF NoCommand
    <2>4. ASSUME sure, NEW changed, changed = Update(personal, l).changed
          PROVE  /\ Stands(changed \cup stuck)'
                 /\ \A c \in stuck \ changed : l[c] = Free
        <3>1. Stands(stuck) /\ \A c \in stuck : personal[c] = Free
            BY <1>0, <1>3, <2>4, IdleKernel
        <3>2. stuck \subseteq Clients
            BY DEF TypeOK
        <3>3. Stands(changed \cup stuck)'
            BY <1>0, <1>3, <2>2, <2>4, <3>1 DEF Stands
        <3> QED
            BY <2>2, <2>4, <3>1, <3>2, <3>3
    <2>5. FullInstall' /\ SureInstall' /\ KernelFollowsMemory'
        BY <2>1, <2>2, <2>3 DEF FullInstall, SureInstall, KernelFollowsMemory
    <2>6. SureUpdate'
        <3>1. command'.script = Update(personal, l)
            BY <2>1
        <3> QED
            BY <1>0, <3>1, <2>2, <2>4 DEF SureUpdate
    <2> QED
        BY <1>1, <2>5, <2>6
<1>4. CASE ~(loaded /\ (general # Off \/ l # NoLimits))
    <2>1. command' = [op |-> "sync", script |-> Apply(general, l)]
        BY <1>4 DEF SyncThrottledIps, Handle
    <2>2. command' # NoCommand /\ Apply(general, l).kind = "apply"
        BY <2>1 DEF NoCommand, Apply
    <2>3. sure => general = Off
        BY <1>0, <1>4, IdleKernel
    <2> QED
        BY <1>0, <1>1, <2>1, <2>2, <2>3 DEF FullInstall, SureUpdate, SureInstall, KernelFollowsMemory
<1> QED
    BY <1>2, <1>3, <1>4

\* Settings that arrive while the agent is sure.
LEMMA SetSure ==
    ASSUME Inv, NEW cfg \in General, SetShaper(cfg)
    PROVE  Sure'
<1> USE DEF Inv, Sure
<1>0. /\ personal' = personal /\ loaded' = loaded /\ saved' = saved /\ kernel' = kernel
      /\ orphan' = orphan /\ sure' = sure /\ command = NoCommand /\ stuck' = stuck
    BY DEF SetShaper
<1>1. SureAlone'
    <2>1. \/ command' = NoCommand /\ overlap' = overlap
          \/ overlap' <=> orphan # NoScript
        BY <1>0 DEF SetShaper, Handle
    <2> QED
        BY <1>0, <2>1 DEF SureAlone
<1>2. CASE cfg # Off /\ cfg = general /\ loaded /\ saved
    <2>1. command' = NoCommand /\ general' = general
        BY <1>0, <1>2 DEF SetShaper
    <2> QED
        BY <1>0, <1>1, <2>1 DEF FullInstall, SureUpdate, SureInstall, KernelFollowsMemory
<1>3. CASE ~(cfg # Off /\ cfg = general /\ loaded /\ saved)
    <2>1. general' = cfg /\ command' = [op |-> "set", script |-> Apply(cfg, personal)]
        BY <1>3 DEF SetShaper, Handle
    <2>2. command' # NoCommand /\ Apply(cfg, personal).kind = "apply"
        BY <2>1 DEF NoCommand, Apply
    <2>3. sure /\ cfg # Off /\ saved => Installed(Apply(cfg, personal), 0).prog # kernel.prog
        <3>1. cfg # Off => Installed(Apply(cfg, personal), 0).prog = cfg /\ cfg # Gone
            BY ConfigAssumption DEF Installed, Apply, General
        <3>2. sure /\ ~loaded => kernel.prog = Gone
            BY <1>0, IdleKernel
        <3>3. sure /\ loaded => kernel.prog = general
            BY <1>0, IdleKernel DEF Stands
        <3> QED
            BY <1>3, <3>1, <3>2, <3>3
    <2> QED
        BY <1>0, <1>1, <2>1, <2>2, <2>3 DEF FullInstall, SureUpdate, SureInstall, KernelFollowsMemory
<1> QED
    BY <1>2, <1>3

\* A script that succeeds.
LEMMA OkSure ==
    ASSUME Inv, ScriptOk
    PROVE  Sure'
<1> USE DEF Inv, Sure
<1> DEFINE s == command.script
<1>0. /\ command # NoCommand /\ command' = NoCommand
      /\ general' = general /\ personal' = personal /\ orphan' = orphan
      /\ s \in Script /\ TypeOK'
    BY NextType DEF ScriptOk, TypeOK, Next
<1>1. FullInstall' /\ SureUpdate' /\ SureInstall'
    BY <1>0 DEF FullInstall, SureUpdate, SureInstall
<1>2. SUFFICES SureAlone' /\ KernelFollowsMemory'
    BY <1>1
<1>3. CASE overlap
    BY <1>3 DEF ScriptOk, SureAlone, KernelFollowsMemory
<1>4. CASE ~overlap /\ InstallOk(s)
    <2>1. s = Apply(general, personal) /\ kernel' = Installed(s, 1 - kernel.epoch) /\ stuck' = {}
        BY <1>0, <1>4 DEF FullInstall, InstallOk
    <2>2. loaded' = (general # Off \/ personal # NoLimits)
        BY <1>4, <2>1 DEF ScriptOk, InstallOk, Apply
    <2>3. kernel'.epoch = 1 - kernel.epoch
        BY <2>1, InstallOfMemory
    <2>4. loaded' <=> kernel'.prog # Gone
        BY <2>1, <2>2, InstallOfMemory
    <2>5. KernelFollowsMemory'
        BY <1>0, <2>1, <2>3, <2>4 DEF KernelFollowsMemory
    <2>6. orphan = NoScript /\ ~overlap'
        BY <1>0, <1>4 DEF ScriptOk, SureAlone
    <2> QED
        BY <1>0, <2>5, <2>6 DEF SureAlone
<1>5. CASE ~overlap /\ UpdateOk(s)
    <2>1. PICK failed \in SUBSET Deletes(s) :
              /\ kernel' = Updated(kernel, s, s.changed \ failed)
              /\ stuck' = (stuck \ s.changed) \cup failed
        BY <1>5 DEF UpdateOk
    <2>2. sure' = sure /\ loaded' = loaded /\ s.kind = "update" /\ overlap' = FALSE
        BY <1>5 DEF ScriptOk, UpdateOk
    <2>3. CASE ~sure
        BY <1>0, <2>2, <2>3 DEF SureAlone, KernelFollowsMemory
    <2>4. CASE sure
        <3>1. /\ s.limits = personal /\ Stands(s.changed \cup stuck)
              /\ \A c \in stuck \ s.changed : personal[c] = Free
            BY <1>0, <2>2, <2>4 DEF SureUpdate
        <3>2. /\ kernel'.prog = general /\ kernel'.pins = "own"
              /\ \A c \in Clients \ stuck' : kernel'.limits[c] = personal[c]
            BY <1>0, <2>1, <3>1, UpdateStands
        <3>3. \A c \in stuck' : personal[c] = Free
            BY <2>1, <3>1 DEF Deletes
        <3>4. general # Off \/ personal # NoLimits
            BY <3>1 DEF Stands
        <3>5. loaded' /\ general # Gone
            BY <2>2, <3>1, ConfigAssumption DEF Stands, TypeOK, General
        <3>6. KernelFollowsMemory'
            BY <1>0, <3>2, <3>3, <3>4, <3>5, InstallOfMemory DEF KernelFollowsMemory
        <3> QED
            BY <1>0, <2>2, <2>4, <3>6 DEF SureAlone
    <2> QED
        BY <2>3, <2>4
<1> QED
    BY <1>3, <1>4, <1>5 DEF ScriptOk

\* Every step keeps the invariant.
LEMMA NextInv == Inv /\ [Next]_vars => Inv'
<1> SUFFICES ASSUME Inv, [Next]_vars PROVE Sure'
    BY NextType DEF Inv
<1>1. ASSUME NEW l \in Limits, SyncThrottledIps(l) PROVE Sure'
    BY <1>1, SyncSure
<1>2. ASSUME NEW cfg \in General, SetShaper(cfg) PROVE Sure'
    BY <1>2, SetSure
<1>3. CASE Reload
    <2>1. ~sure
        BY <1>3 DEF Reload, MustReload, Inv, Sure, SureAlone, SureUpdate, Stands
    <2>2. /\ sure' = sure /\ general' = general /\ personal' = personal
          /\ command' = [op |-> command.op, script |-> Apply(general, personal)]
        BY <1>3 DEF Reload, Handle
    <2>3. FullInstall'
        BY <2>2 DEF FullInstall
    <2>4. SureAlone'
        <3>1. (overlap' <=> orphan # NoScript) /\ orphan' = orphan
            BY <1>3 DEF Reload, Handle
        <3> QED
            BY <2>1, <2>2, <3>1 DEF SureAlone
    <2> QED
        BY <2>1, <2>2, <2>3, <2>4 DEF Sure, SureUpdate, SureInstall, KernelFollowsMemory
<1>4. CASE ScriptOk
    BY <1>4, OkSure
<1>5. CASE ScriptFails \/ Cancel \/ AgentRestart
    BY <1>5 DEF ScriptFails, Cancel, AgentRestart,
                Sure, SureAlone, FullInstall, SureUpdate, SureInstall, KernelFollowsMemory
<1>6. CASE OrphanEnds
    BY <1>6 DEF OrphanEnds, Inv, Sure, SureAlone, FullInstall, SureUpdate, SureInstall, KernelFollowsMemory
<1>7. CASE UNCHANGED vars
    BY <1>7 DEF vars, Inv, Sure, SureAlone, FullInstall, SureUpdate, SureInstall, KernelFollowsMemory, Stands
<1> QED
    BY <1>1, <1>2, <1>3, <1>4, <1>5, <1>6, <1>7 DEF Next

\* Init establishes the invariant.
LEMMA InitInv == Init => Inv
    BY InitType DEF Init, Inv, Sure, SureAlone, FullInstall, SureUpdate, SureInstall, KernelFollowsMemory

\* Since the last full install that succeeded and met no other script, the node
\* enforces what the agent remembers, but for addresses whose removal failed
\* unnoticed (_sync_throttled_ips, _set_shaper, _shaper_apply).
THEOREM MemoryFollowed == Spec => []KernelFollowsMemory
<1>1. Inv => KernelFollowsMemory
    BY DEF Inv, Sure
<1> QED
    BY <1>1, InitInv, NextInv, PTL DEF Spec

\* A step that reinstalls the program while the agent is sure was called for.
LEMMA StepSpares ==
    ASSUME Inv, [Next]_vars, sure, sure', kernel'.epoch # kernel.epoch
    PROVE  \/ general = Off
           \/ command.op = "set" /\ (kernel'.prog # kernel.prog \/ ~saved)
<1>1. CASE ScriptOk
    <2>1. command # NoCommand /\ command.script \in Script
        BY <1>1 DEF ScriptOk, Inv, TypeOK
    <2>2. CASE InstallOk(command.script)
        <3>1. kernel'.prog = Installed(Apply(general, personal), 0).prog
            BY <2>1, <2>2 DEF Inv, Sure, FullInstall, InstallOk, Installed, Nothing
        <3> QED
            BY <2>1, <2>2, <3>1 DEF Inv, Sure, SureInstall, InstallOk
    <2>3. CASE UpdateOk(command.script)
        BY <2>1, <2>3 DEF UpdateOk, Updated, Inv, TypeOK, Kernel
    <2> QED
        BY <1>1, <2>2, <2>3 DEF ScriptOk
<1>2. ~OrphanEnds
    BY DEF OrphanEnds, Inv, Sure, SureAlone
<1> QED
    BY <1>1, <1>2
    DEF Next, vars, SyncThrottledIps, SetShaper, Reload, ScriptFails, Cancel, AgentRestart

\* The penalties in the kernel outlive every list and all settings sent again:
\* only what calls for a new program installs one (_set_shaper,
\* build_personal_update_script).
THEOREM PenaltiesKept == Spec => PenaltiesSurvive
<1>1. Inv /\ [Next]_vars =>
          [(sure /\ sure' /\ kernel'.epoch # kernel.epoch)
             => \/ general = Off
                \/ command.op = "set" /\ (kernel'.prog # kernel.prog \/ ~saved)]_vars
    BY StepSpares
<1> QED
    BY <1>1, InitInv, NextInv, PTL DEF Spec, PenaltiesSurvive
----------------------------------------------------------------------------
(* The empty list.                                                         *)

\* A list that was the last thing handled left the agent idle and its memory
\* without a limit.
ClearedIdle == cleared => command = NoCommand /\ personal = NoLimits

\* Init establishes that, and every step keeps it.
LEMMA ClearedKept == (Init => ClearedIdle) /\ (ClearedIdle /\ [Next]_vars => ClearedIdle')
<1>1. Init => ClearedIdle
    BY DEF Init, ClearedIdle
<1> SUFFICES ASSUME ClearedIdle, [Next]_vars PROVE ClearedIdle'
    BY <1>1
<1> USE DEF ClearedIdle
<1>2. ASSUME NEW l \in Limits, SyncThrottledIps(l) PROVE ClearedIdle'
    BY <1>2 DEF SyncThrottledIps
<1>3. ASSUME NEW cfg \in General, SetShaper(cfg) PROVE ClearedIdle'
    BY <1>3 DEF SetShaper
<1>4. CASE Reload
    BY <1>4 DEF Reload
<1>5. CASE ScriptOk
    BY <1>5 DEF ScriptOk
<1>6. CASE ScriptFails \/ Cancel \/ OrphanEnds \/ AgentRestart
    BY <1>6 DEF ScriptFails, Cancel, OrphanEnds, AgentRestart
<1>7. CASE UNCHANGED vars
    BY <1>7 DEF vars
<1> QED
    BY <1>2, <1>3, <1>4, <1>5, <1>6, <1>7 DEF Next

\* An empty list that succeeded while no other script ran leaves no personal
\* limit on the node, but where a removal failed unnoticed, as long as no script
\* has failed, was cut off or was reset since the last full install that ran
\* alone; without that the claim is false (command_runner.py:315-316).
THEOREM EmptyListClearsWhenSure == Spec => [](sure => EmptyListClears)
<1>1. Inv /\ ClearedIdle => (sure => EmptyListClears)
    <2> SUFFICES ASSUME Inv, ClearedIdle, sure, cleared, NEW c \in Clients \ stuck
                 PROVE  kernel.limits[c] = Free
        BY DEF EmptyListClears
    <2>1. kernel.limits[c] = Installed(Apply(general, personal), kernel.epoch).limits[c]
        BY DEF Inv, Sure, KernelFollowsMemory, ClearedIdle
    <2>2. Installed(Apply(general, personal), kernel.epoch).limits = NoLimits
        BY InstallOfMemory DEF Inv, ClearedIdle
    <2> QED
        BY <2>1, <2>2 DEF NoLimits
<1> QED
    BY <1>1, InitInv, NextInv, ClearedKept, PTL DEF Spec
=============================================================================
