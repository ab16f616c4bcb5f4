------------------------------- MODULE InkTalk -------------------------------
(***************************************************************************)
(* The InkTalk board: the wire of InkWire, and core 0's tasks around one    *)
(* configuration.  A control client changes name and role over the network, *)
(* a printing client renames the printer, the debug shell edits and saves;  *)
(* each keeps what it did in flash, for which core 1 must be parked, and a  *)
(* changed role restarts the board.                                         *)
(*                                                                          *)
(* Core 0's tasks are cooperative: an action runs from one await to the     *)
(* next, and ACTIVE's mutex is never held across one.                       *)
(***************************************************************************)
EXTENDS InkWire

CONSTANTS Names, Roles,      \* what may be asked for
          DefaultName, DefaultRole

ASSUME DefaultsKnown == /\ DefaultName \in Names /\ DefaultRole \in Roles /\ None \notin Names
                        /\ Roles \subseteq {"stylewriter", "imagewriter"}

VARIABLES active,   \* ACTIVE
          flash,    \* the block in flash: a configuration, none after an erase
          running,  \* the role loaded at boot
          live,     \* the name the printer is registered under
          ctl,      \* the name the control listener is registered under
          signal,   \* NAME_CHANGED
          save,     \* who holds FLASH_HANDLE and who waits, each with what it saves
          control, printer,  \* the control task and the printer task
          port,     \* what the printer's port still has for the printer task, in order
          reprobe,  \* REPROBE
          jobActive,\* JOB_ACTIVE
          job,      \* history: "open" while a client prints, "late" if a restart was decided before it was reported
          excuses   \* history: what the properties excuse

names == <<live, ctl, signal>>
jobs == <<port, jobActive, job>>
core0 == <<active, flash, running, names, save, control, printer, reprobe, jobs, excuses>>
wire == <<air, queue, stackRx, signals>>
vars == <<wire, events, core0>>

Tasks == {"control", "printer", "debug"}
Config(n, r) == [name |-> n, role |-> r]
Default == Config(DefaultName, DefaultRole)
NoSave == [owner |-> None, step |-> None, cfg |-> Default, queue |-> <<>>]

(* load falls back to the defaults when the block does not parse. *)
Load(f) == IF f = <<>> THEN Default ELSE f[1]

Init ==
    /\ WireInit
    /\ events = 0
    /\ flash = <<Default>>
    /\ active = Default /\ running = DefaultRole
    /\ live = DefaultName /\ ctl = DefaultName /\ signal = None
    /\ save = NoSave
    /\ control = [pc |-> "idle", reboot |-> FALSE]
    /\ printer = "run"
    /\ port = <<>> /\ jobActive = FALSE /\ job = None /\ reprobe = FALSE
    /\ excuses = {}

Restart ==
    /\ active' = Load(flash) /\ running' = Load(flash).role
    /\ live' = Load(flash).name /\ ctl' = Load(flash).name /\ signal' = None
    /\ save' = NoSave
    /\ control' = [pc |-> "idle", reboot |-> FALSE]
    /\ printer' = "run"
    /\ port' = <<>> /\ jobActive' = FALSE /\ job' = None /\ reprobe' = FALSE
    /\ excuses' = IF flash = <<>> THEN {"power"} ELSE {}
    /\ core1' = Boot /\ line' = <<>> /\ flags' = {} /\ node' = None
    /\ tx' = Ring(TxSlots) /\ rx' = Ring(RxSlots) /\ stackRx' = <<>>
    /\ submitted' = 0 /\ gone' = <<>>
    /\ UNCHANGED flash

(* Core 0 stands still while it erases and writes. *)
Core0Runs == save.step # "erased"

(***************************************************************************)
(* config::save.  The lock is not fair: whoever asks when it is free has    *)
(* it, before those who wait.  The request and the first look at PARKED are *)
(* one step, so a PARKED that core 1 has not cleared since the last save is *)
(* taken for this one's.                                                    *)
(***************************************************************************)
Unsaved == {"edited", "failed", "overtaken", "power"}

Request(t, cfg, waiting, overtakes, why) ==
    /\ save' = [owner |-> t, step |-> "park", cfg |-> cfg, queue |-> waiting]
    /\ flags' = flags \cup {"PARK_REQUEST"}
    /\ excuses' = why \cup (IF overtakes THEN {"overtaken"} ELSE {})
                      \cup (IF core1.pc = "leaving" THEN {"stale"} ELSE {})

StartSave(t, cfg, why) ==
    IF save.owner = None THEN Request(t, cfg, save.queue, save.queue # <<>>, why)
    ELSE /\ save' = [save EXCEPT !.queue = Append(@, [task |-> t, cfg |-> cfg])]
         /\ excuses' = why
         /\ UNCHANGED flags

Acquire ==
    /\ save.owner = None
    /\ \E i \in DOMAIN save.queue :
         Request(save.queue[i].task, save.queue[i].cfg,
                 [j \in 1..Len(save.queue) - 1 |-> save.queue[IF j < i THEN j ELSE j + 1]], i > 1, excuses)
    /\ UNCHANGED <<air, queue, stackRx, node, events, active, flash, running, names, control, printer, reprobe, jobs>>

Erase ==
    /\ save.step = "park" /\ "PARKED" \in flags
    /\ flash' = <<>>
    /\ save' = [save EXCEPT !.step = "erased"]
    /\ UNCHANGED <<wire, events, active, running, names, control, printer, reprobe, jobs, excuses>>

(* The saver goes on: a control client is answered, the printer task runs. *)
SaveEnds(ok) ==
    /\ save' = [NoSave EXCEPT !.queue = save.queue]
    /\ flags' = flags \ {"PARK_REQUEST"}
    /\ control' = IF save.owner = "control" THEN [pc |-> "reply", reboot |-> control.reboot /\ ok] ELSE control
    /\ printer' = IF save.owner = "printer" THEN "run" ELSE printer
    /\ UNCHANGED <<air, queue, stackRx, node, events, active, running, names, reprobe, jobs>>

Written ==
    /\ save.step = "erased"
    /\ flash' = <<save.cfg>>
    /\ excuses' = excuses \ ({"stale"} \cup IF save.cfg = active /\ save.queue = <<>> THEN Unsaved ELSE {})
    /\ SaveEnds(TRUE)

ParkTimeoutGoesOn ==
    /\ save.step = "park" /\ "PARKED" \notin flags
    /\ core1.pc \in {"csma", "listen", "data"}
    /\ flash' = <<>>
    /\ save' = [save EXCEPT !.step = "erased"]
    /\ UNCHANGED <<wire, events, active, running, names, control, printer, reprobe, jobs, excuses>>

(* "core 1 did not park": it can be that long in a frame's attempts. *)
ParkTimeout ==
    /\ save.step = "park" /\ "PARKED" \notin flags
    /\ core1.pc \in {"csma", "listen", "data"}
    /\ excuses' = (excuses \cup {"failed"}) \ {"stale"}
    /\ SaveEnds(FALSE)
    /\ UNCHANGED flash

(***************************************************************************)
(* The control task.                                                        *)
(***************************************************************************)
(* PrinterName::reregister and Registration::follow each put the new entity *)
(* in the old one's place within one step.                                  *)
Reregister(n) == live' = n
Follow(n) == ctl' = n

Unreported == job = "open" /\ \E i \in DOMAIN port : port[i].kind = "start"

(* set_config: a change that needs a restart is refused during a job.  The  *)
(* printer's name and the listener's change together.                       *)
SetConfig(n, r) ==
    /\ Event /\ Core0Runs /\ control.pc = "idle"
    /\ r # running => ~jobActive
    /\ active' = Config(n, r)
    /\ Reregister(n)
    /\ IF live # n THEN Follow(n) ELSE UNCHANGED ctl
    /\ control' = [pc |-> "save", reboot |-> r # running]
    /\ job' = IF r # running /\ Unreported THEN "late" ELSE job
    /\ StartSave("control", Config(n, r), excuses \cup IF live # n /\ signal # None THEN {"late"} ELSE {})
    /\ UNCHANGED <<air, queue, stackRx, node, flash, running, signal, printer, reprobe, port, jobActive>>

AskReboot ==
    /\ Event /\ Core0Runs /\ control.pc = "idle"
    /\ ~jobActive
    /\ control' = [pc |-> "reply", reboot |-> TRUE]
    /\ job' = IF Unreported THEN "late" ELSE job
    /\ UNCHANGED <<wire, active, flash, running, names, save, printer, reprobe, port, jobActive, excuses>>

(* A client that has gone away leaves a restart undone. *)
Reply ==
    /\ Core0Runs /\ control.pc = "reply"
    /\ \E sent \in BOOLEAN :
         control' = IF sent /\ control.reboot THEN [control EXCEPT !.pc = "flush"] ELSE [pc |-> "idle", reboot |-> FALSE]
    /\ UNCHANGED <<wire, events, active, flash, running, names, save, printer, reprobe, jobs, excuses>>

Reset ==
    /\ Core0Runs /\ control.pc = "flush"
    /\ Restart
    /\ UNCHANGED events

(* Registration::follow, when the control task is between two commands. *)
NameChanged ==
    /\ Core0Runs /\ control.pc = "idle" /\ signal # None
    /\ Follow(signal)
    /\ signal' = None
    /\ UNCHANGED <<wire, events, active, flash, running, live, save, control, printer, reprobe, jobs, excuses>>

(***************************************************************************)
(* The printer task takes the port's events and bytes in their order.  A    *)
(* job's events come from the node's task, whatever the printer task does.  *)
(***************************************************************************)
Item(kind, n) == [kind |-> kind, name |-> n]
Deciding == control.pc # "idle" /\ control.reboot

JobStart ==
    /\ Event /\ Core0Runs /\ job = None
    /\ job' = IF Deciding THEN "late" ELSE "open"
    /\ port' = port \o <<Item("start", None), Item("bytes", None)>>
    /\ UNCHANGED <<wire, active, flash, running, names, save, control, printer, reprobe, jobActive, excuses>>

JobEnd ==
    /\ Core0Runs /\ job # None
    /\ job' = None
    /\ port' = Append(port, Item("end", None))
    /\ UNCHANGED <<wire, events, active, flash, running, names, save, control, printer, reprobe, jobActive, excuses>>

ClientRenames(n) ==
    /\ Event /\ Core0Runs
    /\ port' = Append(port, Item("rename", n))
    /\ UNCHANGED <<wire, active, flash, running, names, save, control, printer, reprobe, jobActive, job, excuses>>

NextItem(kind) == Core0Runs /\ printer = "run" /\ port # <<>> /\ Head(port).kind = kind

JobStarted ==
    /\ NextItem("start")
    /\ port' = Tail(port)
    /\ jobActive' = TRUE
    /\ UNCHANGED <<wire, events, active, flash, running, names, save, control, printer, reprobe, job, excuses>>

JobEnded ==
    /\ NextItem("end")
    /\ port' = Tail(port)
    /\ jobActive' = FALSE
    /\ UNCHANGED <<wire, events, active, flash, running, names, save, control, printer, reprobe, job, excuses>>

(* The bytes have left the port's queue; the write waits on the printer. *)
Write ==
    /\ NextItem("bytes")
    /\ port' = Tail(port)
    /\ printer' = "writing"
    /\ UNCHANGED <<wire, events, active, flash, running, names, save, control, reprobe, jobActive, job, excuses>>

WriteDone ==
    /\ Core0Runs /\ printer = "writing"
    /\ printer' = "run"
    /\ UNCHANGED <<wire, events, active, flash, running, names, save, control, reprobe, jobs, excuses>>

RenamedUntold ==
    /\ NextItem("rename")
    /\ port' = Tail(port)
    /\ Reregister(Head(port).name)
    /\ IF active.name = live' THEN UNCHANGED <<active, save, printer, flags, excuses>>
       ELSE /\ active' = [active EXCEPT !.name = live']
            /\ printer' = "save"
            /\ StartSave("printer", active', excuses)
    /\ UNCHANGED <<air, queue, stackRx, node, events, flash, running, ctl, signal, control, reprobe, jobActive, job>>

(* rename registers the name, save_name keeps it unless it is ACTIVE's. *)
Renamed ==
    /\ NextItem("rename")
    /\ port' = Tail(port)
    /\ Reregister(Head(port).name)
    /\ signal' = live'
    /\ IF active.name = live' THEN UNCHANGED <<active, save, printer, flags, excuses>>
       ELSE /\ active' = [active EXCEPT !.name = live']
            /\ printer' = "save"
            /\ StartSave("printer", active', excuses)
    /\ UNCHANGED <<air, queue, stackRx, node, events, flash, running, ctl, control, reprobe, jobActive, job>>

(* Serving is given up for a new identification, a write in progress with   *)
(* it, but not while a job is known.                                        *)
Reprobe ==
    /\ Core0Runs
    /\ reprobe /\ ~jobActive /\ running = "stylewriter"
    /\ printer = "writing" \/ (printer = "run" /\ port = <<>>)
    /\ printer' = "identify"
    /\ reprobe' = FALSE
    /\ excuses' = excuses \cup IF printer = "writing" THEN {"cut"} ELSE {}
    /\ UNCHANGED <<wire, events, active, flash, running, names, save, control, jobs>>

Identified ==
    /\ Core0Runs /\ printer = "identify"
    /\ printer' = "run"
    /\ UNCHANGED <<wire, events, active, flash, running, names, save, control, reprobe, jobs, excuses>>

(***************************************************************************)
(* The debug shell, one command at a time.                                  *)
(***************************************************************************)
Edit(cfg) ==
    /\ Event /\ Core0Runs /\ cfg # active
    /\ active' = cfg
    /\ excuses' = excuses \cup {"edited", "shell"}
    /\ UNCHANGED <<wire, flash, running, names, save, control, printer, reprobe, jobs>>

ShellSaves == save.owner = "debug" \/ \E i \in DOMAIN save.queue : save.queue[i].task = "debug"

CmdSave ==
    /\ Event /\ Core0Runs /\ ~ShellSaves
    /\ StartSave("debug", active, excuses)
    /\ UNCHANGED <<air, queue, stackRx, node, active, flash, running, names, control, printer, reprobe, jobs>>

CmdReprobe ==
    /\ Event /\ Core0Runs /\ ~reprobe
    /\ reprobe' = TRUE
    /\ UNCHANGED <<wire, active, flash, running, names, save, control, printer, jobs, excuses>>

(***************************************************************************)
(* The board.                                                               *)
(***************************************************************************)
PowerLoss == Event /\ Restart

Submit(dst) ==
    /\ Event /\ Core0Runs /\ node # None
    /\ SubmitTx(dst)
    /\ UNCHANGED core0

Rings ==
    /\ Core0Runs
    /\ SetNode \/ Dispatch \/ Take
    /\ UNCHANGED core0

Saves == Erase \/ Written \/ ParkTimeout \/ (Core0Runs /\ Acquire)
Engine == Core1 /\ UNCHANGED core0

Outside ==
    \/ \E n \in Names, r \in Roles : SetConfig(n, r)
    \/ AskReboot \/ JobStart \/ JobEnd \/ CmdSave \/ CmdReprobe \/ PowerLoss
    \/ \E n \in Names : ClientRenames(n) \/ Edit([active EXCEPT !.name = n])
    \/ \E r \in Roles : Edit([active EXCEPT !.role = r])
    \/ \E d \in {Peer, Broadcast} : Submit(d)
    \/ (\E k \in {"enq", "rts"} : PeerSends(k, Us)) /\ UNCHANGED core0
    \/ (PeerSends("data", Broadcast) \/ PeerAnswers) /\ UNCHANGED core0

Inside ==
    \/ Engine \/ Saves \/ Rings
    \/ Reply \/ Reset \/ NameChanged
    \/ JobStarted \/ JobEnded \/ Write \/ WriteDone \/ Renamed \/ Reprobe \/ Identified

Next == Inside \/ Outside

(* Core 1 loops for ever and core 0's executor polls what is woken; nobody  *)
(* outside has to do anything.                                              *)
Fairness == WF_vars(Engine) /\ WF_vars(Saves)

Spec == Init /\ [][Next]_vars
FairSpec == Spec /\ Fairness

(***************************************************************************)
(* Properties.                                                              *)
(***************************************************************************)
(* Core 1 is in the RAM loop while the flash is erased and written: it runs *)
(* from that flash (core1.rs, config.rs).  Excused: PARKED left over from   *)
(* the save before, which core 1 was about to clear.                        *)
FlashSafe == save.step = "erased" => core1.pc = "parked" \/ "stale" \in excuses

(* The two cores' rings lose, repeat and reorder nothing: core 1 is done    *)
(* with the frames in the order core 0 queued them (submit_tx, core1_main), *)
(* what it heard reaches the stack in the order of the line (push_rx,       *)
(* with_rx), and data goes out only after the CTS for its RTS (directed_tx).*)
Received == stackRx \o [i \in 1..Used(rx) |-> rx.slots[(rx.tail + i - 1) % RxSlots]]

FramesInOrder ==
    /\ \A i \in DOMAIN gone : gone[i] = i
    /\ Len(gone) + Used(tx) = submitted
    /\ \A i, j \in DOMAIN Received : i < j /\ Received[j].id > 0 => Received[i].id < Received[j].id
    /\ core1.pc = "data" => ~core1.asked

(* No restart cuts a page off that the printer task had reported when the   *)
(* restart was decided (set_config, REBOOT), and no identification takes    *)
(* the port from a write (serve_printer).                                   *)
JobsFinish ==
    /\ control.pc = "flush" => job # "open"
    /\ printer = "identify" => "cut" \notin excuses

(* Together: no save and no restart harms what else the board is doing.     *)
SavesHarmless == FlashSafe /\ JobsFinish

(* When the control task has nothing to do and nobody saves, the control    *)
(* name is the printer's name (control.rs), and flash holds what is active  *)
(* (config.rs).  Excused: a rename told late, an unsaved edit in the shell, *)
(* a save that failed, was overtaken or met a power cut.                    *)
Settled ==
    (control.pc = "idle" /\ signal = None /\ save = NoSave) =>
        /\ ctl = live \/ "late" \in excuses
        /\ live = active.name \/ "shell" \in excuses
        /\ flash = <<active>> \/ excuses \cap Unsaved # {}

(* Every frame queued leaves the ring and every save ends, however busy the *)
(* line: attempts are counted (backoff.rs) and a save waits for the parking *)
(* no longer than its deadline (config::save).                              *)
QueuesDrain == []<>(Used(tx) = 0 /\ save.owner = None)

=============================================================================
