------------------------------ MODULE Settings ------------------------------
(***************************************************************************)
(* The settings of the power supply controller and where they are kept:    *)
(* FPGA registers and scale factors (volatile) and the QSPI flash with one *)
(* sector per channel.                                                     *)
(*                                                                         *)
(* Two tasks run the same chan_settings(): the network thread and, with a  *)
(* lower priority, the console.  Nothing locks, so the network thread may  *)
(* run between any two steps of the console, and the console only runs     *)
(* while the network thread waits.  The supply may lose power or be        *)
(* rebooted at any step.                                                   *)
(***************************************************************************)
CONSTANTS
  Chans,      \* the channels
  Fields,     \* the members of QspiData_t followed
  Values,     \* what a message may set a member to; module Scaling says how
  NoChan,     \* the channel of a task that is in no command
  Blank,      \* what an erased flash word reads as
  Junk        \* what a word of unknown origin holds

ASSUME SettingsAssumption ==
  /\ NoChan \notin Chans
  /\ 0 \in Values /\ Blank \notin Values /\ Junk \notin Values /\ Blank # Junk

VARIABLES
  up,        \* the tasks run; FALSE from a reset until the settings are loaded
  live,      \* the settings in force: registers and scalefactors[]
  flash,     \* the page at the start of each channel's sector
  task,      \* where each task is
  qspi,      \* who uses QspiInstance
  saved,     \* history: the page each channel's last save gathered
  lost       \* history: channels whose last save was cut short or disturbed

vars == <<up, live, flash, task, qspi, saved, lost>>

Tasks == {"net", "con"}
Words == Values \cup {Blank, Junk}
Page  == [Fields -> Words]
Erased == [f \in Fields |-> Blank]
NoPage == [f \in Fields |-> Junk]

(* A task in chan_settings(): the buffer on its stack, and as history what *)
(* the other task disturbed.                                               *)
Idle == [pc |-> "idle", op |-> "load", c |-> NoChan, buf |-> NoPage, hit |-> {}]

FlashSteps == {"erase", "program", "read"}

(* Settings and pages stay well-formed, and the flash is in use only by a  *)
(* console command that has not ended.                                     *)
TypeOK ==
  /\ up \in BOOLEAN
  /\ live \in [Chans -> Page] /\ flash \in [Chans -> Page] /\ saved \in [Chans -> Page]
  /\ task \in [Tasks -> [pc : FlashSteps \cup {"idle", "gather", "disperse", "hung"},
                         op : {"save", "load"}, c : Chans \cup {NoChan}, buf : Page,
                         hit : SUBSET {"flash", "live"}]]
  /\ qspi \in {"free", "con", "crossed"}
  /\ qspi # "free" => up /\ task["con"].pc \in FlashSteps
  /\ lost \subseteq Chans

-----------------------------------------------------------------------------
(* Programming a flash page only clears bits.                              *)
Programmed(old, new) ==
  [f \in Fields |-> CASE old[f] = Blank \/ old[f] = new[f] -> new[f]
                      [] new[f] = Blank -> old[f]
                      [] OTHER -> Junk]

-----------------------------------------------------------------------------
(* Out of the factory: nothing saved.                                      *)
Init ==
  /\ up = FALSE /\ qspi = "free"
  /\ live = [c \in Chans |-> [f \in Fields |-> 0]]
  /\ flash = [c \in Chans |-> Erased] /\ saved = flash
  /\ task = [t \in Tasks |-> Idle]
  /\ lost = {}

(* Task t is at pc and may run: the console has the lower priority.        *)
At(t, pc) == up /\ task[t].pc = pc /\ (t = "con" => task["net"].pc = "idle")

(* The network thread uses the flash in the middle of a flash function of  *)
(* the console.                                                            *)
Crosses(t, pc) == t = "net" /\ qspi # "free" /\ pc \in FlashSteps

(* What a step of the network thread disturbs of the console's command.    *)
Disturbs(t, pc) ==
  (IF \/ Crosses(t, pc) /\ pc # "read"
      \/ pc \in {"erase", "program"} /\ task[t].c = task["con"].c THEN {"flash"} ELSE {})
  \cup (IF live' # live THEN {"live"} ELSE {})

(* Task t goes on from pc, its record becoming r.                          *)
Step(t, pc, r) ==
  /\ task' = [u \in Tasks |->
                CASE u = t -> IF Crosses(t, pc) THEN [r EXCEPT !.hit = @ \cup {"flash"}] ELSE r
                  [] u # t /\ task[u].pc = "idle" -> task[u]
                  [] OTHER -> [task[u] EXCEPT !.hit = @ \cup Disturbs(t, pc)]]
  /\ UNCHANGED up

Goto(t, pc) == [task[t] EXCEPT !.pc = pc]

(* The gain, offset, threshold, count limit, mask and scale factor         *)
(* messages: one register or scale factor is written.                      *)
Set(t, c, f) ==
  /\ At(t, "idle")
  /\ \E v \in Values : live' = [live EXCEPT ![c][f] = v]
  /\ Step(t, "idle", Idle)
  /\ UNCHANGED <<flash, qspi, saved, lost>>

-----------------------------------------------------------------------------
(* WRITE_QSPI_MSG and READ_QSPI_MSG.                                       *)

Save(t, c) ==
  /\ At(t, "idle")
  /\ UNCHANGED <<live, flash, qspi, saved, lost>>
  /\ Step(t, "idle", [Idle EXCEPT !.pc = "erase", !.op = "save", !.c = c])

Load(t, c) ==
  /\ At(t, "idle")
  /\ UNCHANGED <<live, flash, qspi, saved, lost>>
  /\ Step(t, "idle", [Idle EXCEPT !.pc = "read", !.c = c])

(* The console enters a flash function.  The network thread may run before *)
(* it is through with its transfers.                                       *)
StartTransfer ==
  /\ qspi = "free" /\ \E pc \in FlashSteps : At("con", pc)
  /\ qspi' = "con"
  /\ UNCHANGED <<up, live, flash, task, saved, lost>>

(* Mutant: a transfer of the console is left open.                         *)
EndTransferLeavesBusy(t, pc) ==
  /\ t = "con" => qspi # "free"
  /\ UNCHANGED qspi

EndTransfer(t, pc) ==
  /\ t = "con" => qspi # "free"
  /\ qspi' = CASE t = "con"                        -> "free"
               [] Crosses(t, pc) /\ pc # "read"    -> "crossed"
               [] OTHER                            -> qspi

(* Whether the flash does what a task asks for.  In the middle of a        *)
(* console's function the driver may refuse the network thread (a transfer *)
(* is under way) or the chip ignore it (it is writing); what got through   *)
(* has used up the console's write enable.  Nobody looks at the refusal.   *)
Outcomes(t, pc) ==
  IF Crosses(t, pc) \/ (t = "con" /\ qspi = "crossed" /\ pc # "read") THEN BOOLEAN ELSE {TRUE}

(* Refused, erase and program poll a status byte nobody has written,       *)
(* perhaps forever.                                                        *)
AfterPoll(t, done, next) == IF t = "net" /\ ~done THEN {next, "hung"} ELSE {next}

(* Mutant: the sector is not erased.                                       *)
EraseSectNothing(t) ==
  /\ At(t, "erase")
  /\ UNCHANGED <<live, flash, saved, lost>>
  /\ EndTransfer(t, "erase")
  /\ Step(t, "erase", Goto(t, "gather"))

QspiFlashEraseSect(t) ==
  /\ At(t, "erase")
  /\ UNCHANGED <<live, saved, lost>>
  /\ EndTransfer(t, "erase")
  /\ \E done \in Outcomes(t, "erase") :
       /\ flash' = IF done THEN [flash EXCEPT ![task[t].c] = Erased] ELSE flash
       /\ \E next \in AfterPoll(t, done, "gather") : Step(t, "erase", Goto(t, next))

(* Mutant: members of qspidata are left as they are on the stack.          *)
GatherNothing(t) ==
  /\ At(t, "gather")
  /\ UNCHANGED <<live, flash, qspi, saved, lost>>
  /\ Step(t, "gather", Goto(t, "program"))

QspiGatherData(t) ==
  /\ At(t, "gather")
  /\ UNCHANGED <<live, flash, qspi, saved, lost>>
  /\ Step(t, "gather", [Goto(t, "program") EXCEPT !.buf = live[task[t].c]])

QspiFlashWrite(t) ==
  LET k == task[t] IN
  /\ At(t, "program")
  /\ UNCHANGED live
  /\ EndTransfer(t, "program")
  /\ \E done \in Outcomes(t, "program") :
       /\ flash' = IF done THEN [flash EXCEPT ![k.c] = Programmed(@, k.buf)] ELSE flash
       /\ \E next \in AfterPoll(t, done, "read") : Step(t, "program", Goto(t, next))
  /\ saved' = [saved EXCEPT ![k.c] = k.buf]
  /\ lost' = IF "flash" \in task'[t].hit THEN lost \cup {k.c} ELSE lost \ {k.c}

(* A refused read leaves the buffer on the stack as it was, one the chip   *)
(* ignores fills it with anything.                                         *)
QspiFlashRead(t) ==
  /\ At(t, "read")
  /\ UNCHANGED <<live, flash, saved, lost>>
  /\ EndTransfer(t, "read")
  /\ \E buf \in {flash[task[t].c]} \cup (IF Crosses(t, "read") THEN {task[t].buf, NoPage} ELSE {}) :
       Step(t, "read", [Goto(t, "disperse") EXCEPT !.buf = buf])

QspiDisperseData(t) ==
  /\ At(t, "disperse")
  /\ live' = [live EXCEPT ![task[t].c] = task[t].buf]
  /\ Step(t, "disperse", Idle)
  /\ UNCHANGED <<flash, qspi, saved, lost>>

-----------------------------------------------------------------------------
(* Power is lost, or the processor is reset: an erase or a page program    *)
(* under way leaves anything behind.                                       *)
Saving(c) == {t \in Tasks : task[t].c = c /\ task[t].pc \in {"erase", "gather", "program"}}

Reset ==
  /\ up' = FALSE /\ qspi' = "free"
  /\ live' = [c \in Chans |-> [f \in Fields |-> 0]]
  /\ task' = [t \in Tasks |-> Idle]
  /\ lost' = lost \cup {c \in Chans : Saving(c) # {}}
  /\ \E garbled \in SUBSET {c \in Chans : \E t \in Saving(c) : task[t].pc # "gather"} :
       flash' = [c \in Chans |-> IF c \in garbled THEN NoPage ELSE flash[c]]
  /\ UNCHANGED saved

(* realmain() loads every channel from flash, without looking whether      *)
(* anything was ever saved; only then do the network and the console       *)
(* start.                                                                  *)
InitSettingsfromQspi ==
  /\ ~up /\ up' = TRUE
  /\ live' = flash
  /\ UNCHANGED <<flash, task, qspi, saved, lost>>

Next ==
  \/ \E t \in Tasks, c \in Chans :
       \/ \E f \in Fields : Set(t, c, f)
       \/ Save(t, c) \/ Load(t, c)
  \/ \E t \in Tasks :
       \/ QspiFlashEraseSect(t) \/ QspiGatherData(t) \/ QspiFlashWrite(t)
       \/ QspiFlashRead(t) \/ QspiDisperseData(t)
  \/ StartTransfer
  \/ Reset \/ InitSettingsfromQspi

Spec == Init /\ [][Next]_vars

-----------------------------------------------------------------------------
(* Properties.                                                             *)

(* What was saved is what the supply runs with after a reset, whenever the *)
(* reset comes: settings loaded at boot are the last saved ones, unless    *)
(* the reset cut that save short or the two tasks' flash commands for the  *)
(* channel overlapped.  In particular a save repairs whatever an earlier   *)
(* overlap or an interrupted save left in the sector.                      *)
SavedSurvives ==
  [][~up /\ up' => \A c \in Chans \ lost : live'[c] = saved[c]]_vars

(* The last step of WRITE_QSPI_MSG.                                        *)
EndsSave(t) == task[t].pc = "disperse" /\ task[t].op = "save" /\ task'[t].pc = "idle" /\ up'

(* control.c: "read it back out from qspi, just for kicks": the read back  *)
(* and the dispersal at the end of a save leave all settings in force as   *)
(* they are, unless the other task used the flash or changed a setting     *)
(* while the save was under way.                                           *)
SaveTransparent ==
  [][\A t \in Tasks : EndsSave(t) /\ task[t].hit = {} => live' = live]_vars

=============================================================================
