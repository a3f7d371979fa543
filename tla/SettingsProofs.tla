--------------------------- MODULE SettingsProofs ---------------------------
(***************************************************************************)
(* For any number of channels and settings: what was saved is what the     *)
(* supply starts with, and a save changes no setting in force, however the *)
(* two tasks interleave and whenever a reset comes.                        *)
(***************************************************************************)
EXTENDS Settings, TLAPS

TaskType ==
  [pc : FlashSteps \cup {"idle", "gather", "disperse", "hung"},
   op : {"save", "load"}, c : Chans \cup {NoChan}, buf : Page,
   hit : SUBSET {"flash", "live"}]

(* What a task in the middle of a command may rely on as long as the other *)
(* one has not disturbed it.                                               *)
TaskOK(k, fl, lv) ==
  /\ k.pc # "idle" => k.c \in Chans
  /\ k.pc \in {"gather", "program"} /\ "flash" \notin k.hit => fl[k.c] = Erased
  /\ k.pc = "program" /\ "live" \notin k.hit => k.buf = lv[k.c]
  /\ k.pc = "read" /\ k.op = "save" /\ k.hit = {} => fl[k.c] = lv[k.c]
  /\ k.pc = "disperse" /\ k.op = "save" /\ k.hit = {} => k.buf = lv[k.c]

(* The sector of a channel is erased and not yet written.                  *)
Open(c) == \E t \in Tasks : task[t].c = c /\ task[t].pc \in {"gather", "program"}

TasksInv ==
  /\ TypeOK
  /\ \A t \in Tasks : TaskOK(task[t], flash, live)
  /\ ~up => task = [t \in Tasks |-> Idle]
  /\ qspi = "crossed" => "flash" \in task["con"].hit

FlashInv == \A c \in Chans \ lost : ~Open(c) => flash[c] = saved[c]

SettingsInv == TasksInv /\ FlashInv

-----------------------------------------------------------------------------
(* Pages and task records are well-formed.                                 *)
LEMMA PagesOK == Erased \in Page /\ NoPage \in Page /\ [f \in Fields |-> 0] \in Page
  BY SettingsAssumption DEF Erased, NoPage, Page, Words

(* A task in no command has no channel and no marks.                       *)
LEMMA IdleOK == Idle \in TaskType /\ Idle.pc = "idle" /\ Idle.c = NoChan /\ Idle.hit = {}
  BY PagesOK DEF Idle, TaskType

(* An erased page takes any data.                                          *)
LEMMA ProgramErased ==
  ASSUME NEW b \in Page
  PROVE  Programmed(Erased, b) = b
  <1>1. \A f \in Fields : Programmed(Erased, b)[f] = b[f]
    BY DEF Programmed, Erased
  <1>2. Programmed(Erased, b) \in [Fields -> Words]
    BY <1>1 DEF Programmed, Page
  <1> QED BY <1>1, <1>2 DEF Page

(* Programming leaves a page.                                              *)
LEMMA ProgrammedPage ==
  ASSUME NEW a \in Page, NEW b \in Page
  PROVE  Programmed(a, b) \in Page
  <1>1. ASSUME NEW f \in Fields
        PROVE  Programmed(a, b)[f] \in Words
    BY DEF Programmed, Page, Words
  <1> QED BY <1>1 DEF Programmed, Page

(* A task that is told of what changed under it relies on nothing that is  *)
(* gone.                                                                   *)
LEMMA Bystander ==
  ASSUME NEW k \in TaskType, NEW fl, NEW lv, NEW fl2, NEW lv2,
         NEW D \in SUBSET {"flash", "live"},
         TaskOK(k, fl, lv),
         "live" \notin D => lv2 = lv,
         k.pc # "idle" /\ "flash" \notin D => fl2[k.c] = fl[k.c]
  PROVE  /\ [k EXCEPT !.hit = @ \cup D] \in TaskType
         /\ TaskOK([k EXCEPT !.hit = @ \cup D], fl2, lv2)
  <1> DEFINE k2 == [k EXCEPT !.hit = @ \cup D]
  <1>1. k2 \in TaskType /\ k2.hit = k.hit \cup D
        /\ k2.pc = k.pc /\ k2.c = k.c /\ k2.buf = k.buf /\ k2.op = k.op
    BY DEF TaskType
  <1> HIDE DEF k2
  <1>2. TaskOK(k2, fl2, lv2)
    BY <1>1 DEF TaskOK
  <1> QED BY <1>1, <1>2 DEF k2

-----------------------------------------------------------------------------
(* What a step does to the tasks: t becomes r, marked if it crosses a      *)
(* transfer of the console, and the other task is told.                    *)
LEMMA StepFacts ==
  ASSUME TasksInv, NEW t \in Tasks, NEW pc, NEW r \in TaskType, At(t, pc), Step(t, pc, r)
  PROVE  /\ up /\ up' = up
         /\ task' \in [Tasks -> TaskType]
         /\ ~Crosses(t, pc) => task'[t] = r
         /\ Crosses(t, pc) => task'[t] = [r EXCEPT !.hit = @ \cup {"flash"}]
         /\ \A u \in Tasks \ {t} :
              /\ task[u].pc = "idle" => task'[u] = task[u]
              /\ task[u].pc # "idle" =>
                   u = "con" /\ t = "net" /\ task'[u] = [task[u] EXCEPT !.hit = @ \cup Disturbs(t, pc)]
  <1>1. up /\ up' = up
    BY DEF At, Step
  <1>2. task \in [Tasks -> TaskType]
    BY DEF TasksInv, TypeOK, TaskType
  <1>3. Disturbs(t, pc) \in SUBSET {"flash", "live"}
    BY DEF Disturbs
  <1>4. [r EXCEPT !.hit = @ \cup {"flash"}] \in TaskType
    BY DEF TaskType
  <1>5. \A u \in Tasks : [task[u] EXCEPT !.hit = @ \cup Disturbs(t, pc)] \in TaskType
    <2> HIDE DEF Disturbs
    <2> QED BY <1>2, <1>3 DEF TaskType
  <1>6. \A u \in Tasks \ {t} : task[u].pc # "idle" => u = "con" /\ t = "net"
    BY DEF At, Tasks
  <1> HIDE DEF Disturbs, Crosses
  <1>7. task' = [u \in Tasks |->
           CASE u = t -> IF Crosses(t, pc) THEN [r EXCEPT !.hit = @ \cup {"flash"}] ELSE r
             [] u # t /\ task[u].pc = "idle" -> task[u]
             [] OTHER -> [task[u] EXCEPT !.hit = @ \cup Disturbs(t, pc)]]
    BY DEF Step
  <1>8. /\ ~Crosses(t, pc) => task'[t] = r
        /\ Crosses(t, pc) => task'[t] = [r EXCEPT !.hit = @ \cup {"flash"}]
    BY <1>7
  <1>9. ASSUME NEW u \in Tasks \ {t}
        PROVE  /\ task[u].pc = "idle" => task'[u] = task[u]
               /\ task[u].pc # "idle" => task'[u] = [task[u] EXCEPT !.hit = @ \cup Disturbs(t, pc)]
    BY <1>7
  <1>10. \A u \in Tasks : task'[u] \in TaskType
    BY <1>2, <1>4, <1>5, <1>8, <1>9
  <1>11. task' \in [Tasks -> TaskType]
    BY <1>7, <1>10
  <1> QED BY <1>1, <1>6, <1>8, <1>9, <1>11

(* A step keeps what the tasks rely on if its own task's record is right   *)
(* and it writes the flash only in its own channel's sector.               *)
LEMMA StepKeeps ==
  ASSUME TasksInv, NEW t \in Tasks, NEW pc, NEW r \in TaskType, At(t, pc), Step(t, pc, r),
         TaskOK(task'[t], flash', live'),
         live' \in [Chans -> Page], flash' \in [Chans -> Page],
         saved' \in [Chans -> Page], lost' \subseteq Chans,
         \A c \in Chans : flash'[c] = flash[c] \/ (c = task[t].c /\ pc \in {"erase", "program"}),
         \/ pc \in FlashSteps /\ EndTransfer(t, pc)
         \/ pc \notin FlashSteps /\ qspi' = qspi
  PROVE  TasksInv'
  <1>1. /\ up /\ up' = up
        /\ task' \in [Tasks -> TaskType] /\ task \in [Tasks -> TaskType]
        /\ \A u \in Tasks \ {t} :
             /\ task[u].pc = "idle" => task'[u] = task[u]
             /\ task[u].pc # "idle" =>
                  u = "con" /\ t = "net" /\ task'[u] = [task[u] EXCEPT !.hit = @ \cup Disturbs(t, pc)]
    BY StepFacts DEF TasksInv, TypeOK, TaskType
  <1>2. ASSUME NEW u \in Tasks \ {t}
        PROVE  TaskOK(task'[u], flash', live')
    <2>1. CASE task[u].pc = "idle"
      BY <1>1, <2>1 DEF TaskOK
    <2>2. CASE task[u].pc # "idle"
      <3>1. Disturbs(t, pc) \in SUBSET {"flash", "live"}
        BY DEF Disturbs
      <3>2. "live" \notin Disturbs(t, pc) => live' = live
        BY DEF Disturbs
      <3>3. u = "con" /\ task[u].c \in Chans /\ TaskOK(task[u], flash, live) /\ task[u] \in TaskType
        BY <1>1, <2>2 DEF TasksInv, TaskOK
      <3>4. "flash" \notin Disturbs(t, pc) => flash'[task[u].c] = flash[task[u].c]
        BY <3>3 DEF Disturbs
      <3>5. TaskOK([task[u] EXCEPT !.hit = @ \cup Disturbs(t, pc)], flash', live')
        BY <3>1, <3>2, <3>3, <3>4, Bystander
      <3> QED BY <1>1, <2>2, <3>5
    <2> QED BY <2>1, <2>2
  <1>3. \A u \in Tasks : TaskOK(task'[u], flash', live')
    BY <1>2
  <1>4. qspi' \in {"free", "con", "crossed"}
    BY DEF EndTransfer, TasksInv, TypeOK
  <1>5. ASSUME qspi' # "free"
        PROVE  /\ task'["con"].pc \in FlashSteps
               /\ qspi' = "crossed" => "flash" \in task'["con"].hit
    <2>1. t # "con"
      <3> SUFFICES ASSUME t = "con" PROVE FALSE
        OBVIOUS
      <3>1. task["con"].pc = pc
        BY DEF At
      <3>2. CASE pc \in FlashSteps /\ EndTransfer(t, pc)
        BY <1>5, <3>2 DEF EndTransfer, Crosses
      <3>3. CASE pc \notin FlashSteps /\ qspi' = qspi
        BY <1>5, <3>1, <3>3 DEF TasksInv, TypeOK
      <3> QED BY <3>2, <3>3
    <2>2. t = "net" /\ "con" \in Tasks \ {t}
      BY <2>1 DEF Tasks
    <2>3. qspi # "free" /\ task["con"].pc \in FlashSteps
      <3>1. qspi # "free"
        BY <1>5, <2>2 DEF EndTransfer, Crosses
      <3> QED BY <3>1 DEF TasksInv, TypeOK
    <2>4. /\ task["con"] \in TaskType /\ task["con"].pc # "idle"
          /\ task'["con"] = [task["con"] EXCEPT !.hit = @ \cup Disturbs(t, pc)]
      BY <1>1, <2>2, <2>3 DEF FlashSteps
    <2>5. task'["con"].pc = task["con"].pc /\ task'["con"].hit = task["con"].hit \cup Disturbs(t, pc)
      BY <2>4 DEF TaskType
    <2>6. qspi' = "crossed" => qspi = "crossed" \/ (Crosses(t, pc) /\ pc # "read")
      BY <2>2 DEF EndTransfer
    <2>7. Crosses(t, pc) /\ pc # "read" => "flash" \in Disturbs(t, pc)
      BY DEF Disturbs
    <2> QED BY <2>3, <2>5, <2>6, <2>7 DEF TasksInv
  <1>6. TypeOK'
    BY <1>1, <1>4, <1>5 DEF TypeOK, TaskType
  <1> QED BY <1>1, <1>3, <1>5, <1>6 DEF TasksInv

(* Where the tasks are after a step.                                       *)
LEMMA StepShape ==
  ASSUME TasksInv, NEW t \in Tasks, NEW pc, NEW r \in TaskType, At(t, pc), Step(t, pc, r)
  PROVE  /\ task \in [Tasks -> TaskType] /\ task' \in [Tasks -> TaskType]
         /\ task[t].pc = pc
         /\ task'[t].pc = r.pc /\ task'[t].c = r.c /\ task'[t].buf = r.buf /\ task'[t].op = r.op
         /\ task'[t].hit = IF Crosses(t, pc) THEN r.hit \cup {"flash"} ELSE r.hit
         /\ \A u \in Tasks \ {t} : task'[u].pc = task[u].pc /\ task'[u].c = task[u].c
  <1>1. task \in [Tasks -> TaskType] /\ task[t].pc = pc
    BY DEF TasksInv, TypeOK, TaskType, At
  <1>2. LET s == [r EXCEPT !.hit = @ \cup {"flash"}] IN
        s.pc = r.pc /\ s.c = r.c /\ s.buf = r.buf /\ s.op = r.op /\ s.hit = r.hit \cup {"flash"}
    BY DEF TaskType
  <1>3. ASSUME NEW u \in Tasks, NEW D
        PROVE  LET s == [task[u] EXCEPT !.hit = @ \cup D] IN s.pc = task[u].pc /\ s.c = task[u].c
    BY <1>1 DEF TaskType
  <1>4. /\ task' \in [Tasks -> TaskType]
        /\ ~Crosses(t, pc) => task'[t] = r
        /\ Crosses(t, pc) => task'[t] = [r EXCEPT !.hit = @ \cup {"flash"}]
    BY StepFacts
  <1>0. \A u \in Tasks \ {t} :
          /\ task[u].pc = "idle" => task'[u] = task[u]
          /\ task[u].pc # "idle" =>
               u = "con" /\ t = "net" /\ task'[u] = [task[u] EXCEPT !.hit = @ \cup Disturbs(t, pc)]
    BY StepFacts
  <1>5. ASSUME NEW u \in Tasks \ {t}
        PROVE  task'[u].pc = task[u].pc /\ task'[u].c = task[u].c
    <2>1. \/ task'[u] = task[u]
          \/ task'[u] = [task[u] EXCEPT !.hit = @ \cup Disturbs(t, pc)]
      BY <1>0
    <2> QED BY <1>3, <2>1
  <1> HIDE DEF Crosses
  <1>6. /\ task'[t].pc = r.pc /\ task'[t].c = r.c /\ task'[t].buf = r.buf /\ task'[t].op = r.op
        /\ task'[t].hit = IF Crosses(t, pc) THEN r.hit \cup {"flash"} ELSE r.hit
    BY <1>2, <1>4
  <1> QED BY <1>1, <1>4, <1>5, <1>6

(* A step that leaves flash and save history alone and does not abandon an *)
(* open sector keeps every other sector as saved.                          *)
LEMMA FlashKeeps ==
  ASSUME SettingsInv, NEW t \in Tasks, NEW pc, NEW r \in TaskType, At(t, pc), Step(t, pc, r),
         UNCHANGED <<flash, saved, lost>>,
         pc \in {"gather", "program"} => r.pc \in {"gather", "program"} /\ r.c = task[t].c
  PROVE  FlashInv'
  <1>1. \A u \in Tasks \ {t} : task'[u].pc = task[u].pc /\ task'[u].c = task[u].c
    BY StepShape DEF SettingsInv
  <1>2. task[t].pc = pc /\ task'[t].pc = r.pc /\ task'[t].c = r.c
    BY StepShape DEF SettingsInv
  <1>3. ASSUME NEW c \in Chans, Open(c)
        PROVE  Open(c)'
    BY <1>1, <1>2, <1>3 DEF Open
  <1> QED BY <1>3 DEF SettingsInv, FlashInv

(* What the types say of a task at a step of a command.                    *)
LEMMA InCommand ==
  ASSUME TasksInv, NEW t \in Tasks, NEW pc, At(t, pc)
  PROVE  /\ task[t] \in TaskType /\ task[t].pc = pc /\ TaskOK(task[t], flash, live)
         /\ live \in [Chans -> Page] /\ flash \in [Chans -> Page] /\ saved \in [Chans -> Page]
         /\ lost \subseteq Chans
         /\ pc # "idle" => task[t].c \in Chans
  BY DEF TasksInv, TypeOK, TaskType, At, TaskOK

(* Goto only moves the program counter.                                    *)
LEMMA GotoFacts ==
  ASSUME NEW t \in Tasks, task[t] \in TaskType,
         NEW pc \in FlashSteps \cup {"idle", "gather", "disperse", "hung"}
  PROVE  /\ Goto(t, pc) \in TaskType /\ Goto(t, pc).pc = pc
         /\ Goto(t, pc).op = task[t].op /\ Goto(t, pc).c = task[t].c
         /\ Goto(t, pc).buf = task[t].buf /\ Goto(t, pc).hit = task[t].hit
  BY DEF Goto, TaskType

(* Undisturbed, the flash does as it is told.                              *)
LEMMA Undisturbed ==
  ASSUME TasksInv, NEW t \in Tasks, NEW pc, ~Crosses(t, pc), "flash" \notin task[t].hit
  PROVE  Outcomes(t, pc) = {TRUE}
  BY DEF Outcomes, TasksInv

-----------------------------------------------------------------------------
(* One lemma per action.                                                   *)

(* A setting message.                                                      *)
LEMMA SetKeeps ==
  ASSUME SettingsInv, NEW t \in Tasks, NEW c \in Chans, NEW f \in Fields, Set(t, c, f)
  PROVE  SettingsInv'
  <1>1. /\ TasksInv /\ At(t, "idle") /\ Step(t, "idle", Idle)
        /\ UNCHANGED <<flash, qspi, saved, lost>>
    BY DEF Set, SettingsInv
  <1>2. live' \in [Chans -> Page]
    <2>1. PICK v \in Values : live' = [live EXCEPT ![c][f] = v]
      BY DEF Set
    <2>2. live \in [Chans -> Page] /\ v \in Words
      BY <1>1, InCommand DEF Words
    <2>3. [live[c] EXCEPT ![f] = v] \in Page
      BY <2>2 DEF Page
    <2> QED BY <2>1, <2>2, <2>3
  <1>3. task'[t].pc = "idle"
    BY <1>1, IdleOK, StepShape
  <1>4. TaskOK(task'[t], flash', live')
    BY <1>3 DEF TaskOK
  <1>5. "idle" \notin FlashSteps
    BY DEF FlashSteps
  <1>6. TasksInv'
    BY <1>1, <1>2, <1>4, <1>5, IdleOK, InCommand, StepKeeps
  <1>7. FlashInv'
    BY <1>1, IdleOK, FlashKeeps
  <1> QED BY <1>6, <1>7 DEF SettingsInv

(* A command starts.                                                       *)
LEMMA StartKeeps ==
  ASSUME SettingsInv, NEW t \in Tasks, NEW c \in Chans, Save(t, c) \/ Load(t, c)
  PROVE  SettingsInv'
  <1>1. /\ TasksInv /\ At(t, "idle")
        /\ UNCHANGED <<live, flash, qspi, saved, lost>>
    BY DEF Save, Load, SettingsInv
  <1>2. PICK r \in TaskType : /\ Step(t, "idle", r) /\ r.c \in Chans
                              /\ \/ r.pc = "erase"
                                 \/ r.pc = "read" /\ r.op = "load"
    <2>1. CASE Save(t, c)
      <3> DEFINE r == [Idle EXCEPT !.pc = "erase", !.op = "save", !.c = c]
      <3>1. r \in TaskType /\ r.c = c /\ r.pc = "erase"
        BY IdleOK DEF TaskType, FlashSteps
      <3>2. Step(t, "idle", r)
        BY <2>1 DEF Save
      <3> HIDE DEF r
      <3> QED BY <3>1, <3>2
    <2>2. CASE Load(t, c)
      <3> DEFINE r == [Idle EXCEPT !.pc = "read", !.c = c]
      <3>1. r \in TaskType /\ r.c = c /\ r.pc = "read" /\ r.op = "load"
        BY PagesOK DEF Idle, TaskType, FlashSteps
      <3>2. Step(t, "idle", r)
        BY <2>2 DEF Load
      <3> HIDE DEF r
      <3> QED BY <3>1, <3>2
    <2> QED BY <2>1, <2>2
  <1>3. task'[t].pc = r.pc /\ task'[t].op = r.op /\ task'[t].c = r.c
    BY <1>1, <1>2, StepShape
  <1>4. TaskOK(task'[t], flash', live')
    BY <1>2, <1>3 DEF TaskOK
  <1>5. "idle" \notin FlashSteps
    BY DEF FlashSteps
  <1>6. TasksInv'
    BY <1>1, <1>2, <1>4, <1>5, InCommand, StepKeeps
  <1>7. FlashInv'
    BY <1>1, <1>2, FlashKeeps
  <1> QED BY <1>6, <1>7 DEF SettingsInv

(* Erased unless disturbed.                                                *)
LEMMA EraseKeeps ==
  ASSUME SettingsInv, NEW t \in Tasks, QspiFlashEraseSect(t)
  PROVE  SettingsInv'
  <1> DEFINE k == task[t]
  <1>1. /\ TasksInv /\ At(t, "erase") /\ EndTransfer(t, "erase")
        /\ UNCHANGED <<live, saved, lost>>
    BY DEF QspiFlashEraseSect, SettingsInv
  <1>2. k \in TaskType /\ k.c \in Chans /\ TaskOK(k, flash, live)
        /\ live \in [Chans -> Page] /\ flash \in [Chans -> Page] /\ saved \in [Chans -> Page]
        /\ lost \subseteq Chans
    BY <1>1, InCommand
  <1>0. PICK done \in Outcomes(t, "erase") :
           /\ flash' = IF done THEN [flash EXCEPT ![k.c] = Erased] ELSE flash
           /\ \E next \in AfterPoll(t, done, "gather") : Step(t, "erase", Goto(t, next))
    BY DEF QspiFlashEraseSect
  <1>3. PICK next \in AfterPoll(t, done, "gather") :
           /\ flash' = IF done THEN [flash EXCEPT ![k.c] = Erased] ELSE flash
           /\ Step(t, "erase", Goto(t, next))
    BY <1>0
  <1>4. next \in {"gather", "hung"} /\ (next = "hung" => ~done)
    BY <1>3 DEF AfterPoll
  <1> DEFINE r == Goto(t, next)
  <1>5. r \in TaskType /\ r.pc = next /\ r.c = k.c /\ r.hit = k.hit
    BY <1>2, <1>4, GotoFacts
  <1>6. Step(t, "erase", r)
    BY <1>3
  <1> HIDE DEF r
  <1>7. /\ task'[t].pc = next /\ task'[t].c = k.c
        /\ task'[t].hit = IF Crosses(t, "erase") THEN k.hit \cup {"flash"} ELSE k.hit
        /\ \A u \in Tasks \ {t} : task'[u].pc = task[u].pc /\ task'[u].c = task[u].c
    BY <1>1, <1>5, <1>6, StepShape
  <1>8. flash' \in [Chans -> Page] /\ \A c \in Chans : flash'[c] = flash[c] \/ c = k.c
    BY <1>2, <1>3, PagesOK
  <1>9. TaskOK(task'[t], flash', live')
    <2>1. ASSUME "flash" \notin task'[t].hit
          PROVE  flash'[k.c] = Erased
      <3>1. ~Crosses(t, "erase") /\ "flash" \notin k.hit
        BY <1>7, <2>1
      <3>2. done = TRUE
        BY <1>0, <1>1, <3>1, Undisturbed
      <3> QED BY <1>2, <1>3, <3>2
    <2> QED BY <1>2, <1>4, <1>7, <2>1 DEF TaskOK
  <1>10. "erase" \in FlashSteps
    BY DEF FlashSteps
  <1>11. TasksInv'
    BY <1>1, <1>2, <1>5, <1>6, <1>8, <1>9, <1>10, StepKeeps
  <1>12. ASSUME NEW c \in Chans, c \notin lost', ~Open(c)'
         PROVE  flash'[c] = saved'[c]
    <2>1. ~Open(c)
      <3>1. k.pc = "erase"
        BY <1>1 DEF At
      <3> QED BY <1>7, <1>12, <3>1 DEF Open
    <2>2. flash[c] = saved[c]
      BY <1>1, <1>12, <2>1 DEF SettingsInv, FlashInv
    <2>3. c = k.c => next # "gather"
      BY <1>7, <1>12 DEF Open
    <2>4. flash'[c] = flash[c]
      BY <1>3, <1>4, <1>8, <2>3
    <2> QED BY <1>1, <2>2, <2>4
  <1> QED BY <1>11, <1>12 DEF SettingsInv, FlashInv

(* The settings in force are gathered.                                     *)
LEMMA GatherKeeps ==
  ASSUME SettingsInv, NEW t \in Tasks, QspiGatherData(t)
  PROVE  SettingsInv'
  <1> DEFINE k == task[t]
             r == [Goto(t, "program") EXCEPT !.buf = live[k.c]]
  <1>1. /\ TasksInv /\ At(t, "gather") /\ Step(t, "gather", r)
        /\ UNCHANGED <<live, flash, qspi, saved, lost>>
    BY DEF QspiGatherData, SettingsInv
  <1>2. k \in TaskType /\ k.pc = "gather" /\ k.c \in Chans /\ TaskOK(k, flash, live)
        /\ live \in [Chans -> Page] /\ flash \in [Chans -> Page] /\ saved \in [Chans -> Page]
        /\ lost \subseteq Chans
    BY <1>1, InCommand
  <1>3. r \in TaskType /\ r.pc = "program" /\ r.c = k.c /\ r.hit = k.hit /\ r.buf = live[k.c]
    BY <1>2 DEF Goto, TaskType, FlashSteps
  <1> HIDE DEF r
  <1>4. ~Crosses(t, "gather") /\ "gather" \notin FlashSteps
    BY DEF Crosses, FlashSteps
  <1>5. task'[t].pc = "program" /\ task'[t].c = k.c /\ task'[t].hit = k.hit /\ task'[t].buf = live[k.c]
    BY <1>1, <1>3, <1>4, StepShape
  <1>6. TaskOK(task'[t], flash', live')
    BY <1>1, <1>2, <1>5 DEF TaskOK
  <1>7. TasksInv'
    BY <1>1, <1>2, <1>3, <1>4, <1>6, StepKeeps
  <1>8. FlashInv'
    BY <1>1, <1>3, FlashKeeps
  <1> QED BY <1>7, <1>8 DEF SettingsInv

(* Undisturbed, the page written is the page gathered.                     *)
LEMMA WriteKeeps ==
  ASSUME SettingsInv, NEW t \in Tasks, QspiFlashWrite(t)
  PROVE  SettingsInv'
  <1> DEFINE k == task[t]
  <1>1. /\ TasksInv /\ At(t, "program") /\ EndTransfer(t, "program") /\ live' = live
        /\ saved' = [saved EXCEPT ![k.c] = k.buf]
        /\ lost' = IF "flash" \in task'[t].hit THEN lost \cup {k.c} ELSE lost \ {k.c}
    BY DEF QspiFlashWrite, SettingsInv
  <1>2. k \in TaskType /\ k.pc = "program" /\ k.c \in Chans /\ TaskOK(k, flash, live)
        /\ live \in [Chans -> Page] /\ flash \in [Chans -> Page] /\ saved \in [Chans -> Page]
        /\ lost \subseteq Chans
    BY <1>1, InCommand
  <1>3. k.buf \in Page
    BY <1>2 DEF TaskType
  <1>4. PICK done \in Outcomes(t, "program") :
           /\ flash' = IF done THEN [flash EXCEPT ![k.c] = Programmed(@, k.buf)] ELSE flash
           /\ \E next \in AfterPoll(t, done, "read") : Step(t, "program", Goto(t, next))
    BY DEF QspiFlashWrite
  <1>5. PICK next \in AfterPoll(t, done, "read") : Step(t, "program", Goto(t, next))
    BY <1>4
  <1>6. next \in {"read", "hung"}
    BY <1>5 DEF AfterPoll
  <1> DEFINE r == Goto(t, next)
  <1>7. r \in TaskType /\ r.pc = next /\ r.c = k.c /\ r.hit = k.hit /\ r.buf = k.buf
    BY <1>2, <1>6, GotoFacts DEF FlashSteps
  <1>8. Step(t, "program", r)
    BY <1>5
  <1> HIDE DEF r
  <1>9. /\ task'[t].pc = next /\ task'[t].c = k.c
        /\ task'[t].hit = IF Crosses(t, "program") THEN k.hit \cup {"flash"} ELSE k.hit
        /\ \A u \in Tasks \ {t} : task'[u].pc = task[u].pc /\ task'[u].c = task[u].c
    BY <1>1, <1>7, <1>8, StepShape
  <1>10. flash' \in [Chans -> Page] /\ \A c \in Chans : flash'[c] = flash[c] \/ c = k.c
    <2>1. Programmed(flash[k.c], k.buf) \in Page
      BY <1>2, <1>3, ProgrammedPage
    <2> HIDE DEF k
    <2> QED BY <1>2, <1>4, <2>1
  <1>11. "flash" \notin task'[t].hit => flash'[k.c] = k.buf
    <2> SUFFICES ASSUME "flash" \notin task'[t].hit PROVE flash'[k.c] = k.buf
      OBVIOUS
    <2>1. ~Crosses(t, "program") /\ "flash" \notin k.hit
      BY <1>9
    <2>2. done = TRUE
      BY <1>1, <1>4, <2>1, Undisturbed
    <2>3. flash[k.c] = Erased
      BY <1>2, <2>1 DEF TaskOK
    <2>4. flash'[k.c] = Programmed(Erased, k.buf)
      BY <1>2, <1>4, <2>2, <2>3
    <2> QED BY <1>3, <2>4, ProgramErased
  <1>12. TaskOK(task'[t], flash', live')
    <2>1. task'[t].hit = {} => flash'[k.c] = live'[k.c]
      BY <1>1, <1>2, <1>9, <1>11 DEF TaskOK
    <2> QED BY <1>2, <1>6, <1>9, <2>1 DEF TaskOK
  <1>13. saved' \in [Chans -> Page] /\ lost' \subseteq Chans /\ "program" \in FlashSteps
    BY <1>1, <1>2, <1>3 DEF FlashSteps
  <1>14. TasksInv'
    BY <1>1, <1>2, <1>7, <1>8, <1>10, <1>12, <1>13, StepKeeps
  <1>15. ASSUME NEW c \in Chans, c \notin lost', ~Open(c)'
         PROVE  flash'[c] = saved'[c]
    <2>1. CASE c = k.c
      <3>1. "flash" \notin task'[t].hit
        BY <1>1, <1>15, <2>1
      <3> QED BY <1>1, <1>2, <1>11, <2>1, <3>1
    <2>2. CASE c # k.c
      <3>1. ~Open(c)
        BY <1>9, <1>15, <2>2 DEF Open
      <3>2. c \notin lost
        BY <1>1, <1>15, <2>2
      <3>3. flash[c] = saved[c]
        BY <3>1, <3>2 DEF SettingsInv, FlashInv
      <3> QED BY <1>1, <1>2, <1>10, <2>2, <3>3
    <2> QED BY <2>1, <2>2
  <1> QED BY <1>14, <1>15 DEF SettingsInv, FlashInv

(* Undisturbed, the page read is the page of the sector.                   *)
LEMMA ReadKeeps ==
  ASSUME SettingsInv, NEW t \in Tasks, QspiFlashRead(t)
  PROVE  SettingsInv'
  <1> DEFINE k == task[t]
  <1>1. /\ TasksInv /\ At(t, "read") /\ EndTransfer(t, "read")
        /\ UNCHANGED <<live, flash, saved, lost>>
    BY DEF QspiFlashRead, SettingsInv
  <1>2. k \in TaskType /\ k.pc = "read" /\ k.c \in Chans /\ TaskOK(k, flash, live)
        /\ live \in [Chans -> Page] /\ flash \in [Chans -> Page] /\ saved \in [Chans -> Page]
        /\ lost \subseteq Chans
    BY <1>1, InCommand
  <1>3. PICK buf \in {flash[k.c]} \cup (IF Crosses(t, "read") THEN {k.buf, NoPage} ELSE {}) :
           Step(t, "read", [Goto(t, "disperse") EXCEPT !.buf = buf])
    BY DEF QspiFlashRead
  <1>4. buf \in Page /\ (~Crosses(t, "read") => buf = flash[k.c])
    BY <1>2, <1>3, PagesOK DEF TaskType
  <1> DEFINE r == [Goto(t, "disperse") EXCEPT !.buf = buf]
  <1>5. r \in TaskType /\ r.pc = "disperse" /\ r.c = k.c /\ r.hit = k.hit /\ r.buf = buf /\ r.op = k.op
    <2>1. LET g == Goto(t, "disperse") IN
          g \in TaskType /\ g.pc = "disperse" /\ g.c = k.c /\ g.hit = k.hit /\ g.op = k.op
      BY <1>2, GotoFacts
    <2> HIDE DEF k
    <2> QED BY <1>4, <2>1 DEF TaskType
  <1>6. Step(t, "read", r)
    BY <1>3
  <1> HIDE DEF r
  <1>7. /\ task'[t].pc = "disperse" /\ task'[t].c = k.c /\ task'[t].buf = buf /\ task'[t].op = k.op
        /\ task'[t].hit = IF Crosses(t, "read") THEN k.hit \cup {"flash"} ELSE k.hit
    <2>1. /\ task'[t].pc = r.pc /\ task'[t].c = r.c /\ task'[t].buf = r.buf /\ task'[t].op = r.op
          /\ task'[t].hit = IF Crosses(t, "read") THEN r.hit \cup {"flash"} ELSE r.hit
      BY <1>1, <1>5, <1>6, StepShape
    <2> QED BY <1>5, <2>1
  <1>8. TaskOK(task'[t], flash', live')
    <2>1. task'[t].hit = {} /\ k.op = "save" => buf = live[k.c]
      BY <1>2, <1>4, <1>7 DEF TaskOK
    <2> QED BY <1>1, <1>2, <1>7, <2>1 DEF TaskOK
  <1>9. "read" \in FlashSteps
    BY DEF FlashSteps
  <1>10. TasksInv'
    BY <1>1, <1>2, <1>5, <1>6, <1>8, <1>9, StepKeeps
  <1>11. FlashInv'
    BY <1>1, <1>5, <1>6, FlashKeeps
  <1> QED BY <1>10, <1>11 DEF SettingsInv

(* The page becomes the settings in force.                                 *)
LEMMA DisperseKeeps ==
  ASSUME SettingsInv, NEW t \in Tasks, QspiDisperseData(t)
  PROVE  SettingsInv'
  <1>1. /\ TasksInv /\ At(t, "disperse") /\ Step(t, "disperse", Idle)
        /\ live' = [live EXCEPT ![task[t].c] = task[t].buf]
        /\ UNCHANGED <<flash, qspi, saved, lost>>
    BY DEF QspiDisperseData, SettingsInv
  <1>2. live' \in [Chans -> Page]
    BY <1>1, InCommand DEF TaskType
  <1>3. task'[t].pc = "idle"
    BY <1>1, IdleOK, StepShape
  <1>4. TaskOK(task'[t], flash', live')
    BY <1>3 DEF TaskOK
  <1>5. "disperse" \notin FlashSteps
    BY DEF FlashSteps
  <1>6. TasksInv'
    BY <1>1, <1>2, <1>4, <1>5, IdleOK, InCommand, StepKeeps
  <1>7. FlashInv'
    BY <1>1, IdleOK, FlashKeeps
  <1> QED BY <1>6, <1>7 DEF SettingsInv

(* A reset abandons only sectors it marks as lost.                         *)
LEMMA ResetKeeps ==
  ASSUME SettingsInv, Reset
  PROVE  SettingsInv'
  <1>1. PICK garbled \in SUBSET {c \in Chans : \E t \in Saving(c) : task[t].pc # "gather"} :
          flash' = [c \in Chans |-> IF c \in garbled THEN NoPage ELSE flash[c]]
    BY DEF Reset
  <1>2. /\ up' = FALSE /\ qspi' = "free" /\ saved' = saved
        /\ live' = [c \in Chans |-> [f \in Fields |-> 0]]
        /\ task' = [t \in Tasks |-> Idle]
        /\ lost' = lost \cup {c \in Chans : Saving(c) # {}}
        /\ TypeOK
    BY DEF Reset, SettingsInv, TasksInv
  <1>3. TypeOK'
    <2>1. live' \in [Chans -> Page] /\ flash' \in [Chans -> Page] /\ task' \in [Tasks -> TaskType]
      BY <1>1, <1>2, PagesOK, IdleOK DEF TypeOK
    <2> QED BY <1>2, <2>1 DEF TypeOK, TaskType
  <1>4. \A t \in Tasks : TaskOK(task'[t], flash', live')
    BY <1>2, IdleOK DEF TaskOK
  <1>5. ASSUME NEW c \in Chans, c \notin lost'
        PROVE  flash'[c] = saved'[c]
    <2>1. c \notin lost /\ Saving(c) = {}
      BY <1>2, <1>5
    <2>2. ~Open(c)
      BY <2>1 DEF Open, Saving
    <2>3. flash[c] = saved[c]
      BY <2>1, <2>2 DEF SettingsInv, FlashInv
    <2> QED BY <1>1, <1>2, <2>1, <2>3
  <1> QED BY <1>2, <1>3, <1>4, <1>5 DEF SettingsInv, TasksInv, FlashInv

(* Boot, and the start of a transfer.                                      *)
LEMMA BootKeeps ==
  ASSUME SettingsInv, InitSettingsfromQspi \/ StartTransfer
  PROVE  SettingsInv'
  <1>1. CASE InitSettingsfromQspi
    <2>1. /\ up' = TRUE /\ live' = flash /\ task = [t \in Tasks |-> Idle] /\ TypeOK
          /\ UNCHANGED <<flash, task, qspi, saved, lost>>
      BY <1>1 DEF InitSettingsfromQspi, SettingsInv, TasksInv
    <2>2. TypeOK'
      BY <2>1 DEF TypeOK
    <2>3. \A t \in Tasks : TaskOK(task'[t], flash', live')
      BY <2>1, IdleOK DEF TaskOK
    <2> QED BY <2>1, <2>2, <2>3 DEF SettingsInv, TasksInv, FlashInv, Open
  <1>2. CASE StartTransfer
    <2>1. /\ up /\ task["con"].pc \in FlashSteps /\ qspi' = "con"
          /\ UNCHANGED <<up, live, flash, task, saved, lost>>
      BY <1>2 DEF StartTransfer, At
    <2>2. TypeOK'
      BY <2>1 DEF TypeOK, SettingsInv, TasksInv
    <2> QED BY <2>1, <2>2 DEF SettingsInv, TasksInv, FlashInv, Open
  <1> QED BY <1>1, <1>2

-----------------------------------------------------------------------------
(* The invariant holds throughout.                                         *)
THEOREM SettingsInvariant == Spec => []SettingsInv
  <1>1. Init => SettingsInv
    <2> SUFFICES ASSUME Init PROVE SettingsInv
      OBVIOUS
    <2>1. live \in [Chans -> Page] /\ flash \in [Chans -> Page] /\ task \in [Tasks -> TaskType]
      BY PagesOK, IdleOK DEF Init
    <2>2. TypeOK
      BY <2>1 DEF Init, TypeOK, TaskType
    <2>3. \A t \in Tasks : TaskOK(task[t], flash, live)
      BY IdleOK DEF Init, TaskOK
    <2> QED BY <2>2, <2>3 DEF Init, SettingsInv, TasksInv, FlashInv
  <1>2. SettingsInv /\ [Next]_vars => SettingsInv'
    <2> SUFFICES ASSUME SettingsInv, [Next]_vars PROVE SettingsInv'
      OBVIOUS
    <2>1. CASE UNCHANGED vars
      <3>1. UNCHANGED <<up, live, flash, task, qspi, saved, lost>>
        BY <2>1 DEF vars
      <3>2. TypeOK' <=> TypeOK
        BY <3>1 DEF TypeOK
      <3> QED BY <3>1, <3>2 DEF SettingsInv, TasksInv, FlashInv, Open
    <2>2. CASE Next
      BY <2>2, SetKeeps, StartKeeps, EraseKeeps, GatherKeeps, WriteKeeps, ReadKeeps,
         DisperseKeeps, ResetKeeps, BootKeeps DEF Next
    <2> QED BY <2>1, <2>2
  <1> QED BY <1>1, <1>2, PTL DEF Spec

(* Settings, pages and the use of the flash stay well-formed.              *)
THEOREM SettingsType == Spec => []TypeOK
  <1>1. SettingsInv => TypeOK
    BY DEF SettingsInv, TasksInv
  <1> QED BY <1>1, SettingsInvariant, PTL

(* Only boot brings the supply up, and it does so with no command under    *)
(* way.                                                                    *)
LEMMA BootLoads ==
  ASSUME SettingsInv, Next, ~up, up'
  PROVE  \A c \in Chans \ lost : live'[c] = saved[c]
  <1>1. InitSettingsfromQspi
    BY DEF Next, Set, Save, Load, QspiFlashEraseSect, QspiGatherData, QspiFlashWrite,
           QspiFlashRead, QspiDisperseData, StartTransfer, Reset, At
  <1>2. task = [t \in Tasks |-> Idle] /\ live' = flash
    BY <1>1 DEF InitSettingsfromQspi, SettingsInv, TasksInv
  <1>3. \A c \in Chans : ~Open(c)
    BY <1>2, IdleOK DEF Open
  <1> QED BY <1>2, <1>3 DEF SettingsInv, FlashInv

(* What was saved is what the supply runs with after a reset.              *)
THEOREM SavesSurvive == Spec => SavedSurvives
  <1>1. SettingsInv /\ [Next]_vars =>
          [~up /\ up' => \A c \in Chans \ lost : live'[c] = saved[c]]_vars
    BY BootLoads
  <1> QED BY <1>1, SettingsInvariant, PTL DEF Spec, SavedSurvives

(* A step that is not the dispersal of task t ends no save of t.           *)
LEMMA OnlyDisperseEnds ==
  ASSUME SettingsInv, NEW u \in Tasks, NEW pc, NEW r \in TaskType, At(u, pc), Step(u, pc, r),
         NEW t \in Tasks, EndsSave(t)
  PROVE  t = u /\ pc = "disperse"
  <1>1. /\ task[u].pc = pc
        /\ \A v \in Tasks \ {u} : task'[v].pc = task[v].pc
    BY StepShape DEF SettingsInv
  <1> QED BY <1>1 DEF EndsSave

(* The step that ends a save leaves the settings in force.                 *)
LEMMA EndKeepsLive ==
  ASSUME SettingsInv, Next, NEW t \in Tasks, EndsSave(t), task[t].hit = {}
  PROVE  live' = live
  <1>1. ASSUME NEW u \in Tasks, NEW c \in Chans, NEW f \in Fields, Set(u, c, f)
        PROVE  FALSE
    <2>1. At(u, "idle") /\ Step(u, "idle", Idle)
      BY <1>1 DEF Set
    <2> QED BY <2>1, IdleOK, OnlyDisperseEnds
  <1>2. ASSUME NEW u \in Tasks, QspiDisperseData(u)
        PROVE  live' = live
    <2>1. /\ At(u, "disperse") /\ Step(u, "disperse", Idle)
          /\ live' = [live EXCEPT ![task[u].c] = task[u].buf]
      BY <1>2 DEF QspiDisperseData
    <2>2. t = u
      BY <2>1, IdleOK, OnlyDisperseEnds
    <2>3. live \in [Chans -> Page] /\ task[u].c \in Chans /\ TaskOK(task[u], flash, live)
      BY <2>1, InCommand DEF SettingsInv
    <2>4. task[u].buf = live[task[u].c]
      BY <2>2, <2>3 DEF TaskOK, EndsSave
    <2> QED BY <2>1, <2>3, <2>4
  <1>3. ASSUME Reset \/ InitSettingsfromQspi
        PROVE  FALSE
    <2>1. CASE Reset
      BY <2>1 DEF Reset, EndsSave
    <2>2. CASE InitSettingsfromQspi
      <3>1. task[t].pc = "idle"
        BY <2>2, IdleOK DEF InitSettingsfromQspi, SettingsInv, TasksInv
      <3> QED BY <3>1 DEF EndsSave
    <2> QED BY <1>3, <2>1, <2>2
  <1>4. CASE \/ \E u \in Tasks, c \in Chans : Save(u, c) \/ Load(u, c)
             \/ \E u \in Tasks : \/ QspiFlashEraseSect(u) \/ QspiGatherData(u)
                                 \/ QspiFlashWrite(u) \/ QspiFlashRead(u)
             \/ StartTransfer
    BY <1>4 DEF Save, Load, QspiFlashEraseSect, QspiGatherData, QspiFlashWrite, QspiFlashRead,
           StartTransfer
  <1> QED BY <1>1, <1>2, <1>3, <1>4 DEF Next

(* An undisturbed save changes no setting in force.                        *)
THEOREM SavesAreTransparent == Spec => SaveTransparent
  <1>1. SettingsInv /\ [Next]_vars =>
          [\A t \in Tasks : EndsSave(t) /\ task[t].hit = {} => live' = live]_vars
    BY EndKeepsLive
  <1> QED BY <1>1, SettingsInvariant, PTL DEF Spec, SaveTransparent

=============================================================================
