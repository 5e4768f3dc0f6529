----------------------- MODULE SettingsUpdate_proofs -----------------------
(***************************************************************************)
(* Proofs about module SettingsUpdate: of the clients that read the same   *)
(* revision at most one changes the settings, for any number of calls,     *)
(* ports, patches and restarts.                                            *)
(***************************************************************************)
EXTENDS SettingsUpdate, TLAPS

MovePhases == {"receiver", "mcp", "undoMcp", "undoReceiver"}
ActivePhases == MovePhases \cup {"commit", "write", "renamed", "end"}
Phases == ActivePhases \cup {"idle", "queued", "done", "lost"}
Replies == {"none", "ok", "refused", "conflict"}

Sane(s) == s \in Settings /\ Valid(s)

\* What a call is in the midst of is the first of the queue's business, and the
\* settings are those it was checked against.
AtWork(c) ==
    phase[c] \in ActivePhases =>
        /\ queue # <<>> /\ Head(queue) = c
        /\ asked[c].expected = settings.revision
        /\ Valid(next[c])

\* A call that waits is in the queue.
Waits(c) == phase[c] = "queued" => \E n \in 1..Len(queue) : queue[n] = c

\* Between the rename and the assignment the file is ahead of the store.
Ahead(c) == phase[c] = "renamed" => disk = Committed(c)

Won(c) == reply[c] = "ok" => phase[c] = "done" /\ asked[c].expected < settings.revision

UpdateTypes ==
    /\ queue \in Seq(Calls)
    /\ asked \in [Calls -> [patch : Patch, expected : Nat]]
    /\ next \in [Calls -> Settings]
    /\ phase \in [Calls -> Phases]
    /\ step \in [Calls -> {"stop", "disable", "listen", "bound", "failed"}]
    /\ reply \in [Calls -> Replies]

\* A restart reads settings that are no older than the ones it ends.
DiskKeepsUp == Sane(Coerce(disk)) /\ settings.revision <= Coerce(disk).revision

CallsInOrder ==
    \A c \in Calls :
        /\ AtWork(c) /\ Waits(c) /\ Ahead(c) /\ Won(c)
        /\ step[c] # "stop" => phase[c] \in MovePhases

WinInv ==
    /\ UpdateTypes
    /\ Sane(settings)
    /\ DiskKeepsUp
    /\ CallsInOrder
    /\ OneWinner

-----------------------------------------------------------------------------
(* What the store reads and writes.                                         *)

LEMMA CoerceKeeps ==
    ASSUME NEW s, Sane(s)
    PROVE  Coerce(s) = s
<1>1. s # NoFile /\ s.revision # Junk /\ s.otlp # Junk /\ s.enabled # Junk /\ s.mcpPort # Junk
  BY FileAssumption DEF Sane, Settings
<1>2. s = [revision |-> s.revision, otlp |-> s.otlp, enabled |-> s.enabled, mcpPort |-> s.mcpPort]
  BY DEF Sane, Settings
<1> QED BY <1>1, <1>2, Zenon DEF Coerce, Sane

LEMMA CoerceSane ==
    ASSUME NEW f \in Files
    PROVE  Sane(Coerce(f))
<1>1. CASE f = NoFile
  BY <1>1, StartAssumption, Zenon DEF Coerce, Sane
<1>2. CASE f # NoFile
  <2> DEFINE read == [revision |-> IF f.revision = Junk THEN 0 ELSE f.revision,
                      otlp |-> IF f.otlp = Junk THEN Defaults.otlp ELSE f.otlp,
                      enabled |-> IF f.enabled = Junk THEN Defaults.enabled ELSE f.enabled,
                      mcpPort |-> IF f.mcpPort = Junk THEN Defaults.mcpPort ELSE f.mcpPort]
  <2>1. Coerce(f) = IF Valid(read) THEN read ELSE Defaults
    BY <1>2, Zenon DEF Coerce
  <2>2. read.revision \in Nat
    BY <1>2, FileAssumption
  <2>3. read.enabled \in BOOLEAN
    BY <1>2, FileAssumption, StartAssumption DEF Settings
  <2>4. read = [revision |-> read.revision, otlp |-> read.otlp, enabled |-> read.enabled,
                mcpPort |-> read.mcpPort]
    OBVIOUS
  <2> HIDE DEF read
  <2>5. ASSUME Valid(read) PROVE read \in Settings
    <3>1. read.otlp \in Ports /\ read.mcpPort \in Ports
      BY <2>5 DEF Valid
    <3> QED BY <3>1, <2>2, <2>3, <2>4 DEF Settings
  <2> QED BY <2>1, <2>5, StartAssumption, Zenon DEF Sane
<1> QED BY <1>1, <1>2

LEMMA MergeIs ==
    ASSUME NEW s \in Settings, NEW patch \in Patch
    PROVE  Merge(s, patch) \in Settings /\ Merge(s, patch).revision = s.revision
<1>1. /\ Pick(patch.otlp, s.otlp) \in Ports /\ Pick(patch.mcpPort, s.mcpPort) \in Ports
      /\ Pick(patch.enabled, s.enabled) \in BOOLEAN /\ s.revision \in Nat
  BY DEF Settings, Patch, Pick
<1> QED BY <1>1 DEF Merge, Settings

LEMMA CommittedIs ==
    ASSUME UpdateTypes, NEW c \in Calls, Valid(next[c])
    PROVE  Sane(Committed(c)) /\ Committed(c).revision = asked[c].expected + 1
<1> DEFINE s == next[c]
<1>1. s \in Settings /\ asked[c].expected \in Nat
  BY DEF UpdateTypes
<1>2. /\ Committed(c) = [s EXCEPT !.revision = asked[c].expected + 1]
      /\ Valid(s)
  BY DEF Committed
<1> HIDE DEF s
<1>3. /\ Committed(c) \in Settings /\ Committed(c).revision = asked[c].expected + 1
      /\ Committed(c).otlp = s.otlp /\ Committed(c).mcpPort = s.mcpPort
      /\ Committed(c).enabled = s.enabled
  BY <1>1, <1>2 DEF Settings
<1>4. Valid(Committed(c))
  BY <1>2, <1>3, Zenon DEF Valid
<1> QED BY <1>3, <1>4 DEF Sane

-----------------------------------------------------------------------------
(* Steps of several actions.                                                *)

\* The call at work goes on, and neither wins nor writes.
LEMMA GoesOn ==
    ASSUME WinInv, NEW c \in Calls, phase[c] \in ActivePhases,
           NEW p \in ActivePhases \ {"renamed"}, phase' = [phase EXCEPT ![c] = p],
           NEW st \in {"stop", "disable", "listen", "bound", "failed"},
           step' = [step EXCEPT ![c] = st], st # "stop" => p \in MovePhases,
           NEW r \in Replies, reply' = [reply EXCEPT ![c] = r], r # "ok",
           UNCHANGED <<settings, disk, queue, asked, next>>
    PROVE  WinInv'
<1>1. UpdateTypes'
  BY DEF WinInv, UpdateTypes, ActivePhases, Phases
<1>2. Sane(settings)' /\ DiskKeepsUp'
  BY DEF WinInv, Sane, DiskKeepsUp
<1>3. ASSUME NEW d \in Calls
      PROVE  /\ AtWork(d)' /\ Waits(d)' /\ Ahead(d)' /\ Won(d)'
             /\ step'[d] # "stop" => phase'[d] \in MovePhases
  <2>1. CASE d = c
    <3>1. phase'[c] = p /\ step'[c] = st /\ reply'[c] = r
      BY DEF WinInv, UpdateTypes
    <3>2. p # "queued" /\ p # "renamed"
      BY DEF ActivePhases, MovePhases
    <3> QED BY <2>1, <3>1, <3>2 DEF WinInv, CallsInOrder, AtWork, Waits, Ahead, Won
  <2>2. CASE d # c
    <3>1. phase'[d] = phase[d] /\ step'[d] = step[d] /\ reply'[d] = reply[d]
      BY <2>2 DEF WinInv, UpdateTypes
    <3> QED BY <3>1 DEF WinInv, CallsInOrder, AtWork, Waits, Ahead, Won, Committed
  <2> QED BY <2>1, <2>2
<1>4. OneWinner'
  BY DEF WinInv, UpdateTypes, OneWinner
<1> QED BY <1>1, <1>2, <1>3, <1>4 DEF WinInv, CallsInOrder

\* The first call of the queue ends without success.
LEMMA EndsUnchanged ==
    ASSUME WinInv, NEW c \in Calls, phase[c] \in ActivePhases \cup {"queued"},
           step[c] = "stop", queue # <<>>, Head(queue) = c, NEW r \in Replies, r # "ok", Finish(c, r),
           UNCHANGED <<settings, disk, step, asked, next>>
    PROVE  WinInv'
<1>1. UpdateTypes'
  BY DEF WinInv, UpdateTypes, Finish, Phases
<1>2. Sane(settings)' /\ DiskKeepsUp'
  BY DEF WinInv, Sane, DiskKeepsUp
<1>3. \A d \in Calls : phase'[d] \notin ActivePhases
  BY DEF WinInv, UpdateTypes, CallsInOrder, AtWork, Finish, ActivePhases, MovePhases
<1>4. ASSUME NEW d \in Calls, phase'[d] = "queued"
      PROVE  \E n \in 1..Len(queue') : queue'[n] = d
  <2>1. d # c /\ phase[d] = "queued"
    BY <1>4 DEF WinInv, UpdateTypes, Finish
  <2>2. PICK n \in 1..Len(queue) : queue[n] = d
    BY <2>1 DEF WinInv, CallsInOrder, Waits
  <2>3. n - 1 \in 1..Len(queue') /\ queue'[n - 1] = d
    BY <2>1, <2>2 DEF WinInv, UpdateTypes, Finish
  <2> QED BY <2>3
<1>5. ASSUME NEW d \in Calls PROVE Won(d)' /\ (step'[d] # "stop" => phase'[d] \in MovePhases)
  BY DEF WinInv, UpdateTypes, CallsInOrder, Won, Finish
<1>6. CallsInOrder'
  BY <1>3, <1>4, <1>5 DEF CallsInOrder, AtWork, Waits, Ahead, ActivePhases
<1>7. OneWinner'
  BY DEF WinInv, UpdateTypes, OneWinner, Finish
<1> QED BY <1>1, <1>2, <1>6, <1>7 DEF WinInv

-----------------------------------------------------------------------------
LEMMA RunHolds ==
    ASSUME WinInv, NEW c \in Calls, Run(c)
    PROVE  WinInv'
<1>0. /\ asked[c].expected \in Nat /\ settings.revision \in Nat /\ phase[c] \in Phases
      /\ phase[c] \in ActivePhases => queue # <<>> /\ Head(queue) = c /\ reply[c] # "ok" /\ reply[c] \in Replies
      /\ step[c] # "stop" => phase[c] \in MovePhases
      /\ UpdateTypes
  BY DEF WinInv, UpdateTypes, Sane, Settings, CallsInOrder, AtWork, Won, ActivePhases, MovePhases
<1>1. ASSUME NEW ok \in BOOLEAN, Advance(c, ok), phase[c] \in MovePhases,
             UNCHANGED <<settings, disk, queue, asked, next>>
      PROVE  WinInv'
  <2>1. /\ Following(c, ok) \in ActivePhases \ {"renamed"} /\ phase[c] \in ActivePhases
    BY <1>1 DEF Following, ActivePhases, MovePhases
  <2> DEFINE r == IF ok \/ Undoing(c) THEN reply[c] ELSE "refused"
  <2>2. r \in Replies /\ r # "ok"
    BY <1>0, <2>1 DEF Replies
  <2>3. /\ phase' = [phase EXCEPT ![c] = Following(c, ok)] /\ step' = [step EXCEPT ![c] = "stop"]
        /\ reply' = [reply EXCEPT ![c] = r]
    BY <1>1, Zenon DEF Advance
  <2> HIDE DEF r
  <2> QED BY <1>1, <2>1, <2>2, <2>3, GoesOn
<1>2. CASE Refuse(c)
  <2>1. PICK r \in {"refused", "conflict"} : Finish(c, r)
    BY <1>2 DEF Refuse
  <2>2. queue # <<>>
    BY <1>2 DEF WinInv, UpdateTypes, CallsInOrder, Waits, Refuse
  <2>3. step[c] = "stop"
    BY <1>0, <1>2 DEF Refuse, MovePhases
  <2> QED BY <1>2, <2>1, <2>2, <2>3, EndsUnchanged DEF Refuse, MyTurn, request, Replies
<1>3. CASE Begin(c)
  <2> DEFINE s == Merge(settings, asked[c].patch)
  <2>1. /\ next' = [next EXCEPT ![c] = s] /\ phase' = [phase EXCEPT ![c] = "receiver"]
        /\ UNCHANGED <<settings, disk, queue, step, asked, reply>>
        /\ phase[c] = "queued" /\ Head(queue) = c /\ asked[c].expected = settings.revision
        /\ Valid(s)
    BY <1>3 DEF Begin, MyTurn, Current, Previews
  <2>2. s \in Settings
    BY MergeIs DEF WinInv, UpdateTypes, Sane
  <2> HIDE DEF s
  <2>3. queue # <<>>
    BY <2>1 DEF WinInv, UpdateTypes, CallsInOrder, Waits
  <2>4. UpdateTypes'
    BY <1>0, <2>1, <2>2 DEF UpdateTypes, Phases, ActivePhases, MovePhases
  <2>5. Sane(settings)' /\ DiskKeepsUp'
    BY <2>1 DEF WinInv, Sane, DiskKeepsUp
  <2>6. ASSUME NEW d \in Calls, d # c
        PROVE  phase'[d] = phase[d] /\ next'[d] = next[d]
    BY <1>0, <2>1, <2>6 DEF UpdateTypes
  <2>7. phase'[c] = "receiver" /\ next'[c] = s
    BY <1>0, <2>1 DEF UpdateTypes
  <2>8. ASSUME NEW d \in Calls
        PROVE  /\ AtWork(d)' /\ Waits(d)' /\ Ahead(d)' /\ Won(d)'
               /\ step'[d] # "stop" => phase'[d] \in MovePhases
    <3>1. CASE d = c
      BY <2>1, <2>3, <2>7, <3>1 DEF WinInv, CallsInOrder, AtWork, Waits, Ahead, Won, MovePhases
    <3>2. CASE d # c
      BY <2>1, <2>6, <3>2 DEF WinInv, CallsInOrder, AtWork, Waits, Ahead, Won, Committed
    <3> QED BY <3>1, <3>2
  <2>9. OneWinner'
    BY <2>1 DEF WinInv, OneWinner
  <2> QED BY <2>4, <2>5, <2>8, <2>9 DEF WinInv, CallsInOrder
<1>4. CASE Skip(c)
  BY <1>1, <1>4 DEF Skip, Moving, Undoing, MovePhases, request
<1>5. CASE StopListener(c)
  <2>1. /\ phase[c] \in MovePhases /\ phase' = phase /\ reply' = reply
        /\ step' = [step EXCEPT ![c] = IF Target(c) = NoPort THEN "disable" ELSE "listen"]
        /\ UNCHANGED <<settings, disk, queue, asked, next>>
    BY <1>5 DEF StopListener, Moving, Undoing, MovePhases, request
  <2>2. /\ phase' = [phase EXCEPT ![c] = phase[c]] /\ reply' = [reply EXCEPT ![c] = reply[c]]
        /\ phase[c] \in ActivePhases \ {"renamed"}
    BY <1>0, <2>1 DEF UpdateTypes, MovePhases, ActivePhases
  <2> QED BY <1>0, <2>1, <2>2, GoesOn
<1>6. CASE Disable(c)
  BY <1>0, <1>1, <1>6 DEF Disable
<1>7. CASE Listen(c)
  <2>1. /\ phase[c] \in MovePhases /\ phase' = phase /\ reply' = reply
        /\ \E st \in {"bound", "failed"} : step' = [step EXCEPT ![c] = st]
        /\ UNCHANGED <<settings, disk, queue, asked, next>>
    BY <1>0, <1>7 DEF Listen, request
  <2>2. /\ phase' = [phase EXCEPT ![c] = phase[c]] /\ reply' = [reply EXCEPT ![c] = reply[c]]
        /\ phase[c] \in ActivePhases \ {"renamed"}
    BY <1>0, <2>1 DEF UpdateTypes, MovePhases, ActivePhases
  <2> QED BY <1>0, <2>1, <2>2, GoesOn
<1>8. CASE Settle(c)
  BY <1>0, <1>1, <1>8 DEF Settle
<1>9. CASE CheckRevision(c) \/ PersistFails(c)
  <2>1. PICK p \in {"undoMcp", "write"}, r \in {"conflict", "refused", reply[c]} :
           phase' = [phase EXCEPT ![c] = p] /\ reply' = [reply EXCEPT ![c] = r]
    BY <1>9 DEF CheckRevision, PersistFails
  <2>2. /\ phase[c] \in ActivePhases \ MovePhases
        /\ UNCHANGED <<settings, disk, queue, step, asked, next>>
    BY <1>9 DEF CheckRevision, PersistFails, request, ActivePhases, MovePhases
  <2>3. step[c] = "stop" /\ step' = [step EXCEPT ![c] = "stop"]
    BY <1>0, <2>2 DEF UpdateTypes
  <2>4. r \in Replies /\ r # "ok" /\ p \in ActivePhases \ {"renamed"}
    BY <1>0, <2>2 DEF Replies, ActivePhases, MovePhases
  <2> QED BY <2>1, <2>2, <2>3, <2>4, GoesOn
<1>10. CASE Rename(c)
  <2>1. /\ phase[c] = "write" /\ disk' = Committed(c) /\ phase' = [phase EXCEPT ![c] = "renamed"]
        /\ UNCHANGED <<settings, queue, step, asked, next, reply>>
    BY <1>10 DEF Rename, request
  <2>2. /\ Valid(next[c]) /\ asked[c].expected = settings.revision
        /\ \A d \in Calls : d # c => phase[d] \notin ActivePhases
    BY <2>1 DEF WinInv, CallsInOrder, AtWork, ActivePhases
  <2>3. Sane(disk') /\ disk'.revision = settings.revision + 1
    BY <1>0, <2>1, <2>2, CommittedIs
  <2>4. Coerce(disk') = disk'
    BY <2>3, CoerceKeeps
  <2>5. DiskKeepsUp'
    <3>1. settings.revision <= settings.revision + 1
      BY <1>0
    <3> QED BY <2>1, <2>3, <2>4, <3>1, Zenon DEF DiskKeepsUp, Coerce
  <2>6. UpdateTypes'
    BY <1>0, <2>1 DEF UpdateTypes, Phases, ActivePhases, MovePhases
  <2>7. Sane(settings)' /\ OneWinner'
    BY <2>1 DEF WinInv, Sane, OneWinner
  <2>8. ASSUME NEW d \in Calls
        PROVE  /\ AtWork(d)' /\ Waits(d)' /\ Ahead(d)' /\ Won(d)'
               /\ step'[d] # "stop" => phase'[d] \in MovePhases
    <3>1. CASE d = c
      <4>1. phase'[c] = "renamed" /\ phase[c] \in ActivePhases
        BY <1>0, <2>1 DEF UpdateTypes, ActivePhases
      <4>2. step[c] = "stop"
        BY <1>0, <2>1 DEF MovePhases
      <4> QED BY <1>0, <2>1, <2>2, <3>1, <4>1, <4>2 DEF AtWork, Waits, Ahead, Won, Committed
    <3>2. CASE d # c
      <4>1. phase'[d] = phase[d] /\ phase[d] \notin ActivePhases /\ phase[d] # "renamed"
        BY <1>0, <2>1, <2>2, <3>2 DEF UpdateTypes, ActivePhases
      <4> QED BY <2>1, <4>1 DEF WinInv, CallsInOrder, AtWork, Waits, Ahead, Won
    <3> QED BY <3>1, <3>2
  <2> QED BY <2>5, <2>6, <2>7, <2>8 DEF WinInv, CallsInOrder
<1>11. CASE Apply(c)
  <2>1. /\ phase[c] = "renamed" /\ settings' = Committed(c) /\ Finish(c, "ok")
        /\ UNCHANGED <<disk, step, asked, next>>
    BY <1>11 DEF Apply, request
  <2>2. /\ Valid(next[c]) /\ asked[c].expected = settings.revision /\ disk = Committed(c)
        /\ queue # <<>> /\ Head(queue) = c
        /\ \A d \in Calls : d # c => phase[d] \notin ActivePhases
    BY <2>1 DEF WinInv, CallsInOrder, AtWork, Ahead, ActivePhases
  <2>3. Sane(settings') /\ settings'.revision = settings.revision + 1 /\ settings'.revision \in Nat
    BY <1>0, <2>1, <2>2, CommittedIs
  <2>4. DiskKeepsUp'
    <3>1. Coerce(settings') = settings' /\ disk' = settings'
      BY <2>1, <2>2, <2>3, CoerceKeeps
    <3>2. settings'.revision <= settings'.revision
      BY <2>3
    <3> QED BY <2>3, <3>1, <3>2, Zenon DEF DiskKeepsUp, Coerce
  <2>5. UpdateTypes'
    BY <1>0, <2>1, <2>2 DEF UpdateTypes, Finish, Phases, Replies
  <2>6. ASSUME NEW d \in Calls PROVE phase'[d] \notin ActivePhases
    BY <1>0, <2>1, <2>2 DEF UpdateTypes, Finish, ActivePhases, MovePhases
  <2>7. ASSUME NEW d \in Calls, phase'[d] = "queued"
        PROVE  \E n \in 1..Len(queue') : queue'[n] = d
    <3>1. d # c /\ phase[d] = "queued"
      BY <1>0, <2>1, <2>7 DEF UpdateTypes, Finish
    <3>2. PICK n \in 1..Len(queue) : queue[n] = d
      BY <3>1 DEF WinInv, CallsInOrder, Waits
    <3>3. n - 1 \in 1..Len(queue') /\ queue'[n - 1] = d
      BY <1>0, <2>1, <2>2, <3>1, <3>2 DEF UpdateTypes, Finish
    <3> QED BY <3>3
  <2>8. ASSUME NEW d \in Calls PROVE Won(d)'
    BY <1>0, <2>1, <2>2, <2>3 DEF WinInv, UpdateTypes, CallsInOrder, Won, Finish
  <2>9. ASSUME NEW d \in Calls PROVE step'[d] # "stop" => phase'[d] \in MovePhases
    BY <1>0, <2>1 DEF WinInv, UpdateTypes, CallsInOrder, Finish, MovePhases
  <2>10. CallsInOrder'
    BY <2>6, <2>7, <2>8, <2>9 DEF CallsInOrder, AtWork, Waits, Ahead, ActivePhases
  <2>11. OneWinner'
    BY <1>0, <2>1, <2>2 DEF WinInv, UpdateTypes, CallsInOrder, Won, OneWinner, Finish
  <2> QED BY <2>3, <2>4, <2>5, <2>10, <2>11 DEF WinInv
<1>12. CASE GiveUp(c)
  <2>1. phase[c] \in ActivePhases /\ step[c] = "stop"
    BY <1>0, <1>12 DEF GiveUp, ActivePhases, MovePhases
  <2> QED BY <1>0, <1>12, <2>1, EndsUnchanged DEF GiveUp, request
<1> QED BY <1>2, <1>3, <1>4, <1>5, <1>6, <1>7, <1>8, <1>9, <1>10, <1>11, <1>12 DEF Run

LEMMA SubmitHolds ==
    ASSUME WinInv, NEW c \in Calls, Submit(c)
    PROVE  WinInv'
<1>1. PICK patch \in Patches, r \in 0..settings.revision :
         asked' = [asked EXCEPT ![c] = [patch |-> patch, expected |-> r]]
  BY DEF Submit
<1>2. /\ phase[c] = "idle" /\ phase' = [phase EXCEPT ![c] = "queued"] /\ queue' = Append(queue, c)
      /\ UNCHANGED <<settings, disk, step, next, reply>>
  BY DEF Submit
<1>3. UpdateTypes'
  <2>1. settings.revision \in Nat /\ patch \in Patch
    BY PatchAssumption DEF WinInv, Sane, Settings
  <2> QED BY <1>1, <1>2, <2>1 DEF WinInv, UpdateTypes, Phases
<1>4. Sane(settings)' /\ DiskKeepsUp'
  BY <1>2 DEF WinInv, Sane, DiskKeepsUp
<1>5. reply[c] # "ok" /\ step[c] = "stop"
  BY <1>2 DEF WinInv, CallsInOrder, Won, MovePhases
<1>6. ASSUME NEW d \in Calls, d # c PROVE asked'[d] = asked[d] /\ phase'[d] = phase[d]
  BY <1>1, <1>2, <1>6 DEF WinInv, UpdateTypes
<1>7. phase'[c] = "queued"
  BY <1>2 DEF WinInv, UpdateTypes
<1>8. /\ Len(queue') = Len(queue) + 1 /\ queue'[Len(queue) + 1] = c
      /\ \A n \in 1..Len(queue) : queue'[n] = queue[n] /\ n \in 1..Len(queue')
      /\ queue # <<>> => Head(queue') = Head(queue) /\ queue' # <<>>
      /\ Len(queue) + 1 \in 1..Len(queue')
  BY <1>2 DEF WinInv, UpdateTypes
<1>9. ASSUME NEW d \in Calls
      PROVE  /\ AtWork(d)' /\ Waits(d)' /\ Ahead(d)' /\ Won(d)'
             /\ step'[d] # "stop" => phase'[d] \in MovePhases
  <2>1. CASE d = c
    BY <1>2, <1>5, <1>7, <1>8, <2>1 DEF AtWork, Waits, Ahead, Won, ActivePhases, MovePhases
  <2>2. CASE d # c
    BY <1>2, <1>6, <1>8, <2>2 DEF WinInv, CallsInOrder, AtWork, Waits, Ahead, Won, Committed
  <2> QED BY <2>1, <2>2
<1>10. OneWinner'
  BY <1>2, <1>5, <1>6 DEF WinInv, OneWinner
<1> QED BY <1>3, <1>4, <1>9, <1>10 DEF WinInv, CallsInOrder

LEMMA RestartHolds ==
    ASSUME WinInv, Restart
    PROVE  WinInv'
<1>1. /\ settings' = Coerce(disk) /\ queue' = <<>>
      /\ phase' = [c \in Calls |-> IF phase[c] \in {"idle", "done"} THEN phase[c] ELSE "lost"]
      /\ step' = [c \in Calls |-> "stop"]
      /\ UNCHANGED <<disk, asked, next, reply>>
  BY DEF Restart, request
<1>2. Sane(settings') /\ settings.revision <= settings'.revision
  BY <1>1 DEF WinInv, DiskKeepsUp
<1>3. settings.revision \in Nat /\ settings'.revision \in Nat
  BY <1>2 DEF WinInv, Sane, Settings
<1>4. DiskKeepsUp'
  <2>1. settings'.revision <= settings'.revision
    BY <1>3
  <2> QED BY <1>1, <1>2, <2>1, Zenon DEF DiskKeepsUp, Coerce
<1>5. UpdateTypes'
  BY <1>1 DEF WinInv, UpdateTypes, Phases
<1>6. \A c \in Calls : phase'[c] \in {"idle", "done", "lost"} /\ (phase[c] = "done" => phase'[c] = "done")
  BY <1>1
<1>7. CallsInOrder'
  <2>1. ASSUME NEW c \in Calls PROVE Won(c)'
    <3>1. reply[c] = "ok" => phase[c] = "done" /\ asked[c].expected < settings.revision
      BY DEF WinInv, CallsInOrder, Won
    <3>2. asked[c].expected \in Nat
      BY DEF WinInv, UpdateTypes
    <3> QED BY <1>1, <1>2, <1>3, <1>6, <3>1, <3>2 DEF Won
  <2> QED BY <1>1, <1>6, <2>1 DEF CallsInOrder, AtWork, Waits, Ahead, ActivePhases, MovePhases
<1>8. OneWinner'
  BY <1>1 DEF WinInv, OneWinner
<1> QED BY <1>2, <1>4, <1>5, <1>7, <1>8 DEF WinInv

LEMMA StutterHolds ==
    ASSUME WinInv, UNCHANGED <<settings, disk, queue, phase, step, asked, next, reply>>
    PROVE  WinInv'
<1>1. UpdateTypes' /\ Sane(settings)' /\ DiskKeepsUp' /\ OneWinner'
  BY DEF WinInv, UpdateTypes, Sane, DiskKeepsUp, OneWinner
<1>2. CallsInOrder'
  BY DEF WinInv, CallsInOrder, AtWork, Waits, Ahead, Won, Committed
<1> QED BY <1>1, <1>2 DEF WinInv

(* What a call may assume while it is at work: it is the first of the queue, *)
(* nobody else has changed the settings since its revision was checked, and *)
(* the file on disk is never behind the store (updateSettings.ts,           *)
(* settings.ts, runtime.ts, serializeMutation).                             *)
THEOREM UpdateInvariant == Spec => []WinInv
<1>1. Init => WinInv
  <2> SUFFICES ASSUME Init PROVE WinInv
    OBVIOUS
  <2>1. Sane(settings) /\ Coerce(disk) = settings
    BY CoerceSane DEF Init
  <2>2. settings.revision \in Nat /\ settings \in Settings
    BY <2>1 DEF Sane, Settings
  <2>3. settings.revision <= Coerce(disk).revision
    BY <2>1, <2>2
  <2>4. UpdateTypes
    <3>1. NoPatch \in Patch
      BY DEF NoPatch, Patch
    <3> QED BY <2>2, <3>1 DEF Init, UpdateTypes, Phases, Replies
  <2>5. CallsInOrder /\ OneWinner
    BY DEF Init, CallsInOrder, AtWork, Waits, Ahead, Won, OneWinner, ActivePhases, MovePhases
  <2> QED BY <2>1, <2>3, <2>4, <2>5 DEF WinInv, DiskKeepsUp
<1>2. WinInv /\ [Next]_vars => WinInv'
  <2> SUFFICES ASSUME WinInv, [Next]_vars PROVE WinInv'
    OBVIOUS
  <2>1. CASE \E c \in Calls : Run(c)
    BY <2>1, RunHolds
  <2>2. CASE \E c \in Calls : Submit(c)
    BY <2>2, SubmitHolds
  <2>3. CASE Restart
    BY <2>3, RestartHolds
  <2>4. CASE \E c \in Calls : Abandon(c)
    BY <2>4, StutterHolds DEF Abandon, progress, request
  <2>5. CASE Close \/ StopApi \/ ApiStopped \/ \E h \in Hosts : CloseListener(h)
    BY <2>5, StutterHolds DEF Close, StopApi, ApiStopped, CloseListener, progress, request
  <2>6. CASE \E p \in Ports : OtherTakes(p) \/ OtherFrees(p)
    BY <2>6, StutterHolds DEF OtherTakes, OtherFrees, progress, request
  <2>7. CASE UNCHANGED vars
    BY <2>7, StutterHolds DEF vars, progress, request
  <2> QED BY <2>1, <2>2, <2>3, <2>4, <2>5, <2>6, <2>7 DEF Next
<1> QED BY <1>1, <1>2, PTL DEF Spec

(* Two clients that read the same revision cannot both change the settings  *)
(* (updateSettings.ts, settings.ts), for any number of calls and restarts,  *)
(* and whichever steps of an update fail.                                   *)
THEOREM OneWinnerCorrect == Spec => []OneWinner
<1>1. WinInv => OneWinner
  BY DEF WinInv
<1> QED BY <1>1, UpdateInvariant, PTL
-----------------------------------------------------------------------------
(* The listeners.                                                           *)

Statuses == {st \in [kind : {"running", "error", "starting", "disabled"}, port : Ports \cup {NoPort}] :
                IsRunning(st) => st.port \in Ports}

PortTypes ==
    /\ held \in [Ports -> {"free", "other"} \cup Hosts]
    /\ socket \in [Hosts -> Ports \cup {NoPort}]
    /\ status \in [Hosts -> Statuses]
    /\ before \in [Calls -> [Hosts -> Statuses]]
    /\ closing \in {"no", "mutations", "api", "receiver", "mcp", "closed"}

\* A listener is about to be bound only where a call wants one.
Targets ==
    \A c \in Calls :
        /\ step[c] \in {"listen", "bound", "failed"} => Target(c) \in Ports
        /\ step[c] = "disable" => Target(c) = NoPort

Handles(c, h) == step[c] # "stop" /\ Host(c) = h
Binds(c, h, p) == step[c] = "bound" /\ Host(c) = h /\ Target(c) = p

\* What a host holds is what it knows of, but between bind and its answer.
Holds(h) ==
    /\ \A p \in Ports : held[p] = h <=> socket[h] = p \/ \E c \in Calls : Binds(c, h, p)
    /\ (\E c \in Calls : Handles(c, h)) => socket[h] = NoPort

\* What a host knows of is in its status, but while a call handles it.
Told(h) ==
    (\A c \in Calls : ~Handles(c, h)) => \A p \in Ports : status[h] = Running(p) <=> socket[h] = p

Early == closing \in {"no", "mutations", "api"}

PortInv ==
    /\ PortTypes
    /\ Targets
    /\ gone # {} => closing # "no"
    /\ gone = {} =>
         /\ \A h \in Hosts : Holds(h)
         /\ Early => \A h \in Hosts : Told(h)
         /\ ~Early => queue = <<>>
         /\ closing \in {"mcp", "closed"} => socket["receiver"] = NoPort
         /\ closing = "closed" => socket["mcp"] = NoPort

\* A runtime that starts listens where its statuses say, and nowhere else.
StartsWell(now) ==
    /\ now.held \in [Ports -> {"free", "other"} \cup Hosts]
    /\ now.socket \in [Hosts -> Ports \cup {NoPort}]
    /\ now.status \in [Hosts -> Statuses]
    /\ \A h \in Hosts, q \in Ports :
         (now.held[q] = h <=> now.socket[h] = q) /\ (now.status[h] = Running(q) <=> now.socket[h] = q)

LEMMA StartedIs ==
    ASSUME NEW s \in Settings, NEW others \in SUBSET Ports, NEW p \in Ports
    PROVE  StartsWell(Started(s, others, p))
<1> DEFINE up == p \notin others
           mcp == s.enabled /\ s.mcpPort \notin others /\ ~(up /\ s.mcpPort = p)
           st == [h \in Hosts |->
              IF h = "receiver" THEN IF up THEN Running(p) ELSE Failed(p)
              ELSE IF mcp THEN Running(s.mcpPort)
              ELSE IF s.enabled THEN Failed(s.mcpPort) ELSE Disabled]
           so == [h \in Hosts |->
              IF h = "receiver" THEN IF up THEN p ELSE NoPort
              ELSE IF mcp THEN s.mcpPort ELSE NoPort]
           he == [q \in Ports |->
              IF q \in others THEN "other"
              ELSE IF up /\ q = p THEN "receiver"
              ELSE IF mcp /\ q = s.mcpPort THEN "mcp" ELSE "free"]
<1>1. s.mcpPort \in Ports /\ NoPort \notin Ports
  BY PortAssumption DEF Settings
<1>2. mcp => s.mcpPort \notin others /\ ~(up /\ s.mcpPort = p)
  OBVIOUS
<1>3. /\ Started(s, others, p).held = he /\ Started(s, others, p).socket = so
      /\ Started(s, others, p).status = st
  BY DEF Started
<1>4. Hosts = {"receiver", "mcp"}
  BY DEF Hosts
<1>5. /\ st["receiver"] = IF up THEN Running(p) ELSE Failed(p)
      /\ st["mcp"] = IF mcp THEN Running(s.mcpPort) ELSE IF s.enabled THEN Failed(s.mcpPort) ELSE Disabled
      /\ so["receiver"] = IF up THEN p ELSE NoPort
      /\ so["mcp"] = IF mcp THEN s.mcpPort ELSE NoPort
  BY <1>4, Zenon
<1>6. \A q \in Ports : he[q] = IF q \in others THEN "other"
                               ELSE IF up /\ q = p THEN "receiver"
                               ELSE IF mcp /\ q = s.mcpPort THEN "mcp" ELSE "free"
  BY Zenon
<1>7. \A q \in Ports : Running(q) \in Statuses /\ Failed(q) \in Statuses
  BY DEF Running, Failed, Statuses, IsRunning
<1>8. Disabled \in Statuses
  BY DEF Disabled, Statuses, IsRunning
<1>9. \A q, r \in Ports : /\ Running(q) = Running(r) <=> q = r
                          /\ Running(q) # Failed(r) /\ Running(q) # Disabled
  BY DEF Running, Failed, Disabled
<1>10. he \in [Ports -> {"free", "other"} \cup Hosts] /\ so \in [Hosts -> Ports \cup {NoPort}]
  BY <1>1, <1>4, Zenon
<1>11. st["receiver"] \in Statuses /\ st["mcp"] \in Statuses
  BY <1>1, <1>5, <1>7, <1>8, Zenon
<1>12. st \in [Hosts -> Statuses]
  <2> HIDE DEF up, mcp
  <2>1. \A h \in Hosts : st[h] \in Statuses
    BY <1>4, <1>11
  <2> QED BY <2>1
<1> HIDE DEF up, mcp, st, so, he
<1>13. ASSUME NEW q \in Ports
       PROVE  /\ he[q] = "receiver" <=> so["receiver"] = q
              /\ st["receiver"] = Running(q) <=> so["receiver"] = q
              /\ he[q] = "mcp" <=> so["mcp"] = q
              /\ st["mcp"] = Running(q) <=> so["mcp"] = q
  <2>1. /\ he[q] = "receiver" <=> so["receiver"] = q
        /\ st["receiver"] = Running(q) <=> so["receiver"] = q
    BY <1>1, <1>5, <1>6, <1>9 DEF up
  <2>2. he[q] = "mcp" <=> so["mcp"] = q
    BY <1>1, <1>2, <1>5, <1>6
  <2>3. st["mcp"] = Running(q) <=> so["mcp"] = q
    <3>1. CASE mcp
      BY <1>1, <1>5, <1>9, <3>1
    <3>2. CASE ~mcp
      <4>1. st["mcp"] # Running(q)
        <5>1. /\ Running(q) # Failed(s.mcpPort)
              /\ Running(q) # Disabled
          BY <1>1, <1>9
        <5>2. st["mcp"] = Failed(s.mcpPort) \/ st["mcp"] = Disabled
          BY <1>5, <3>2
        <5> QED BY <5>1, <5>2
      <4>2. so["mcp"] # q
        BY <1>1, <1>5, <3>2
      <4> QED BY <4>1, <4>2
    <3> QED BY <3>1, <3>2
  <2> QED BY <2>1, <2>2, <2>3
<1> QED BY <1>3, <1>4, <1>10, <1>12, <1>13 DEF StartsWell

\* At most one call handles listeners, and it is the first of the queue.
LEMMA OneMover ==
    ASSUME WinInv, NEW c \in Calls, phase[c] \in ActivePhases \/ phase[c] = "queued"
    PROVE  /\ queue # <<>>
           /\ phase[c] \in ActivePhases \/ Head(queue) = c =>
                \A d \in Calls : d # c => step[d] = "stop"
<1>1. queue # <<>>
  BY DEF WinInv, UpdateTypes, CallsInOrder, AtWork, Waits
<1>2. \A d \in Calls : step[d] # "stop" => Head(queue) = d
  BY DEF WinInv, CallsInOrder, AtWork, ActivePhases
<1>3. phase[c] \in ActivePhases => Head(queue) = c
  BY DEF WinInv, CallsInOrder, AtWork
<1> QED BY <1>1, <1>2, <1>3
\* A call goes on without touching a listener.
LEMMA NoListenerTouched ==
    ASSUME PortInv, UNCHANGED <<held, socket, status, closing, gone, step>>,
           before' \in [Calls -> [Hosts -> Statuses]],
           \A c \in Calls : step[c] # "stop" =>
               phase'[c] = phase[c] /\ before'[c] = before[c] /\ next'[c] = next[c],
           Early \/ gone # {} \/ queue' = queue
    PROVE  PortInv'
<1>1. PortTypes'
  BY DEF PortInv, PortTypes
<1>2. \A c \in Calls : step[c] # "stop" => Host(c)' = Host(c) /\ Target(c)' = Target(c)
  BY DEF Host, Target, Undoing
<1>3. Targets'
  BY <1>2 DEF PortInv, Targets
<1>4. \A c \in Calls, h \in Hosts : Handles(c, h)' <=> Handles(c, h)
  BY <1>2 DEF Handles
<1>5. \A c \in Calls, h \in Hosts, p \in Ports : Binds(c, h, p)' <=> Binds(c, h, p)
  BY <1>2 DEF Binds
<1>6. \A h \in Hosts : (Holds(h) => Holds(h)') /\ (Told(h) => Told(h)')
  BY <1>4, <1>5 DEF Holds, Told
<1>7. Early' = Early
  BY DEF Early
<1> QED BY <1>1, <1>3, <1>6, <1>7 DEF PortInv

\* Facts about the call at work.
LEMMA AtWorkIs ==
    ASSUME WinInv, PortInv, NEW c \in Calls, step[c] # "stop" \/ Moving(c)
    PROVE  /\ phase[c] \in MovePhases /\ Host(c) \in Hosts /\ Moving(c)
           /\ Target(c) \in Ports \cup {NoPort}
           /\ \A d \in Calls : d # c => step[d] = "stop"
           /\ queue # <<>> /\ (gone = {} => Early)
<1>1. phase[c] \in MovePhases /\ Moving(c)
  BY DEF WinInv, CallsInOrder, Moving, Undoing, MovePhases
<1>2. Host(c) \in Hosts
  BY DEF Host, Hosts
<1>3. Target(c) \in Ports \cup {NoPort}
  <2>1. next[c].otlp \in Ports /\ next[c].mcpPort \in Ports
    BY DEF WinInv, UpdateTypes, Settings
  <2>2. before[c][Host(c)] \in Statuses
    BY <1>2 DEF PortInv, PortTypes
  <2>3. IsRunning(before[c][Host(c)]) => before[c][Host(c)].port \in Ports
    BY <2>2 DEF Statuses
  <2> QED BY <2>1, <2>3 DEF Target
<1>4. queue # <<>> /\ \A d \in Calls : d # c => step[d] = "stop"
  BY <1>1, OneMover DEF ActivePhases
<1> QED BY <1>1, <1>2, <1>3, <1>4 DEF PortInv

\* The listener that a host knows of is given up.
LEMMA ReleasedIs ==
    ASSUME PortTypes, NEW h \in Hosts, Released(h), Holds(h), \A c \in Calls : step[c] # "bound"
    PROVE  /\ held' \in [Ports -> {"free", "other"} \cup Hosts]
           /\ socket' \in [Hosts -> Ports \cup {NoPort}] /\ socket'[h] = NoPort
           /\ \A p \in Ports : held'[p] # h
           /\ \A g \in Hosts : g # h => socket'[g] = socket[g]
           /\ \A p \in Ports, g \in Hosts : g # h => (held'[p] = g <=> held[p] = g)
<1>1. \A p \in Ports : held[p] = h <=> socket[h] = p
  BY DEF Holds, Binds
<1>2. \A p \in Ports : held'[p] = IF p = socket[h] THEN "free" ELSE held[p]
  BY DEF Released
<1>3. \A g \in Hosts : g # "free"
  BY DEF Hosts
<1>4. \A p \in Ports : held'[p] # h
  BY <1>1, <1>2, <1>3
<1>5. \A p \in Ports, g \in Hosts : g # h => (held'[p] = g <=> held[p] = g)
  <2> SUFFICES ASSUME NEW p \in Ports, NEW g \in Hosts, g # h PROVE held'[p] = g <=> held[p] = g
    OBVIOUS
  <2>1. CASE p = socket[h]
    BY <1>1, <1>2, <1>3, <2>1
  <2>2. CASE p # socket[h]
    BY <1>2, <2>2
  <2> QED BY <2>1, <2>2
<1> QED BY <1>4, <1>5 DEF PortTypes, Released
\* One host is handled: the other is left alone.
LEMMA OneHandled ==
    ASSUME WinInv, PortInv, PortTypes', Targets', UNCHANGED <<closing, gone>>,
           NEW c \in Calls, step[c] # "stop" \/ Moving(c), NEW h, h = Host(c),
           \A d \in Calls : d # c => step'[d] = step[d],
           step'[c] # "stop" => Host(c)' = h,
           gone = {} =>
               /\ Holds(h)' /\ Told(h)'
               /\ \A g \in Hosts : g # h =>
                    /\ socket'[g] = socket[g] /\ status'[g] = status[g]
                    /\ \A p \in Ports : held'[p] = g <=> held[p] = g
    PROVE  PortInv'
<1>1. \A d \in Calls : d # c => step[d] = "stop" /\ step'[d] = "stop"
  BY AtWorkIs
<1>2. gone = {} => Early
  BY AtWorkIs
<1>3. \A g \in Hosts : g # h =>
         \A d \in Calls : ~Handles(d, g) /\ ~Handles(d, g)' /\ \A p \in Ports : ~Binds(d, g, p) /\ ~Binds(d, g, p)'
  BY <1>1 DEF Handles, Binds
<1>4. ASSUME gone = {}, NEW g \in Hosts PROVE Holds(g)' /\ Told(g)'
  <2>1. CASE g # h
    <3>1. Holds(g) /\ Told(g)
      BY <1>2, <1>4 DEF PortInv
    <3>2. Holds(g)'
      BY <1>3, <1>4, <2>1, <3>1 DEF Holds
    <3>3. Told(g)'
      BY <1>3, <1>4, <2>1, <3>1 DEF Told
    <3> QED BY <3>2, <3>3
  <2> QED BY <1>4, <2>1
<1> QED BY <1>2, <1>4 DEF PortInv, Early

LEMMA RunKeepsPorts ==
    ASSUME WinInv, PortInv, NEW c \in Calls, Run(c)
    PROVE  PortInv'
<1> PICK h : h = Host(c)
  OBVIOUS
<1>0. UpdateTypes /\ PortTypes /\ Targets /\ NoPort \notin Ports
  BY PortAssumption DEF WinInv, PortInv
<1>1. CASE Refuse(c) \/ Begin(c)
  <2>1. queue # <<>> /\ \A d \in Calls : step[d] # "stop" => d # c
    <3>1. step[c] = "stop"
      BY <1>1 DEF WinInv, CallsInOrder, Refuse, Begin, MovePhases
    <3> QED BY <1>1, <3>1, OneMover DEF Refuse, Begin
  <2>2. Early \/ gone # {}
    BY <2>1 DEF PortInv
  <2>3. UNCHANGED <<held, socket, status, closing, gone, step>>
    BY <1>1 DEF Refuse, Begin, listeners, shutdown
  <2>4. before' \in [Calls -> [Hosts -> Statuses]]
    BY <1>0, <1>1 DEF PortTypes, Refuse, Begin, request
  <2>5. \A d \in Calls : d # c => phase'[d] = phase[d] /\ before'[d] = before[d] /\ next'[d] = next[d]
    BY <1>0, <1>1 DEF UpdateTypes, PortTypes, Refuse, Begin, request, Finish
  <2> QED BY <2>1, <2>2, <2>3, <2>4, <2>5, NoListenerTouched
<1>2. CASE Skip(c) \/ CheckRevision(c) \/ Rename(c) \/ PersistFails(c) \/ Apply(c) \/ GiveUp(c)
  <2>1. phase[c] \in ActivePhases /\ step[c] = "stop"
    <3>1. step[c] # "stop" => phase[c] \in MovePhases
      BY DEF WinInv, CallsInOrder
    <3> QED BY <1>2, <3>1 DEF Skip, Moving, Undoing, CheckRevision, Rename, PersistFails, Apply, GiveUp,
                              ActivePhases, MovePhases
  <2>2. queue # <<>>
    BY <2>1, OneMover
  <2>3. Early \/ gone # {}
    BY <2>2 DEF PortInv
  <2>4. UNCHANGED <<held, socket, status, closing, gone, before, next>>
    BY <1>2 DEF Skip, CheckRevision, Rename, PersistFails, Apply, GiveUp, listeners, shutdown, request
  <2>5. step' = step
    BY <1>0, <1>2, <2>1 DEF UpdateTypes, Skip, Advance, CheckRevision, Rename, PersistFails, Apply, GiveUp
  <2>6. \A d \in Calls : d # c => phase'[d] = phase[d]
    BY <1>0, <1>2 DEF UpdateTypes, Skip, Advance, CheckRevision, Rename, PersistFails, Apply, GiveUp, Finish
  <2> QED BY <1>0, <2>1, <2>3, <2>4, <2>5, <2>6, NoListenerTouched DEF PortTypes
<1>3. CASE StopListener(c)
  <2>1. /\ Moving(c) /\ step[c] = "stop" /\ Released(h)
        /\ step' = [step EXCEPT ![c] = IF Target(c) = NoPort THEN "disable" ELSE "listen"]
        /\ UNCHANGED <<status, phase, next, before, closing, gone>>
    BY <1>3 DEF StopListener, request, shutdown
  <2>2. /\ h \in Hosts /\ Target(c) \in Ports \cup {NoPort} /\ (gone = {} => Early)
        /\ \A d \in Calls : step[d] = "stop" /\ (d # c => step'[d] = step[d])
    BY <1>0, <2>1, AtWorkIs DEF UpdateTypes
  <2>3. Host(c)' = h /\ Target(c)' = Target(c)
    BY <2>1 DEF Host, Target, Undoing
  <2>4. step'[c] = IF Target(c) = NoPort THEN "disable" ELSE "listen"
    BY <1>0, <2>1 DEF UpdateTypes
  <2>5. PortTypes'
    BY <1>0, <2>1, <2>2, PortAssumption DEF PortTypes, Released, Hosts
  <2>6. Targets'
    BY <2>2, <2>3, <2>4 DEF Targets
  <2>7. ASSUME gone = {}
        PROVE  /\ Holds(h)' /\ Told(h)'
               /\ \A g \in Hosts : g # h =>
                    /\ socket'[g] = socket[g] /\ status'[g] = status[g]
                    /\ \A p \in Ports : held'[p] = g <=> held[p] = g
    <3>1. Holds(h)
      BY <2>2, <2>7 DEF PortInv
    <3>2. /\ socket'[h] = NoPort /\ \A p \in Ports : held'[p] # h
          /\ \A g \in Hosts : g # h =>
                    /\ socket'[g] = socket[g] /\ status'[g] = status[g]
                    /\ \A p \in Ports : held'[p] = g <=> held[p] = g
      BY <1>0, <2>1, <2>2, <3>1, ReleasedIs
    <3>3. \A d \in Calls : step'[d] # "bound"
      BY <2>2, <2>4
    <3>4. Handles(c, h)'
      BY <2>3, <2>4 DEF Handles
    <3> QED BY <1>0, <3>2, <3>3, <3>4 DEF Holds, Told, Binds
  <2> QED BY <2>1, <2>2, <2>3, <2>5, <2>6, <2>7, OneHandled
<1>4. ASSUME step[c] # "stop"
      PROVE  /\ h \in Hosts /\ phase[c] \in MovePhases /\ (gone = {} => Early)
             /\ \A d \in Calls : d # c => step[d] = "stop"
             /\ gone = {} => socket[h] = NoPort /\ \A p \in Ports : held[p] = h <=> Binds(c, h, p)
  <2>1. /\ h \in Hosts /\ phase[c] \in MovePhases /\ (gone = {} => Early)
        /\ \A d \in Calls : d # c => step[d] = "stop"
    BY <1>4, AtWorkIs
  <2>2. gone = {} => Holds(h)
    BY <2>1 DEF PortInv
  <2>3. Handles(c, h)
    BY <1>4 DEF Handles
  <2>4. \A d \in Calls, p \in Ports : Binds(d, h, p) => d = c
    BY <2>1 DEF Binds
  <2> QED BY <1>0, <2>1, <2>2, <2>3, <2>4 DEF Holds
<1>5. CASE Listen(c)
  <2>1. /\ step[c] = "listen" /\ status' = [status EXCEPT ![h] = Starting]
        /\ UNCHANGED <<socket, phase, next, before, closing, gone>>
    BY <1>5 DEF Listen, request, shutdown
  <2>2. \/ /\ held[Target(c)] = "free" /\ held' = [held EXCEPT ![Target(c)] = h]
           /\ step' = [step EXCEPT ![c] = "bound"]
        \/ held' = held /\ step' = [step EXCEPT ![c] = "failed"]
    BY <1>5 DEF Listen
  <2>3. Host(c)' = h /\ Target(c)' = Target(c)
    BY <2>1 DEF Host, Target, Undoing
  <2>4. Target(c) \in Ports /\ h \in Hosts /\ \A d \in Calls : d # c => step[d] = "stop" /\ step'[d] = "stop"
    BY <1>0, <1>4, <2>1, <2>2 DEF Targets, UpdateTypes
  <2>5. step'[c] \in {"bound", "failed"}
    BY <1>0, <2>2 DEF UpdateTypes
  <2>6. \A p \in Ports : held'[p] = IF p = Target(c) /\ step'[c] = "bound" THEN h ELSE held[p]
    BY <1>0, <2>2, <2>4, <2>5 DEF PortTypes, UpdateTypes
  <2>7. PortTypes'
    <3>1. Starting \in Statuses
      BY DEF Starting, Statuses, IsRunning
    <3> QED BY <1>0, <2>1, <2>2, <2>4, <3>1 DEF PortTypes
  <2>8. Targets'
    BY <2>3, <2>4, <2>5 DEF Targets
  <2>9. ASSUME gone = {}
        PROVE  /\ Holds(h)' /\ Told(h)'
               /\ \A g \in Hosts : g # h =>
                    /\ socket'[g] = socket[g] /\ status'[g] = status[g]
                    /\ \A p \in Ports : held'[p] = g <=> held[p] = g
    <3>1. socket[h] = NoPort /\ \A p \in Ports : held[p] # h
      BY <1>4, <2>1, <2>9 DEF Binds
    <3>2. Handles(c, h)' /\ \A d \in Calls, p \in Ports : Binds(d, h, p)' <=> d = c /\ step'[c] = "bound" /\ p = Target(c)
      BY <2>3, <2>4, <2>5 DEF Handles, Binds
    <3>3. \A p \in Ports : held'[p] = h <=> step'[c] = "bound" /\ p = Target(c)
      BY <2>6, <3>1
    <3>4. Holds(h)' /\ Told(h)'
      BY <1>0, <2>1, <3>1, <3>2, <3>3 DEF Holds, Told
    <3>5. \A p \in Ports : p = Target(c) /\ step'[c] = "bound" => held[p] = "free"
      BY <1>0, <2>2, <2>5 DEF UpdateTypes
    <3>6. ASSUME NEW g \in Hosts, g # h, NEW p \in Ports PROVE held'[p] = g <=> held[p] = g
      <4>1. g # "free"
        BY DEF Hosts
      <4> QED BY <2>6, <3>5, <3>6, <4>1
    <3>7. \A g \in Hosts : g # h => socket'[g] = socket[g] /\ status'[g] = status[g]
      BY <1>0, <2>1 DEF PortTypes
    <3> QED BY <3>4, <3>6, <3>7
  <2>10. \A d \in Calls : d # c => step'[d] = step[d]
    BY <2>4
  <2> QED BY <2>1, <2>3, <2>7, <2>8, <2>9, <2>10, OneHandled
<1>6. CASE Disable(c)
  <2>1. /\ step[c] = "disable" /\ status' = [status EXCEPT ![h] = Disabled]
        /\ step' = [step EXCEPT ![c] = "stop"]
        /\ UNCHANGED <<held, socket, next, before, closing, gone>>
    BY <1>6 DEF Disable, Advance, shutdown
  <2>2. /\ h \in Hosts /\ step'[c] = "stop"
        /\ \A d \in Calls : d # c => step'[d] = step[d]
        /\ \A d \in Calls : step'[d] = "stop"
    BY <1>0, <1>4, <2>1 DEF UpdateTypes
  <2>3. Disabled \in Statuses /\ \A p \in Ports : Disabled # Running(p)
    BY DEF Disabled, Running, Statuses, IsRunning
  <2>4. PortTypes' /\ Targets'
    BY <1>0, <2>1, <2>2, <2>3 DEF PortTypes, Targets
  <2>5. ASSUME gone = {}
        PROVE  /\ Holds(h)' /\ Told(h)'
               /\ \A g \in Hosts : g # h =>
                    /\ socket'[g] = socket[g] /\ status'[g] = status[g]
                    /\ \A p \in Ports : held'[p] = g <=> held[p] = g
    <3>1. socket[h] = NoPort /\ \A p \in Ports : held[p] # h
      BY <1>4, <2>1, <2>5 DEF Binds
    <3>2. status'[h] = Disabled /\ \A g \in Hosts : g # h => status'[g] = status[g]
      BY <1>0, <2>1, <2>2 DEF PortTypes
    <3>3. Holds(h)'
      BY <1>0, <2>1, <2>2, <3>1 DEF Holds, Handles, Binds
    <3>4. Told(h)'
      BY <1>0, <2>1, <2>3, <3>1, <3>2 DEF Told
    <3> QED BY <2>1, <3>2, <3>3, <3>4
  <2> QED BY <2>1, <2>2, <2>4, <2>5, OneHandled
<1>7. CASE Settle(c)
  <2> PICK ok \in BOOLEAN : ok <=> step[c] = "bound"
    OBVIOUS
  <2>1. /\ step[c] \in {"bound", "failed"}
        /\ status' = [status EXCEPT ![h] = IF ok THEN Running(Target(c)) ELSE Failed(Target(c))]
        /\ socket' = IF ok THEN [socket EXCEPT ![h] = Target(c)] ELSE socket
        /\ step' = [step EXCEPT ![c] = "stop"]
        /\ UNCHANGED <<held, next, before, closing, gone>>
    BY <1>7 DEF Settle, Advance, shutdown
  <2>2. /\ h \in Hosts /\ Target(c) \in Ports
        /\ \A d \in Calls : d # c => step'[d] = step[d]
        /\ \A d \in Calls : step'[d] = "stop"
    BY <1>0, <1>4, <2>1 DEF UpdateTypes, Targets
  <2>3. /\ \A p \in Ports : Running(p) \in Statuses /\ Failed(p) \in Statuses
        /\ \A p, q \in Ports : (Running(p) = Running(q) <=> p = q) /\ Failed(p) # Running(q)
    BY DEF Failed, Running, Statuses, IsRunning
  <2>4. status'[h] = IF ok THEN Running(Target(c)) ELSE Failed(Target(c))
    BY <1>0, <2>1, <2>2 DEF PortTypes
  <2>5. \A g \in Hosts : g # h => socket'[g] = socket[g] /\ status'[g] = status[g]
    BY <1>0, <2>1, <2>2 DEF PortTypes
  <2>6. socket'[h] = IF ok THEN Target(c) ELSE socket[h]
    BY <1>0, <2>1, <2>2 DEF PortTypes
  <2>7. status' \in [Hosts -> Statuses] /\ socket' \in [Hosts -> Ports \cup {NoPort}]
    <3>1. (IF ok THEN Running(Target(c)) ELSE Failed(Target(c))) \in Statuses
      BY <2>2, <2>3
    <3>2. status' \in [Hosts -> Statuses]
      BY <1>0, <2>1, <3>1 DEF PortTypes
    <3>3. socket' \in [Hosts -> Ports \cup {NoPort}]
      BY <1>0, <2>1, <2>2 DEF PortTypes
    <3> QED BY <3>2, <3>3
  <2>8. PortTypes' /\ Targets'
    BY <1>0, <2>1, <2>2, <2>7 DEF PortTypes, Targets
  <2>9. ASSUME gone = {} PROVE Holds(h)' /\ Told(h)'
    <3>1. socket[h] = NoPort /\ \A p \in Ports : held[p] = h <=> ok /\ p = Target(c)
      BY <1>4, <2>1, <2>9 DEF Binds
    <3>2. \A p \in Ports : held'[p] = h <=> socket'[h] = p
      BY <1>0, <2>1, <2>2, <2>6, <3>1
    <3>3. \A p \in Ports : status'[h] = Running(p) <=> socket'[h] = p
      BY <1>0, <2>2, <2>3, <2>4, <2>6, <3>1
    <3> QED BY <2>2, <3>2, <3>3 DEF Holds, Told, Handles, Binds
  <2> QED BY <2>1, <2>2, <2>5, <2>8, <2>9, OneHandled
<1> QED BY <1>1, <1>2, <1>3, <1>5, <1>6, <1>7 DEF Run

LEMMA OthersKeepPorts ==
    ASSUME PortInv, NEW p \in Ports, OtherTakes(p) \/ OtherFrees(p)
    PROVE  PortInv'
<1>1. /\ UNCHANGED <<socket, status, before, closing, gone, step, phase, next, queue>>
      /\ \E v \in {"free", "other"} : held' = [held EXCEPT ![p] = v]
      /\ held[p] \in {"free", "other"}
  BY DEF OtherTakes, OtherFrees, progress, request, shutdown
<1>2. held' \in [Ports -> {"free", "other"} \cup Hosts] /\ \A q \in Ports, h \in Hosts : held'[q] = h <=> held[q] = h
  <2>1. \A h \in Hosts : h \notin {"free", "other"}
    BY DEF Hosts
  <2> QED BY <1>1, <2>1 DEF PortInv, PortTypes
<1>3. \A c \in Calls : Host(c)' = Host(c) /\ Target(c)' = Target(c)
  BY <1>1 DEF Host, Target, Undoing
<1>4. PortTypes' /\ Targets'
  BY <1>1, <1>2, <1>3 DEF PortInv, PortTypes, Targets
<1>5. \A c \in Calls, h \in Hosts :
         (Handles(c, h)' <=> Handles(c, h)) /\ \A q \in Ports : Binds(c, h, q)' <=> Binds(c, h, q)
  BY <1>1, <1>3 DEF Handles, Binds
<1>6. \A h \in Hosts : (Holds(h) => Holds(h)') /\ (Told(h) => Told(h)')
  BY <1>1, <1>2, <1>5 DEF Holds, Told
<1> QED BY <1>1, <1>4, <1>6 DEF PortInv, Early

LEMMA HoldsStill ==
    ASSUME NEW h \in Hosts, Holds(h), socket'[h] = socket[h],
           \A p \in Ports : held'[p] = h <=> held[p] = h,
           \A c \in Calls : Handles(c, h)' <=> Handles(c, h),
           \A c \in Calls, p \in Ports : Binds(c, h, p)' <=> Binds(c, h, p)
    PROVE  Holds(h)'
<1>1. \A p \in Ports : held'[p] = h <=> socket'[h] = p \/ \E c \in Calls : Binds(c, h, p)'
  BY DEF Holds
<1>2. (\E c \in Calls : Handles(c, h)') => socket'[h] = NoPort
  BY DEF Holds
<1> QED BY <1>1, <1>2, Zenon DEF Holds

LEMMA CloseKeepsPorts ==
    ASSUME WinInv, PortInv, Close \/ StopApi \/ ApiStopped \/ \E h \in Hosts : CloseListener(h)
    PROVE  PortInv'
<1>0. PortTypes /\ Targets /\ NoPort \notin Ports
  BY PortAssumption DEF PortInv
<1>1. UNCHANGED <<status, before, gone, step, phase, next, queue>>
  BY DEF Close, StopApi, ApiStopped, CloseListener, progress, request, listeners
<1>2. \A c \in Calls : Host(c)' = Host(c) /\ Target(c)' = Target(c)
  BY <1>1 DEF Host, Target, Undoing
<1>3. Targets'
  BY <1>0, <1>1, <1>2 DEF Targets
<1>4. \A c \in Calls, h \in Hosts :
         (Handles(c, h)' <=> Handles(c, h)) /\ \A q \in Ports : Binds(c, h, q)' <=> Binds(c, h, q)
  BY <1>1, <1>2 DEF Handles, Binds
<1>5. CASE Close \/ StopApi \/ ApiStopped
  <2>1. UNCHANGED <<held, socket>> /\ closing' \in {"mutations", "api", "receiver"}
        /\ (closing' # "receiver" => Early)
    BY <1>5 DEF Close, StopApi, ApiStopped, listeners, Early
  <2>2. closing' = "receiver" /\ gone = {} => queue = <<>>
    <3> SUFFICES ASSUME closing' = "receiver", gone = {} PROVE queue = <<>>
      OBVIOUS
    <3>1. Queued = {}
      BY <1>5 DEF Close, StopApi, ApiStopped
    <3>2. queue \in Seq(Calls) /\ \A n \in DOMAIN queue : queue[n] \in Queued
      BY DEF Queued, WinInv, UpdateTypes
    <3>3. 1 \notin DOMAIN queue
      BY <3>1, <3>2
    <3> QED BY <3>2, <3>3
  <2>3. PortTypes'
    BY <1>0, <1>1, <2>1 DEF PortTypes
  <2>4. ASSUME NEW h \in Hosts PROVE (Holds(h) => Holds(h)') /\ (Told(h) => Told(h)')
    <3>1. Holds(h) => Holds(h)'
      BY <1>4, <2>1, HoldsStill
    <3>2. Told(h) => Told(h)'
      BY <1>1, <1>4, <2>1, Zenon DEF Told
    <3> QED BY <3>1, <3>2
  <2>5. Early' => Early
    BY <1>5, <2>1 DEF Early
  <2> QED BY <1>0, <1>1, <1>3, <2>1, <2>2, <2>3, <2>4, <2>5 DEF PortInv, Early
<1>6. CASE \E h \in Hosts : CloseListener(h)
  <2> PICK h \in Hosts : CloseListener(h)
    BY <1>6
  <2>1. /\ closing = h /\ Released(h) /\ closing' = IF h = "receiver" THEN "mcp" ELSE "closed"
    BY DEF CloseListener
  <2>2. ~Early /\ ~Early' /\ closing' # "no"
    BY <2>1 DEF Early, Hosts
  <2>3. PortTypes'
    BY <1>0, <1>1, <2>1, PortAssumption DEF PortTypes, Released, Hosts
  <2>4. ASSUME gone = {}
        PROVE  /\ \A g \in Hosts : Holds(g)'
               /\ socket'[h] = NoPort
               /\ \A g \in Hosts : g # h => socket'[g] = socket[g]
    <3>1. \A g \in Hosts : Holds(g)
      BY <2>4 DEF PortInv
    <3>2. \A c \in Calls : step[c] = "stop"
      <4>1. queue = <<>>
        BY <2>2, <2>4 DEF PortInv
      <4> QED BY <4>1, AtWorkIs
    <3>3. /\ socket'[h] = NoPort /\ \A p \in Ports : held'[p] # h
          /\ \A g \in Hosts : g # h => socket'[g] = socket[g]
          /\ \A p \in Ports, g \in Hosts : g # h => (held'[p] = g <=> held[p] = g)
      BY <1>0, <2>1, <3>1, <3>2, ReleasedIs
    <3>4. ASSUME NEW g \in Hosts PROVE Holds(g)'
      <4>1. CASE g = h
        BY <1>0, <1>1, <3>2, <3>3, <4>1 DEF Holds, Binds, Handles
      <4>2. CASE g # h
        <5>1. Holds(g) /\ socket'[g] = socket[g] /\ \A p \in Ports : held'[p] = g <=> held[p] = g
          BY <3>1, <3>3, <4>2
        <5>2. \A c \in Calls :
                 (Handles(c, g)' <=> Handles(c, g)) /\ \A p \in Ports : Binds(c, g, p)' <=> Binds(c, g, p)
          BY <1>4
        <5> QED BY <5>1, <5>2, HoldsStill
      <4> QED BY <4>1, <4>2
    <3> QED BY <3>3, <3>4
  <2>5. ASSUME gone = {}, closing' \in {"mcp", "closed"} PROVE socket'["receiver"] = NoPort
    BY <2>1, <2>4, <2>5 DEF PortInv, Hosts
  <2>6. ASSUME gone = {}, closing' = "closed" PROVE socket'["mcp"] = NoPort
    BY <2>1, <2>4, <2>6 DEF Hosts
  <2> QED BY <1>1, <1>3, <2>2, <2>3, <2>4, <2>5, <2>6 DEF PortInv
<1> QED BY <1>5, <1>6

\* A new process: no call is at work, and the hosts are as they have started.
LEMMA FreshHosts ==
    ASSUME NEW s \in Settings, NEW others \in SUBSET Ports, NEW p \in Ports,
           status' = Started(s, others, p).status, socket' = Started(s, others, p).socket,
           held' = Started(s, others, p).held, \A c \in Calls : step'[c] = "stop",
           before' \in [Calls -> [Hosts -> Statuses]], gone' = {}, closing' = "no"
    PROVE  PortInv'
<1> PICK now : now = Started(s, others, p)
  OBVIOUS
<1>0. StartsWell(now) /\ status' = now.status /\ socket' = now.socket /\ held' = now.held
  BY StartedIs
<1>1. PortTypes'
  BY <1>0 DEF PortTypes, StartsWell
<1>2. \A h \in Hosts, q \in Ports :
         (held'[q] = h <=> socket'[h] = q) /\ (status'[h] = Running(q) <=> socket'[h] = q)
  BY <1>0 DEF StartsWell
<1>3. \A h \in Hosts : Holds(h)' /\ Told(h)'
  BY <1>2 DEF Holds, Told, Binds, Handles
<1> QED BY <1>1, <1>3 DEF PortInv, Targets, Early

(* What a host holds is what it knows of and what its status says, but for  *)
(* the one listener that the first call of the queue is moving; and once    *)
(* close() has gone past the API, nothing moves a listener any more, unless *)
(* a client left its call (receiverHost.ts, mcpHost.ts, runtime.ts).        *)
THEOREM PortInvariant == Spec => []PortInv
<1>1. Init => PortInv
  <2> SUFFICES ASSUME Init PROVE PortInv
    OBVIOUS
  <2>1. PICK others \in SUBSET Occupied, p \in {settings.otlp} \cup Overrides :
           LET now == Started(settings, others, p)
           IN  status = now.status /\ socket = now.socket /\ held = now.held
    BY DEF Init
  <2>2. settings \in Settings /\ p \in Ports /\ others \in SUBSET Ports
    <3>1. settings \in Settings
      BY CoerceSane DEF Init, Sane
    <3> QED BY <2>1, <3>1, StartAssumption DEF Settings
  <2>3. /\ held \in [Ports -> {"free", "other"} \cup Hosts]
        /\ socket \in [Hosts -> Ports \cup {NoPort}]
        /\ status \in [Hosts -> Statuses]
        /\ \A h \in Hosts, q \in Ports : /\ held[q] = h <=> socket[h] = q
                                         /\ status[h] = Running(q) <=> socket[h] = q
    <3> PICK now : now = Started(settings, others, p)
      OBVIOUS
    <3>1. StartsWell(now) /\ status = now.status /\ socket = now.socket /\ held = now.held
      BY <2>1, <2>2, StartedIs
    <3> QED BY <3>1 DEF StartsWell
  <2>4. /\ \A c \in Calls : step[c] = "stop"
        /\ before \in [Calls -> [Hosts -> Statuses]] /\ gone = {} /\ closing = "no"
    BY <2>3 DEF Init
  <2>5. \A h \in Hosts : Holds(h) /\ Told(h)
    BY <2>3, <2>4 DEF Holds, Told, Binds, Handles
  <2> QED BY <2>3, <2>4, <2>5 DEF PortInv, PortTypes, Targets, Early
<1>2. WinInv /\ PortInv /\ [Next]_vars => PortInv'
  <2> SUFFICES ASSUME WinInv, PortInv, [Next]_vars PROVE PortInv'
    OBVIOUS
  <2>1. CASE \E c \in Calls : Run(c)
    BY <2>1, RunKeepsPorts
  <2>2. ASSUME NEW c \in Calls, Submit(c) PROVE PortInv'
    <3>1. step[c] = "stop" /\ Early
      BY <2>2 DEF WinInv, CallsInOrder, MovePhases, Submit, Early
    <3>2. /\ UNCHANGED <<held, socket, status, closing, gone, step, before, next>>
          /\ phase' = [phase EXCEPT ![c] = "queued"]
      BY <2>2 DEF Submit, listeners, shutdown
    <3>3. \A d \in Calls : d # c => phase'[d] = phase[d]
      BY <3>2 DEF WinInv, UpdateTypes
    <3> QED BY <3>1, <3>2, <3>3, NoListenerTouched DEF PortInv, PortTypes
  <2>3. ASSUME Restart PROVE PortInv'
    <3>1. PICK p \in {settings'.otlp} \cup Overrides :
             LET now == Started(settings', {q \in Ports : held[q] = "other"}, p)
             IN  status' = now.status /\ socket' = now.socket /\ held' = now.held
      BY <2>3 DEF Restart
    <3>2. settings' \in Settings /\ p \in Ports
      <4>1. settings' \in Settings
        BY <2>3 DEF Restart, WinInv, DiskKeepsUp, Sane
      <4> QED BY <3>1, <4>1, StartAssumption DEF Settings
    <3>3. /\ \A c \in Calls : step'[c] = "stop"
          /\ before' = before /\ gone' = {} /\ closing' = "no"
      BY <2>3 DEF Restart, request
    <3>4. {q \in Ports : held[q] = "other"} \in SUBSET Ports
      OBVIOUS
    <3> QED BY <3>1, <3>2, <3>3, <3>4, FreshHosts DEF PortInv, PortTypes
  <2>4. ASSUME NEW c \in Calls, Abandon(c) PROVE PortInv'
    <3>1. /\ closing = "api" /\ gone' = gone \cup {c}
          /\ UNCHANGED <<held, socket, status, closing, step, phase, next, before>>
      BY <2>4 DEF Abandon, listeners, progress, request, shutdown
    <3>2. PortTypes' /\ Targets'
      BY <3>1 DEF PortInv, PortTypes, Targets, Target, Host, Undoing
    <3>3. gone' # {}
      BY <3>1
    <3> QED BY <3>1, <3>2, <3>3 DEF PortInv
  <2>5. CASE Close \/ StopApi \/ ApiStopped \/ \E h \in Hosts : CloseListener(h)
    BY <2>5, CloseKeepsPorts
  <2>6. CASE \E p \in Ports : OtherTakes(p) \/ OtherFrees(p)
    BY <2>6, OthersKeepPorts
  <2>7. CASE UNCHANGED vars
    BY <2>7, NoListenerTouched DEF vars, listeners, progress, request, shutdown, PortInv, PortTypes
  <2> QED BY <2>1, <2>2, <2>3, <2>4, <2>5, <2>6, <2>7 DEF Next
<1> QED BY <1>1, <1>2, UpdateInvariant, PTL DEF Spec

(* No listener is forgotten: between mutations a host listens where its     *)
(* status says, and close() leaves none behind unless a client left its     *)
(* call, for any ports, patches and number of calls.                        *)
THEOREM PortsAccountedCorrect == Spec => []PortsAccounted
<1>1. WinInv /\ PortInv => PortsAccounted
  <2> SUFFICES ASSUME WinInv, PortInv PROVE PortsAccounted
    OBVIOUS
  <2>1. ASSUME closing = "no", \A c \in Calls : Idle(c), NEW p \in Ports, NEW h \in Hosts
        PROVE  held[p] = h <=> status[h] = Running(p)
    <3>1. \A c \in Calls : step[c] = "stop"
      BY <2>1 DEF WinInv, CallsInOrder, Idle, MovePhases
    <3>2. Holds(h) /\ Told(h)
      BY <2>1 DEF PortInv, Early
    <3> QED BY <3>1, <3>2 DEF Holds, Told, Binds, Handles
  <2>2. ASSUME closing = "closed", gone = {}, NEW p \in Ports
        PROVE  held[p] \notin Hosts
    <3>1. queue = <<>> /\ \A h \in Hosts : socket[h] = NoPort /\ Holds(h)
      BY <2>2 DEF PortInv, Early, Hosts
    <3>2. \A c \in Calls : step[c] = "stop"
      BY <3>1, AtWorkIs
    <3> QED BY <3>1, <3>2, PortAssumption DEF Holds, Binds
  <2> QED BY <2>1, <2>2 DEF PortsAccounted
<1> QED BY <1>1, UpdateInvariant, PortInvariant, PTL
-----------------------------------------------------------------------------
(* An update and its rollback.                                              *)

\* The host is where it was, or failed to get back there.
Back(c, h) ==
    IsRunning(before[c][h]) => status[h] \in {Running(before[c][h].port), Failed(before[c][h].port)}

McpArrived(c) ==
    IF next[c].enabled THEN status["mcp"] = Running(next[c].mcpPort) ELSE ~IsRunning(status["mcp"])

\* What the call at work has done so far, and that it can be undone: the
\* receiver is not where the MCP server has to go back to.
Undoable(c) ==
    /\ \A h \in Hosts : h \notin mutated[c] /\ ~Handles(c, h) => status[h] = before[c][h]
    /\ phase[c] = "receiver" => mutated[c] = {}
    /\ phase[c] = "mcp" => "mcp" \notin mutated[c]
    /\ phase[c] \in {"mcp", "commit", "write", "renamed"} => status["receiver"] = Running(next[c].otlp)
    /\ phase[c] \in {"commit", "write", "renamed"} => McpArrived(c)
    /\ phase[c] \in {"undoReceiver", "end"} =>
         Back(c, "mcp") /\ (IsRunning(status["mcp"]) => status["mcp"] = before[c]["mcp"])
    /\ phase[c] = "end" => Back(c, "receiver")
    /\ gone = {} /\ IsRunning(before[c]["mcp"]) =>
         status["receiver"] # before[c]["mcp"] /\ before[c]["receiver"] # before[c]["mcp"]

UndoInv ==
    /\ mutated \in [Calls -> SUBSET Hosts]
    /\ \A c \in Calls :
         /\ phase[c] \in ActivePhases => Undoable(c)
         /\ phase[c] \in {"idle", "queued"} => mutated[c] = {}
         /\ reply[c] = "conflict" => phase[c] = "done" /\ mutated[c] = {}

LEMMA RunningIs ==
    ASSUME NEW st \in Statuses, IsRunning(st)
    PROVE  st.port \in Ports /\ st = Running(st.port)
BY DEF Statuses, IsRunning, Running

\* A listener has been dealt with, and the call goes on to the next one.
LEMMA AdvanceHolds ==
    ASSUME UndoInv, NEW c \in Calls, phase[c] \in MovePhases, NEW ok \in BOOLEAN,
           NEW h, h = Host(c),
           phase'[c] = Following(c, ok), step'[c] = "stop",
           UNCHANGED <<before, next, gone>>,
           mutated'[c] \in {mutated[c], mutated[c] \cup {h}},
           \A g \in Hosts : g # h => status'[g] = status[g] /\ ~Handles(c, g),
           h \notin mutated'[c] => status'[h] = before[c][h],
           ok /\ phase[c] = "receiver" => status'[h] = Running(next[c].otlp),
           ok /\ phase[c] = "mcp" => McpArrived(c)',
           Undoing(c) => Back(c, h)' /\ (h = "mcp" /\ IsRunning(status'[h]) => status'[h] = before[c][h]),
           gone = {} /\ IsRunning(before[c]["mcp"]) /\ h = "receiver" =>
               status'["receiver"] # before[c]["mcp"]
    PROVE  Undoable(c)'
<1>0. Undoable(c) /\ h \in Hosts /\ Hosts = {"receiver", "mcp"}
  BY DEF UndoInv, ActivePhases, Host, Hosts
<1>1. /\ phase[c] = "receiver" => h = "receiver" /\ phase'[c] \in {"mcp", "undoMcp"} /\ (phase'[c] = "mcp" => ok)
      /\ phase[c] = "mcp" => h = "mcp" /\ phase'[c] \in {"commit", "undoMcp"} /\ (phase'[c] = "commit" => ok)
      /\ phase[c] = "undoMcp" => h = "mcp" /\ phase'[c] = "undoReceiver"
      /\ phase[c] = "undoReceiver" => h = "receiver" /\ phase'[c] = "end"
  BY DEF Following, Host
<1>2. \A g \in Hosts : ~Handles(c, g)'
  BY DEF Handles
<1>3. \A g \in Hosts : g \notin mutated'[c] => status'[g] = before'[c][g]
  BY <1>0 DEF Undoable
<1>4. phase'[c] = "mcp" => "mcp" \notin mutated'[c] /\ status'["receiver"] = Running(next'[c].otlp)
  BY <1>0, <1>1 DEF Undoable, MovePhases
<1>5. phase'[c] = "commit" => McpArrived(c)' /\ status'["receiver"] = Running(next'[c].otlp)
  BY <1>0, <1>1 DEF Undoable, MovePhases
<1>6. phase'[c] = "undoReceiver" =>
        Back(c, "mcp")' /\ (IsRunning(status'["mcp"]) => status'["mcp"] = before'[c]["mcp"])
  BY <1>0, <1>1 DEF Undoing, MovePhases
<1>7. phase'[c] = "end" =>
        /\ Back(c, "mcp")' /\ (IsRunning(status'["mcp"]) => status'["mcp"] = before'[c]["mcp"])
        /\ Back(c, "receiver")'
  BY <1>0, <1>1 DEF Undoing, MovePhases, Undoable, Back
<1>8. gone' = {} /\ IsRunning(before'[c]["mcp"]) =>
         status'["receiver"] # before'[c]["mcp"] /\ before'[c]["receiver"] # before'[c]["mcp"]
  BY <1>0 DEF Undoable
<1>9. phase'[c] \in {"mcp", "commit", "undoMcp", "undoReceiver", "end"}
  BY <1>1 DEF MovePhases
<1> QED BY <1>2, <1>3, <1>4, <1>5, <1>6, <1>7, <1>8, <1>9 DEF Undoable
\* A listener that is bound is no other host's.
LEMMA BoundIs ==
    ASSUME WinInv, PortInv, NEW c \in Calls, step[c] # "stop", gone = {},
           NEW g \in Hosts, g # Host(c), NEW p \in Ports
    PROVE  /\ status[g] = Running(p) <=> held[p] = g
           /\ step[c] = "bound" => held[Target(c)] = Host(c) /\ Target(c) \in Ports
           /\ step[c] = "listen" => Target(c) \in Ports /\ held[Target(c)] # Host(c)
<1>1. /\ Host(c) \in Hosts /\ Early
      /\ \A d \in Calls : d # c => step[d] = "stop"
  BY AtWorkIs
<1>2. Holds(g) /\ Told(g) /\ Holds(Host(c)) /\ NoPort \notin Ports
  BY <1>1, PortAssumption DEF PortInv
<1>3. \A d \in Calls : ~Handles(d, g) /\ ~Binds(d, g, p)
  BY <1>1 DEF Handles, Binds
<1>4. status[g] = Running(p) <=> held[p] = g
  BY <1>2, <1>3 DEF Holds, Told
<1>5. step[c] \in {"bound", "listen"} => Target(c) \in Ports
  BY DEF PortInv, Targets
<1>6. step[c] = "bound" => held[Target(c)] = Host(c)
  BY <1>2, <1>5 DEF Holds, Binds
<1>7. step[c] = "listen" => held[Target(c)] # Host(c)
  <2>1. step[c] = "listen" => \A d \in Calls : ~Binds(d, Host(c), Target(c))
    BY <1>1 DEF Binds
  <2>2. Handles(c, Host(c))
    BY DEF Handles
  <2> QED BY <1>2, <1>5, <2>1, <2>2 DEF Holds
<1> QED BY <1>4, <1>5, <1>6, <1>7

LEMMA MoveKeepsUndo ==
    ASSUME WinInv, PortInv, UndoInv, NEW c \in Calls,
           Skip(c) \/ StopListener(c) \/ Disable(c) \/ Listen(c) \/ Settle(c)
    PROVE  Undoable(c)'
<1> PICK h : h = Host(c)
  OBVIOUS
<1>0. /\ UpdateTypes /\ PortTypes /\ Targets /\ NoPort \notin Ports /\ mutated \in [Calls -> SUBSET Hosts]
      /\ Hosts = {"receiver", "mcp"}
  BY PortAssumption DEF WinInv, PortInv, UndoInv, Hosts
<1>1. /\ phase[c] \in MovePhases /\ h \in Hosts /\ Undoable(c)
  <2>1. step[c] # "stop" \/ Moving(c)
    BY DEF Skip, StopListener, Disable, Listen, Settle
  <2>2. phase[c] \in MovePhases /\ h \in Hosts
    BY <2>1, AtWorkIs
  <2> QED BY <2>2 DEF UndoInv, ActivePhases
<1>2. next[c].otlp \in Ports /\ next[c].mcpPort \in Ports /\ (next[c].enabled \in BOOLEAN)
  BY <1>0 DEF UpdateTypes, Settings
<1>3. \A g \in Hosts : before[c][g] \in Statuses
  BY <1>0 DEF PortTypes
<1>4. CASE Skip(c)
  <2>1. /\ step[c] = "stop" /\ ~Needed(c) /\ phase'[c] = Following(c, TRUE) /\ step'[c] = "stop"
        /\ UNCHANGED <<status, before, next, gone, mutated>>
    BY <1>0, <1>4 DEF Skip, Advance, UpdateTypes, listeners, request
  <2>2. \A g \in Hosts : ~Handles(c, g)
    BY <2>1 DEF Handles
  <2>3. h \notin mutated[c] => status[h] = before[c][h]
    BY <1>1, <2>2 DEF Undoable
  <2>4. ASSUME phase[c] = "receiver" PROVE status[h] = Running(next[c].otlp)
    <3>1. h = "receiver" /\ Target(c) = next[c].otlp /\ ~Undoing(c)
      BY <2>4 DEF Host, Target, Undoing
    <3>2. h \notin mutated[c]
      BY <1>1, <2>4 DEF Undoable
    <3>3. before[c][h] = Running(next[c].otlp)
      BY <1>0, <1>2, <2>1, <3>1 DEF Needed
    <3> QED BY <2>3, <3>2, <3>3
  <2>5. ASSUME phase[c] = "mcp" PROVE McpArrived(c)'
    <3>1. h = "mcp" /\ Target(c) = (IF next[c].enabled THEN next[c].mcpPort ELSE NoPort) /\ ~Undoing(c)
      BY <2>5 DEF Host, Target, Undoing
    <3>2. status["mcp"] = before[c]["mcp"]
      BY <1>1, <2>3, <2>5, <3>1 DEF Undoable
    <3>3. CASE next[c].enabled
      <4>1. before[c]["mcp"] = Running(next[c].mcpPort)
        BY <1>0, <1>2, <2>1, <3>1, <3>3 DEF Needed
      <4> QED BY <2>1, <3>2, <3>3, <4>1 DEF McpArrived
    <3>4. CASE ~next[c].enabled
      <4>1. ~IsRunning(before[c]["mcp"])
        BY <2>1, <3>1, <3>4 DEF Needed
      <4> QED BY <2>1, <3>2, <3>4, <4>1 DEF McpArrived
    <3> QED BY <3>3, <3>4
  <2>6. ASSUME Undoing(c)
        PROVE  Back(c, h)' /\ (h = "mcp" /\ IsRunning(status'[h]) => status'[h] = before[c][h])
    <3>1. CASE h \notin mutated[c]
      <4>1. IsRunning(before[c][h]) => before[c][h] = Running(before[c][h].port)
        BY <1>1, <1>3, RunningIs
      <4> QED BY <2>1, <2>3, <3>1, <4>1 DEF Back
    <3>2. CASE h \in mutated[c]
      <4>1. h = "receiver" /\ ~IsRunning(before[c]["receiver"])
        BY <1>0, <1>1, <2>1, <2>6, <3>2 DEF Needed
      <4> QED BY <2>1, <4>1 DEF Back
    <3> QED BY <3>1, <3>2
  <2>7. gone = {} /\ IsRunning(before[c]["mcp"]) => status["receiver"] # before[c]["mcp"]
    BY <1>1 DEF Undoable
  <2> QED BY <1>1, <2>1, <2>2, <2>3, <2>4, <2>5, <2>6, <2>7, AdvanceHolds
<1>5. CASE StopListener(c)
  <2>1. /\ step[c] = "stop" /\ step'[c] # "stop" /\ UNCHANGED <<status, phase, before, next, gone, mutated>>
    BY <1>0, <1>5 DEF StopListener, UpdateTypes, request
  <2>2. \A g \in Hosts : ~Handles(c, g)
    BY <2>1 DEF Handles
  <2> QED BY <1>1, <2>1, <2>2 DEF Undoable, Back, McpArrived
<1>6. CASE Listen(c)
  <2>1. /\ step[c] = "listen" /\ step'[c] # "stop" /\ UNCHANGED <<phase, before, next, gone, mutated>>
        /\ status' = [status EXCEPT ![h] = Starting]
    BY <1>0, <1>6 DEF Listen, UpdateTypes, request
  <2>2. Host(c)' = h
    BY <2>1 DEF Host
  <2>3. Handles(c, h) /\ Handles(c, h)' /\ \A g \in Hosts : g # h => ~Handles(c, g) /\ status'[g] = status[g]
    BY <1>0, <2>1, <2>2 DEF Handles, PortTypes
  <2>4. status'[h] = Starting /\ ~IsRunning(Starting)
    BY <1>0, <1>1, <2>1 DEF PortTypes, Starting, IsRunning
  <2>5. \A g \in Hosts : IsRunning(before[c][g]) => before[c][g] # Starting
    BY <2>4
  <2>6. \A g \in Hosts : g \notin mutated'[c] /\ ~Handles(c, g)' => status'[g] = before'[c][g]
    BY <1>1, <2>1, <2>3 DEF Undoable
  <2>7. /\ phase[c] = "receiver" => h = "receiver"
        /\ phase[c] = "mcp" => h = "mcp"
        /\ phase[c] = "undoReceiver" => h = "receiver"
    BY DEF Host
  <2>8. phase'[c] = "mcp" => status'["receiver"] = Running(next'[c].otlp)
    BY <1>0, <1>1, <2>1, <2>3, <2>7 DEF Undoable
  <2>9. phase'[c] = "undoReceiver" =>
          Back(c, "mcp")' /\ (IsRunning(status'["mcp"]) => status'["mcp"] = before'[c]["mcp"])
    BY <1>0, <1>1, <2>1, <2>3, <2>7 DEF Undoable, Back
  <2>10. gone' = {} /\ IsRunning(before'[c]["mcp"]) =>
           status'["receiver"] # before'[c]["mcp"] /\ before'[c]["receiver"] # before'[c]["mcp"]
    BY <1>0, <1>1, <2>1, <2>3, <2>4, <2>5 DEF Undoable
  <2> QED BY <1>1, <2>1, <2>6, <2>8, <2>9, <2>10 DEF Undoable, MovePhases
<1>7. CASE Disable(c)
  <2>1. /\ step[c] = "disable" /\ phase'[c] = Following(c, TRUE) /\ step'[c] = "stop"
        /\ UNCHANGED <<before, next, gone>> /\ mutated'[c] = mutated[c] \cup {h}
        /\ status' = [status EXCEPT ![h] = Disabled]
    BY <1>0, <1>7 DEF Disable, Touched, Advance, UpdateTypes
  <2>2. /\ status'[h] = Disabled /\ ~IsRunning(Disabled)
        /\ \A g \in Hosts : g # h => status'[g] = status[g] /\ ~Handles(c, g)
    BY <1>0, <1>1, <2>1 DEF PortTypes, Disabled, IsRunning, Handles
  <2>3. Target(c) = NoPort
    BY <1>0, <2>1 DEF Targets
  <2>4. phase[c] # "receiver"
    BY <1>0, <1>2, <2>3 DEF Target, Undoing
  <2>5. ASSUME phase[c] = "mcp" PROVE McpArrived(c)'
    <3>1. h = "mcp" /\ ~next[c].enabled
      BY <1>0, <1>2, <2>3, <2>5 DEF Target, Undoing, Host
    <3> QED BY <2>1, <2>2, <3>1 DEF McpArrived
  <2>6. ASSUME Undoing(c) PROVE Back(c, h)'
    <3>1. ~IsRunning(before[c][h])
      BY <1>0, <1>1, <1>3, <2>3, <2>6, RunningIs DEF Target
    <3> QED BY <2>1, <3>1 DEF Back
  <2>7. gone = {} /\ IsRunning(before[c]["mcp"]) /\ h = "receiver" => status'["receiver"] # before[c]["mcp"]
    BY <2>2
  <2>8. h \in mutated'[c] /\ mutated'[c] \in {mutated[c], mutated[c] \cup {h}}
    BY <2>1
  <2>9. Undoing(c) => Back(c, h)' /\ (h = "mcp" /\ IsRunning(status'[h]) => status'[h] = before[c][h])
    BY <2>2, <2>6
  <2> QED BY <1>1, <2>1, <2>2, <2>4, <2>5, <2>7, <2>8, <2>9, AdvanceHolds
<1>8. CASE Settle(c)
  <2> PICK ok \in BOOLEAN : ok <=> step[c] = "bound"
    OBVIOUS
  <2>1. /\ step[c] \in {"bound", "failed"}
        /\ status' = [status EXCEPT ![h] = IF ok THEN Running(Target(c)) ELSE Failed(Target(c))]
        /\ mutated' = [mutated EXCEPT ![c] = @ \cup {h}]
        /\ Advance(c, ok)
        /\ UNCHANGED <<before, next, gone>>
    BY <1>8 DEF Settle, Touched
  <2>2. phase'[c] = Following(c, ok) /\ step'[c] = "stop" /\ mutated'[c] = mutated[c] \cup {h}
    BY <1>0, <2>1 DEF Advance, UpdateTypes
  <2>3. \A g \in Hosts : g # h => status'[g] = status[g] /\ ~Handles(c, g)
    BY <1>0, <2>1 DEF PortTypes, Handles
  <2>4. status'[h] = IF ok THEN Running(Target(c)) ELSE Failed(Target(c))
    BY <1>0, <1>1, <2>1 DEF PortTypes
  <2>5. Target(c) \in Ports
    BY <1>0, <2>1 DEF Targets
  <2>6. \A q \in Ports : IsRunning(Running(q)) /\ ~IsRunning(Failed(q))
    BY DEF Running, Failed, IsRunning
  <2>7. ASSUME ok, phase[c] = "receiver" PROVE status'[h] = Running(next[c].otlp)
    BY <2>4, <2>7 DEF Target, Undoing
  <2>8. ASSUME ok, phase[c] = "mcp" PROVE McpArrived(c)'
    <3>1. h = "mcp" /\ next[c].enabled /\ Target(c) = next[c].mcpPort
      BY <1>0, <2>5, <2>8 DEF Target, Undoing, Host
    <3> QED BY <2>1, <2>4, <2>8, <3>1 DEF McpArrived
  <2>9. ASSUME Undoing(c)
        PROVE  Back(c, h)' /\ (h = "mcp" /\ IsRunning(status'[h]) => status'[h] = before[c][h])
    <3>1. IsRunning(before[c][h]) /\ Target(c) = before[c][h].port
      BY <1>0, <2>5, <2>9 DEF Target
    <3>2. before[c][h] = Running(Target(c))
      BY <1>1, <1>3, <3>1, RunningIs
    <3> QED BY <2>1, <2>4, <2>5, <2>6, <3>1, <3>2 DEF Back
  <2>10. ASSUME gone = {}, IsRunning(before[c]["mcp"]), h = "receiver"
         PROVE  status'["receiver"] # before[c]["mcp"]
    <3>1. CASE ~ok
      BY <2>4, <2>5, <2>6, <2>10, <3>1
    <3>2. CASE ok /\ phase[c] = "receiver"
      <4>1. status["mcp"] = before[c]["mcp"]
        <5>1. ~Handles(c, "mcp") /\ "mcp" \notin mutated[c] /\ "mcp" \in Hosts
          BY <1>0, <1>1, <2>3, <2>10, <3>2 DEF Undoable
        <5> QED BY <1>1, <5>1 DEF Undoable
      <4>2. status["mcp"] # Running(Target(c))
        <5>1. step[c] # "stop" /\ "mcp" \in Hosts /\ "mcp" # Host(c) /\ step[c] = "bound"
          BY <1>0, <2>1, <2>10, <3>2
        <5>2. /\ status["mcp"] = Running(Target(c)) <=> held[Target(c)] = "mcp"
              /\ held[Target(c)] = Host(c)
          BY <2>5, <2>10, <5>1, BoundIs
        <5> QED BY <2>10, <5>2
      <4> QED BY <2>4, <2>10, <3>2, <4>1, <4>2
    <3>3. CASE ok /\ phase[c] # "receiver"
      <4>1. phase[c] = "undoReceiver"
        BY <2>10, <3>3 DEF Host
      <4>2. IsRunning(before[c]["receiver"]) /\ Target(c) = before[c]["receiver"].port
        BY <1>0, <2>5, <2>10, <4>1 DEF Target, Undoing
      <4>3. before[c]["receiver"] = Running(Target(c))
        BY <1>0, <1>3, <4>2, RunningIs
      <4> QED BY <1>1, <2>4, <2>10, <3>3, <4>3 DEF Undoable
    <3> QED BY <3>1, <3>2, <3>3
  <2>11. h \in mutated'[c] /\ mutated'[c] \in {mutated[c], mutated[c] \cup {h}}
    BY <2>2
  <2> QED BY <1>1, <2>1, <2>2, <2>3, <2>7, <2>8, <2>9, <2>10, <2>11, AdvanceHolds
<1> QED BY <1>4, <1>5, <1>6, <1>7, <1>8

LEMMA RunKeepsUndo ==
    ASSUME WinInv, PortInv, UndoInv, NEW c \in Calls, Run(c)
    PROVE  UndoInv'
<1>0. /\ UpdateTypes /\ PortTypes /\ mutated \in [Calls -> SUBSET Hosts] /\ Hosts = {"receiver", "mcp"}
  BY DEF WinInv, PortInv, UndoInv, Hosts
<1>1. /\ phase[c] \in ActivePhases \cup {"queued"}
      /\ \A d \in Calls : d # c => phase[d] \notin ActivePhases
  <2>1. step[c] # "stop" => phase[c] \in ActivePhases
    BY AtWorkIs DEF ActivePhases
  <2>2. \/ phase[c] \in ActivePhases
        \/ phase[c] = "queued" /\ Head(queue) = c
    BY <2>1 DEF Run, Refuse, Begin, MyTurn, Skip, StopListener, Moving, Undoing, Disable, Listen, Settle,
                CheckRevision, Rename, PersistFails, Apply, GiveUp, ActivePhases, MovePhases
  <2> QED BY <2>2 DEF WinInv, CallsInOrder, AtWork
<1>2. /\ mutated' \in [Calls -> SUBSET Hosts]
      /\ \A d \in Calls : d # c => phase'[d] = phase[d] /\ mutated'[d] = mutated[d]
  <2>1. CASE Disable(c) \/ Settle(c)
    <3>1. Host(c) \in Hosts
      BY DEF Host, Hosts
    <3>2. mutated' = [mutated EXCEPT ![c] = @ \cup {Host(c)}]
      BY <2>1 DEF Disable, Settle, Touched
    <3>3. \E ok \in BOOLEAN : phase' = [phase EXCEPT ![c] = Following(c, ok)]
      BY <2>1 DEF Disable, Settle, Advance
    <3> QED BY <1>0, <3>1, <3>2, <3>3 DEF UpdateTypes
  <2>2. CASE Refuse(c) \/ Begin(c) \/ Skip(c) \/ StopListener(c) \/ Listen(c)
    BY <1>0, <2>2 DEF Refuse, Begin, Skip, StopListener, Listen, Finish, Advance, UpdateTypes, request
  <2>3. CASE CheckRevision(c) \/ Rename(c) \/ PersistFails(c) \/ Apply(c) \/ GiveUp(c)
    BY <1>0, <2>3 DEF CheckRevision, Rename, PersistFails, Apply, GiveUp, Finish, UpdateTypes, request
  <2> QED BY <2>1, <2>2, <2>3 DEF Run
<1>3. ASSUME phase'[c] \in ActivePhases PROVE Undoable(c)'
  <2>1. CASE Skip(c) \/ StopListener(c) \/ Disable(c) \/ Listen(c) \/ Settle(c)
    BY <2>1, MoveKeepsUndo
  <2>2. CASE Refuse(c) \/ Apply(c) \/ GiveUp(c)
    <3>1. phase'[c] = "done"
      BY <1>0, <2>2 DEF Refuse, Apply, GiveUp, Finish, UpdateTypes
    <3> QED BY <1>3, <3>1 DEF ActivePhases, MovePhases
  <2>3. CASE CheckRevision(c) \/ Rename(c) \/ PersistFails(c)
    <3>1. /\ phase[c] \in {"commit", "write", "renamed"} /\ phase'[c] \in {"undoMcp", "write", "renamed"}
          /\ UNCHANGED <<status, before, next, gone, mutated, step>>
      BY <1>0, <2>3 DEF CheckRevision, Rename, PersistFails, UpdateTypes, listeners, request
    <3>2. Undoable(c) /\ step[c] = "stop"
      BY <3>1 DEF UndoInv, WinInv, CallsInOrder, ActivePhases, MovePhases
    <3>3. \A g \in Hosts : ~Handles(c, g) /\ ~Handles(c, g)'
      BY <3>1, <3>2 DEF Handles
    <3>4. phase'[c] # "undoMcp" => McpArrived(c)'
      BY <3>1, <3>2 DEF Undoable, McpArrived
    <3> QED BY <3>1, <3>2, <3>3, <3>4 DEF Undoable
  <2>4. CASE Begin(c)
    <3>1. /\ phase[c] = "queued" /\ phase'[c] = "receiver" /\ before'[c] = status /\ Head(queue) = c
          /\ UNCHANGED <<status, gone, mutated>>
      BY <1>0, <2>4 DEF Begin, MyTurn, UpdateTypes, PortTypes, listeners
    <3>2. mutated'[c] = {} /\ queue # <<>>
      BY <3>1, OneMover DEF UndoInv
    <3>3. \A d \in Calls : step[d] = "stop"
      BY <1>1, <3>1 DEF WinInv, CallsInOrder, ActivePhases, MovePhases
    <3>4. ASSUME gone = {}, IsRunning(status["mcp"]) PROVE status["receiver"] # status["mcp"]
      <4>1. Told("mcp") /\ Told("receiver") /\ Holds("mcp") /\ Holds("receiver")
        BY <1>0, <3>2, <3>4 DEF PortInv
      <4>2. PICK p \in Ports : status["mcp"] = Running(p)
        BY <1>0, <3>4, RunningIs DEF PortTypes
      <4>3. held[p] = "mcp"
        BY <3>3, <4>1, <4>2 DEF Told, Holds, Handles
      <4>4. status["receiver"] = Running(p) => held[p] = "receiver"
        BY <3>3, <4>1 DEF Told, Holds, Handles
      <4> QED BY <4>2, <4>3, <4>4
    <3> QED BY <3>1, <3>2, <3>4 DEF Undoable
  <2> QED BY <2>1, <2>2, <2>3, <2>4 DEF Run
<1>4. phase'[c] \notin {"idle", "queued"}
  <2>1. \A ok \in BOOLEAN : phase[c] \in MovePhases => Following(c, ok) \notin {"idle", "queued"}
    BY DEF Following, MovePhases
  <2>2. step[c] # "stop" \/ Moving(c) => phase[c] \in MovePhases
    BY AtWorkIs
  <2>3. CASE Refuse(c) \/ Begin(c) \/ CheckRevision(c) \/ Rename(c) \/ PersistFails(c) \/ Apply(c) \/ GiveUp(c)
    BY <1>0, <2>3 DEF Refuse, Begin, CheckRevision, Rename, PersistFails, Apply, GiveUp, Finish, UpdateTypes
  <2>4. CASE StopListener(c) \/ Listen(c)
    BY <1>0, <2>2, <2>4 DEF StopListener, Listen, UpdateTypes, MovePhases
  <2>5. CASE Skip(c) \/ Disable(c) \/ Settle(c)
    BY <1>0, <2>1, <2>2, <2>5 DEF Skip, Disable, Settle, Advance, UpdateTypes
  <2> QED BY <2>3, <2>4, <2>5 DEF Run
<1>5. \A d \in Calls : /\ phase'[d] \in ActivePhases => Undoable(d)'
                       /\ phase'[d] \in {"idle", "queued"} => mutated'[d] = {}
  BY <1>1, <1>2, <1>3, <1>4 DEF UndoInv
<1>6. reply[c] # "conflict"
  BY <1>1 DEF UndoInv, ActivePhases, MovePhases
<1>7. reply'[c] = "conflict" => phase'[c] = "done" /\ mutated'[c] = {}
  <2>1. CASE Refuse(c)
    <3>1. phase[c] = "queued" /\ phase'[c] = "done" /\ mutated' = mutated
      BY <1>0, <2>1 DEF Refuse, Finish, UpdateTypes, request
    <3> QED BY <3>1 DEF UndoInv
  <2>2. CASE CheckRevision(c)
    <3>1. asked[c].expected = settings.revision
      BY <2>2 DEF CheckRevision, WinInv, CallsInOrder, AtWork, ActivePhases
    <3> QED BY <1>0, <1>6, <2>2, <3>1 DEF CheckRevision, UpdateTypes
  <2>3. CASE Skip(c) \/ Disable(c) \/ Settle(c)
    BY <1>0, <1>6, <2>3 DEF Skip, Disable, Settle, Advance, UpdateTypes
  <2>4. CASE Begin(c) \/ StopListener(c) \/ Listen(c) \/ Rename(c)
    BY <1>6, <2>4 DEF Begin, StopListener, Listen, Rename
  <2>5. CASE PersistFails(c) \/ Apply(c) \/ GiveUp(c)
    BY <1>0, <1>6, <2>5 DEF PersistFails, Apply, GiveUp, Finish, UpdateTypes
  <2> QED BY <2>1, <2>2, <2>3, <2>4, <2>5 DEF Run
<1>8. \A d \in Calls : d # c => reply'[d] = reply[d]
  BY <1>0 DEF Run, Refuse, Begin, Skip, StopListener, Disable, Listen, Settle, CheckRevision, Rename,
              PersistFails, Apply, GiveUp, Finish, Advance, UpdateTypes
<1>9. \A d \in Calls : reply'[d] = "conflict" => phase'[d] = "done" /\ mutated'[d] = {}
  BY <1>2, <1>7, <1>8 DEF UndoInv
<1> QED BY <1>2, <1>5, <1>9 DEF UndoInv

LEMMA ElsewhereKeepsUndo ==
    ASSUME UndoInv, UNCHANGED <<status, before, next, mutated, step, reply>>, gone' = {} => gone = {},
           \A c \in Calls : phase'[c] = phase[c] \/ (phase[c] = "idle" /\ phase'[c] = "queued")
    PROVE  UndoInv'
<1>1. ASSUME NEW c \in Calls, phase'[c] \in ActivePhases PROVE Undoable(c)'
  <2>1. phase'[c] = phase[c]
    BY <1>1 DEF ActivePhases, MovePhases
  <2>2. Undoable(c) /\ (McpArrived(c)' <=> McpArrived(c)) /\ \A h \in Hosts : Back(c, h)' <=> Back(c, h)
    BY <1>1, <2>1 DEF UndoInv, McpArrived, Back
  <2>3. \A h \in Hosts : Handles(c, h)' <=> Handles(c, h)
    BY <2>1 DEF Handles, Host
  <2>4. "mcp" \in Hosts /\ "receiver" \in Hosts
    BY DEF Hosts
  <2> QED BY <2>1, <2>2, <2>3, <2>4 DEF Undoable
<1> QED BY <1>1 DEF UndoInv

\* What the property says of one step.
UpdateStep(c) ==
    /\ reply[c] # "ok" /\ reply'[c] = "ok" => Arrived(settings', status)
    /\ reply'[c] = "conflict" => mutated'[c] = {}
    /\ phase[c] = "end" /\ phase'[c] = "done" => Restored(c)
    /\ closing = "no" /\ Undoing(c) /\ step[c] = "listen" /\ step'[c] = "failed"
         => held[Target(c)] = "other"

LEMMA StepIsWhole ==
    ASSUME WinInv, PortInv, UndoInv, UndoInv', [Next]_vars, NEW c \in Calls
    PROVE  UpdateStep(c)
<1>0. UpdateTypes /\ PortTypes /\ Targets
  BY DEF WinInv, PortInv
<1>1. ASSUME reply[c] # "ok", reply'[c] = "ok" PROVE Apply(c)
  <2>1. CASE \E d \in Calls : Run(d)
    <3> PICK d \in Calls : Run(d)
      BY <2>1
    <3>1. CASE d = c
      <4>1. reply[c] = "ok" => phase[c] = "done"
        BY DEF WinInv, CallsInOrder, Won
      <4> QED BY <1>0, <1>1, <3>1 DEF Run, Refuse, Begin, Skip, StopListener, Disable, Listen, Settle,
                CheckRevision, Rename, PersistFails, GiveUp, Finish, Advance, UpdateTypes
    <3>2. CASE d # c
      BY <1>0, <1>1, <3>2 DEF Run, Refuse, Begin, Skip, StopListener, Disable, Listen, Settle,
                CheckRevision, Rename, PersistFails, Apply, GiveUp, Finish, Advance, UpdateTypes
    <3> QED BY <3>1, <3>2
  <2>2. CASE ~ \E d \in Calls : Run(d)
    BY <1>1, <2>2 DEF Next, Submit, Abandon, Restart, Close, StopApi, ApiStopped, CloseListener,
                      OtherTakes, OtherFrees, vars
  <2> QED BY <2>1, <2>2
<1>2. reply[c] # "ok" /\ reply'[c] = "ok" => Arrived(settings', status)
  <2> SUFFICES ASSUME reply[c] # "ok", reply'[c] = "ok" PROVE Arrived(settings', status)
    OBVIOUS
  <2>1. phase[c] = "renamed" /\ settings' = Committed(c)
    BY <1>1 DEF Apply
  <2>2. Undoable(c)
    BY <2>1 DEF UndoInv, ActivePhases
  <2>3. next[c] \in Settings
    BY <1>0 DEF UpdateTypes
  <2>4. /\ settings'.otlp = next[c].otlp /\ settings'.mcpPort = next[c].mcpPort
        /\ settings'.enabled = next[c].enabled
    BY <2>1, <2>3 DEF Committed, Settings
  <2>5. status["receiver"] = Running(next[c].otlp) /\ McpArrived(c)
    BY <2>1, <2>2 DEF Undoable
  <2> QED BY <2>4, <2>5, Zenon DEF Arrived, McpArrived
<1>3. reply'[c] = "conflict" => mutated'[c] = {}
  BY DEF UndoInv
<1>4. phase[c] = "end" => Restored(c)
  BY DEF UndoInv, Undoable, Back, Restored, Hosts, ActivePhases
<1>5. ASSUME closing = "no", Undoing(c), step[c] = "listen", step'[c] = "failed"
      PROVE  held[Target(c)] = "other"
  <2>1. Listen(c)
    <3>1. CASE \E d \in Calls : Run(d)
      <4> PICK d \in Calls : Run(d)
        BY <3>1
      <4>1. CASE d = c
        <5>1. \/ Skip(c) \/ StopListener(c) \/ Disable(c) \/ Listen(c) \/ Settle(c)
              \/ UNCHANGED step
          BY <4>1 DEF Run, Refuse, Begin, CheckRevision, Rename, PersistFails, Apply, GiveUp
        <5> QED BY <1>5, <5>1 DEF Skip, StopListener, Disable, Settle
      <4>2. CASE d # c
        BY <1>0, <1>5, <4>2 DEF Run, Refuse, Begin, Skip, StopListener, Disable, Listen, Settle,
                CheckRevision, Rename, PersistFails, Apply, GiveUp, Finish, Advance, UpdateTypes
      <4> QED BY <4>1, <4>2
    <3>2. CASE ~ \E d \in Calls : Run(d)
      BY <1>5, <3>2 DEF Next, Submit, Abandon, Restart, Close, StopApi, ApiStopped, CloseListener,
                      OtherTakes, OtherFrees, vars, progress
    <3> QED BY <3>1, <3>2
  <2>2. held[Target(c)] # "free"
    BY <1>0, <1>5, <2>1 DEF Listen, UpdateTypes
  <2>3. gone = {}
    BY <1>5 DEF PortInv
  <2>4. Target(c) \in Ports /\ phase[c] \in {"undoMcp", "undoReceiver"} /\ Undoable(c)
    BY <1>0, <1>5 DEF Targets, Undoing, UndoInv, ActivePhases, MovePhases
  <2> PICK g : g \in Hosts /\ g # Host(c) /\ Hosts = {g, Host(c)}
    BY DEF Hosts, Host
  <2>5. /\ status[g] = Running(Target(c)) <=> held[Target(c)] = g
        /\ held[Target(c)] # Host(c)
    BY <1>5, <2>3, <2>4, BoundIs
  <2>6. status[g] # Running(Target(c))
    <3>1. /\ IsRunning(before[c][Host(c)]) /\ Target(c) = before[c][Host(c)].port
          /\ before[c][Host(c)] \in Statuses
      <4>1. Host(c) \in Hosts
        BY DEF Host, Hosts
      <4> QED BY <1>0, <1>5, <2>4, <4>1, PortAssumption DEF Target, PortTypes
    <3>2. before[c][Host(c)] = Running(Target(c)) /\ IsRunning(Running(Target(c)))
      BY <3>1, RunningIs
    <3>3. CASE phase[c] = "undoMcp"
      <4>1. Host(c) = "mcp" /\ g = "receiver"
        BY <3>3 DEF Host, Hosts
      <4> QED BY <2>3, <2>4, <3>2, <4>1 DEF Undoable
    <3>4. CASE phase[c] = "undoReceiver"
      <4>1. Host(c) = "receiver" /\ g = "mcp"
        BY <3>4 DEF Host, Hosts
      <4>2. IsRunning(status["mcp"]) => status["mcp"] = before[c]["mcp"]
        BY <2>4, <3>4 DEF Undoable
      <4> QED BY <2>3, <2>4, <3>2, <4>1, <4>2 DEF Undoable
    <3> QED BY <2>4, <3>3, <3>4
  <2>7. held[Target(c)] \in {"free", "other"} \cup Hosts
    BY <1>0, <2>4 DEF PortTypes
  <2> QED BY <2>2, <2>5, <2>6, <2>7
<1> QED BY <1>2, <1>3, <1>4, <1>5 DEF UpdateStep

(* What the call at work has done can be undone: the statuses it found, the *)
(* hosts it has touched and where it is tell what the listeners are         *)
(* (updateSettings.ts), whatever fails.                                     *)
THEOREM UndoInvariant == Spec => []UndoInv
<1>1. Init => UndoInv
  BY DEF Init, UndoInv, ActivePhases, MovePhases
<1>2. WinInv /\ PortInv /\ UndoInv /\ [Next]_vars => UndoInv'
  <2> SUFFICES ASSUME WinInv, PortInv, UndoInv, [Next]_vars PROVE UndoInv'
    OBVIOUS
  <2>1. CASE \E c \in Calls : Run(c)
    BY <2>1, RunKeepsUndo
  <2>2. ASSUME NEW c \in Calls, Submit(c) PROVE UndoInv'
    <3>1. \A d \in Calls : phase'[d] = phase[d] \/ (phase[d] = "idle" /\ phase'[d] = "queued")
      BY <2>2 DEF WinInv, UpdateTypes, Submit
    <3> QED BY <2>2, <3>1, ElsewhereKeepsUndo DEF Submit, listeners
  <2>3. CASE Restart
    <3>1. /\ phase' = [c \in Calls |-> IF phase[c] \in {"idle", "done"} THEN phase[c] ELSE "lost"]
          /\ UNCHANGED <<reply, mutated>>
      BY <2>3 DEF Restart, request
    <3> QED BY <3>1 DEF UndoInv, ActivePhases, MovePhases
  <2>4. ASSUME NEW c \in Calls, Abandon(c) PROVE UndoInv'
    BY <2>4, ElsewhereKeepsUndo DEF Abandon, listeners, progress, request
  <2>5. CASE Close \/ StopApi \/ ApiStopped \/ \E h \in Hosts : CloseListener(h)
    BY <2>5, ElsewhereKeepsUndo DEF Close, StopApi, ApiStopped, CloseListener, listeners, progress, request
  <2>6. CASE \E p \in Ports : OtherTakes(p) \/ OtherFrees(p)
    BY <2>6, ElsewhereKeepsUndo DEF OtherTakes, OtherFrees, progress, request
  <2>7. CASE UNCHANGED vars
    BY <2>7, ElsewhereKeepsUndo DEF vars, listeners, progress, request
  <2> QED BY <2>1, <2>2, <2>3, <2>4, <2>5, <2>6, <2>7 DEF Next
<1> QED BY <1>1, <1>2, UpdateInvariant, PortInvariant, PTL DEF Spec

(* An update is all or nothing for the listeners that ran, for any ports,   *)
(* patches and number of calls, and whatever fails or is closed meanwhile   *)
(* (updateSettings.ts, receiverHost.ts, mcpHost.ts): a successful one       *)
(* leaves them where the settings say, a refused one where they were, one   *)
(* that is told of a conflict has touched none, and the rollback never      *)
(* stands in its own way.                                                   *)
THEOREM AllOrNothingCorrect == Spec => AllOrNothing
<1>1. WinInv /\ PortInv /\ UndoInv /\ UndoInv' /\ [Next]_vars => [\A c \in Calls : UpdateStep(c)]_vars
  BY StepIsWhole
<1>2. [\A c \in Calls : UpdateStep(c)]_vars =>
      [\A c \in Calls :
        /\ reply[c] # "ok" /\ reply'[c] = "ok" => Arrived(settings', status)
        /\ reply'[c] = "conflict" => mutated'[c] = {}
        /\ phase[c] = "end" /\ phase'[c] = "done" => Restored(c)
        /\ closing = "no" /\ Undoing(c) /\ step[c] = "listen" /\ step'[c] = "failed"
             => held[Target(c)] = "other"]_vars
  BY DEF UpdateStep
<1> QED BY <1>1, <1>2, UpdateInvariant, PortInvariant, UndoInvariant, PTL DEF Spec, AllOrNothing

-----------------------------------------------------------------------------
(* The queue moves, and each call in it is nearer to its end.               *)

Steps == {"stop", "disable", "listen", "bound", "failed"}

\* The guards of the steps of a call, whatever they then do.
MayRun(c) ==
    \/ phase[c] = "queued" /\ MyTurn(c)
    \/ Moving(c) /\ step[c] \in Steps
    \/ phase[c] \in {"commit", "write", "renamed", "end"}

\* Each call is queued once, and those in the queue have not ended.
QueueInv ==
    /\ \A n \in 1..Len(queue) : phase[queue[n]] \in ActivePhases \cup {"queued"}
    /\ \A n, k \in 1..Len(queue) : queue[n] = queue[k] => n = k

\* What is left to do, the restart of a listener counted step by step.
PhaseNo(p) ==
    CASE p = "idle" -> 10 [] p = "queued" -> 9 [] p = "receiver" -> 8 [] p = "mcp" -> 7
      [] p = "commit" -> 6 [] p = "write" -> 5 [] p = "renamed" -> 4
      [] p = "undoMcp" -> 3 [] p = "undoReceiver" -> 2 [] p = "end" -> 1 [] OTHER -> 0
StepNo(s) == CASE s = "stop" -> 3 [] s = "listen" -> 2 [] OTHER -> 1
Rank(c) == 4 * PhaseNo(phase[c]) + StepNo(step[c])

LEMMA RankIsNumber == \A p, s : 4 * PhaseNo(p) + StepNo(s) \in 1..43
<1> SUFFICES ASSUME NEW p, NEW s PROVE 4 * PhaseNo(p) + StepNo(s) \in 1..43
  OBVIOUS
<1>1. PhaseNo(p) \in 0..10
  BY DEF PhaseNo
<1>2. StepNo(s) \in 1..3
  BY DEF StepNo
<1> QED BY <1>1, <1>2

\* A step of a call ends it, or takes it on.
LEMMA RunIs ==
    ASSUME WinInv, NEW c \in Calls, Run(c)
    PROVE  /\ phase[c] \in ActivePhases \cup {"queued"} /\ queue # <<>> /\ Head(queue) = c
           /\ \/ /\ phase' = [phase EXCEPT ![c] = "done"] /\ queue' = Tail(queue)
                 /\ UNCHANGED step
              \/ /\ UNCHANGED queue
                 /\ \E p \in ActivePhases, s \in Steps :
                      /\ phase' = [phase EXCEPT ![c] = p] /\ step' = [step EXCEPT ![c] = s]
                      /\ 4 * PhaseNo(p) + StepNo(s) < Rank(c)
<1>0. /\ phase[c] \in Phases /\ step[c] \in Steps /\ step \in [Calls -> Steps]
      /\ phase[c] \in ActivePhases => queue # <<>> /\ Head(queue) = c
      /\ phase[c] = "queued" => queue # <<>>
      /\ step[c] # "stop" => phase[c] \in MovePhases
      /\ step = [step EXCEPT ![c] = step[c]] /\ phase = [phase EXCEPT ![c] = phase[c]]
  BY DEF WinInv, UpdateTypes, CallsInOrder, AtWork, Waits, Steps
<1>1. ASSUME NEW ok \in BOOLEAN, Advance(c, ok), phase[c] \in MovePhases
      PROVE  \E p \in ActivePhases, s \in Steps :
               /\ phase' = [phase EXCEPT ![c] = p] /\ step' = [step EXCEPT ![c] = s]
               /\ 4 * PhaseNo(p) + StepNo(s) < Rank(c)
  <2>1. Following(c, ok) \in ActivePhases /\ PhaseNo(Following(c, ok)) < PhaseNo(phase[c])
    BY <1>1 DEF Following, ActivePhases, MovePhases, PhaseNo
  <2>2. 4 * PhaseNo(Following(c, ok)) + StepNo("stop") < Rank(c)
    <3>1. PhaseNo(Following(c, ok)) \in Nat /\ PhaseNo(phase[c]) \in Nat
      BY DEF PhaseNo
    <3>2. StepNo("stop") = 3 /\ StepNo(step[c]) \in 1..3
      BY DEF StepNo
    <3> QED BY <2>1, <3>1, <3>2 DEF Rank
  <2>3. "stop" \in Steps
    BY DEF Steps
  <2> QED BY <1>1, <2>1, <2>2, <2>3 DEF Advance
<1>2. ASSUME phase[c] \in MovePhases, NEW s \in Steps, step' = [step EXCEPT ![c] = s],
             UNCHANGED phase, StepNo(s) < StepNo(step[c])
      PROVE  \E p \in ActivePhases, t \in Steps :
               /\ phase' = [phase EXCEPT ![c] = p] /\ step' = [step EXCEPT ![c] = t]
               /\ 4 * PhaseNo(p) + StepNo(t) < Rank(c)
  <2>1. phase[c] \in ActivePhases
    BY <1>2 DEF ActivePhases
  <2>2. 4 * PhaseNo(phase[c]) + StepNo(s) < Rank(c)
    <3>1. PhaseNo(phase[c]) \in Nat /\ StepNo(s) \in Nat /\ StepNo(step[c]) \in Nat
      BY DEF PhaseNo, StepNo
    <3> QED BY <1>2, <3>1 DEF Rank
  <2> QED BY <1>0, <1>2, <2>1, <2>2
<1>3. ASSUME NEW p \in ActivePhases, phase' = [phase EXCEPT ![c] = p], UNCHANGED step,
             PhaseNo(p) < PhaseNo(phase[c])
      PROVE  \E q \in ActivePhases, s \in Steps :
               /\ phase' = [phase EXCEPT ![c] = q] /\ step' = [step EXCEPT ![c] = s]
               /\ 4 * PhaseNo(q) + StepNo(s) < Rank(c)
  <2>1. 4 * PhaseNo(p) + StepNo(step[c]) < Rank(c)
    <3>1. PhaseNo(phase[c]) \in Nat /\ PhaseNo(p) \in Nat /\ StepNo(step[c]) \in Nat
      BY DEF PhaseNo, StepNo
    <3> QED BY <1>3, <3>1 DEF Rank
  <2> QED BY <1>0, <1>3, <2>1
<1>4. CASE Refuse(c) \/ Apply(c) \/ GiveUp(c)
  <2>1. /\ phase' = [phase EXCEPT ![c] = "done"] /\ queue' = Tail(queue) /\ UNCHANGED step
        /\ phase[c] \in {"queued", "renamed", "end"}
        /\ phase[c] = "queued" => Head(queue) = c
    BY <1>4 DEF Refuse, Apply, GiveUp, Finish, MyTurn
  <2> QED BY <1>0, <2>1 DEF ActivePhases
<1>5. CASE Begin(c)
  <2>1. /\ phase' = [phase EXCEPT ![c] = "receiver"] /\ UNCHANGED <<queue, step>>
        /\ phase[c] = "queued" /\ Head(queue) = c
    BY <1>5 DEF Begin, MyTurn
  <2>2. "receiver" \in ActivePhases /\ PhaseNo("receiver") < PhaseNo("queued")
    BY DEF ActivePhases, MovePhases, PhaseNo
  <2> QED BY <1>0, <1>3, <2>1, <2>2
<1>6. CASE Skip(c)
  <2>1. phase[c] \in MovePhases /\ Advance(c, TRUE) /\ UNCHANGED queue
    BY <1>6 DEF Skip, Moving, Undoing, MovePhases
  <2> QED BY <1>0, <1>1, <2>1 DEF ActivePhases
<1>7. CASE StopListener(c)
  <2>1. phase[c] \in MovePhases /\ UNCHANGED <<queue, phase>> /\ step[c] = "stop"
    BY <1>7 DEF StopListener, Moving, Undoing, MovePhases
  <2>2. PICK s \in {"disable", "listen"} : step' = [step EXCEPT ![c] = s]
    BY <1>7 DEF StopListener
  <2>3. s \in Steps /\ StepNo(s) < StepNo("stop")
    BY <2>2 DEF Steps, StepNo
  <2> QED BY <1>0, <1>2, <2>1, <2>2, <2>3 DEF ActivePhases
<1>8. CASE Disable(c)
  <2>1. phase[c] \in MovePhases /\ Advance(c, TRUE) /\ UNCHANGED queue
    BY <1>0, <1>8 DEF Disable
  <2> QED BY <1>0, <1>1, <2>1 DEF ActivePhases
<1>9. CASE Listen(c)
  <2>1. phase[c] \in MovePhases /\ UNCHANGED <<queue, phase>> /\ step[c] = "listen"
    BY <1>0, <1>9 DEF Listen
  <2>2. PICK s \in {"bound", "failed"} : step' = [step EXCEPT ![c] = s]
    BY <1>9 DEF Listen
  <2>3. s \in Steps /\ StepNo(s) < StepNo("listen")
    BY <2>2 DEF Steps, StepNo
  <2> QED BY <1>0, <1>2, <2>1, <2>2, <2>3 DEF ActivePhases
<1>10. CASE Settle(c)
  <2>1. phase[c] \in MovePhases /\ UNCHANGED queue /\ \E ok \in BOOLEAN : Advance(c, ok)
    BY <1>0, <1>10 DEF Settle
  <2> QED BY <1>0, <1>1, <2>1 DEF ActivePhases
<1>11. CASE CheckRevision(c) \/ Rename(c) \/ PersistFails(c)
  <2>1. UNCHANGED <<queue, step>> /\ phase[c] \in {"commit", "write", "renamed"}
    BY <1>11 DEF CheckRevision, Rename, PersistFails
  <2>2. PICK p \in {"undoMcp", "write", "renamed"} :
          phase' = [phase EXCEPT ![c] = p] /\ PhaseNo(p) < PhaseNo(phase[c])
    BY <1>11 DEF CheckRevision, Rename, PersistFails, PhaseNo
  <2>3. p \in ActivePhases /\ phase[c] \in ActivePhases
    BY <2>1 DEF ActivePhases, MovePhases
  <2> QED BY <1>0, <1>3, <2>1, <2>2, <2>3
<1> QED BY <1>4, <1>5, <1>6, <1>7, <1>8, <1>9, <1>10, <1>11 DEF Run

LEMMA QueueStep ==
    ASSUME WinInv, QueueInv, [Next]_vars
    PROVE  QueueInv'
<1>0. queue \in Seq(Calls) /\ phase \in [Calls -> Phases]
  BY DEF WinInv, UpdateTypes
<1>1. ASSUME NEW c \in Calls, Run(c) PROVE QueueInv'
  <2>1. queue # <<>> /\ Head(queue) = c /\ c = queue[1]
    BY <1>0, <1>1, RunIs
  <2>2. CASE phase' = [phase EXCEPT ![c] = "done"] /\ queue' = Tail(queue)
    <3>1. Len(queue') = Len(queue) - 1 /\ \A n \in 1..Len(queue') : queue'[n] = queue[n + 1]
      BY <1>0, <2>1, <2>2
    <3>2. Len(queue) \in Nat /\ \A n \in 1..Len(queue') : n + 1 \in 1..Len(queue) /\ n + 1 # 1
      BY <1>0, <3>1
    <3>3. 1 \in 1..Len(queue) /\ \A n \in 1..Len(queue) : queue[n] \in Calls
      BY <1>0, <2>1
    <3>4. ASSUME NEW n \in 1..Len(queue') PROVE queue'[n] # c /\ phase'[queue'[n]] = phase[queue[n + 1]]
      BY <1>0, <2>1, <2>2, <3>1, <3>2, <3>3 DEF QueueInv
    <3>5. ASSUME NEW n \in 1..Len(queue'), NEW k \in 1..Len(queue'), queue'[n] = queue'[k] PROVE n = k
      <4>1. n + 1 = k + 1
        BY <3>1, <3>2, <3>5 DEF QueueInv
      <4> QED BY <4>1
    <3> QED BY <3>2, <3>4, <3>5 DEF QueueInv
  <2>3. CASE UNCHANGED queue /\ \E p \in ActivePhases : phase' = [phase EXCEPT ![c] = p]
    BY <1>0, <2>3 DEF QueueInv
  <2> QED BY <1>1, <2>2, <2>3, RunIs
<1>2. ASSUME NEW c \in Calls, Submit(c) PROVE QueueInv'
  <2>1. phase[c] = "idle" /\ phase' = [phase EXCEPT ![c] = "queued"] /\ queue' = Append(queue, c)
    BY <1>2 DEF Submit
  <2>2. \A n \in 1..Len(queue) : queue[n] # c /\ queue[n] \in Calls
    BY <1>0, <2>1 DEF QueueInv, ActivePhases, MovePhases
  <2>3. /\ Len(queue) \in Nat /\ Len(queue') = Len(queue) + 1 /\ queue'[Len(queue) + 1] = c
        /\ \A n \in 1..Len(queue) : queue'[n] = queue[n]
    BY <1>0, <2>1
  <2>4. \A n \in 1..Len(queue') : n \in 1..Len(queue) \/ n = Len(queue) + 1
    BY <2>3
  <2>5. phase'[c] = "queued" /\ \A d \in Calls : d # c => phase'[d] = phase[d]
    BY <1>0, <2>1
  <2>6. ASSUME NEW n \in 1..Len(queue') PROVE phase'[queue'[n]] \in ActivePhases \cup {"queued"}
    BY <2>2, <2>3, <2>4, <2>5 DEF QueueInv
  <2>7. ASSUME NEW n \in 1..Len(queue'), NEW k \in 1..Len(queue'), queue'[n] = queue'[k] PROVE n = k
    BY <2>2, <2>3, <2>4, <2>7 DEF QueueInv
  <2> QED BY <2>6, <2>7 DEF QueueInv
<1>3. CASE Restart
  <2>1. queue' = <<>>
    BY <1>3 DEF Restart
  <2> QED BY <2>1 DEF QueueInv
<1>4. CASE UNCHANGED <<queue, phase>>
  BY <1>4 DEF QueueInv
<1>5. ASSUME \/ \E c \in Calls : Abandon(c)
             \/ Close \/ StopApi \/ ApiStopped \/ \E h \in Hosts : CloseListener(h)
             \/ \E p \in Ports : OtherTakes(p) \/ OtherFrees(p)
             \/ UNCHANGED vars
      PROVE  UNCHANGED <<queue, phase>>
  BY <1>5 DEF Abandon, Close, StopApi, ApiStopped, CloseListener, OtherTakes, OtherFrees, vars, progress
<1> QED BY <1>1, <1>2, <1>3, <1>4, <1>5 DEF Next

(* The mutation queue never stands still with a call that has ended, or that *)
(* waits for another, at its head (runtime.ts, serializeMutation): whatever  *)
(* failed before it, a guard of the head's next step holds.  What TLC checks *)
(* as QueueMoves, for any number of calls, without ENABLED.                  *)
THEOREM HeadMayRun == Spec => [](Queued # {} => MayRun(Head(queue)))
<1>1. Init => QueueInv
  BY DEF Init, QueueInv
<1>2. WinInv /\ QueueInv /\ [Next]_vars => QueueInv'
  BY QueueStep
<1>3. WinInv /\ QueueInv => (Queued # {} => MayRun(Head(queue)))
  <2> SUFFICES ASSUME WinInv, QueueInv, Queued # {} PROVE MayRun(Head(queue))
    OBVIOUS
  <2> DEFINE c == queue[1]
  <2>1. queue \in Seq(Calls) /\ step \in [Calls -> Steps]
    BY DEF WinInv, UpdateTypes, Steps
  <2>2. 1 \in 1..Len(queue) /\ c = Head(queue) /\ c \in Calls
    BY <2>1 DEF Queued
  <2>3. phase[c] \in ActivePhases \cup {"queued"}
    BY <2>2 DEF QueueInv
  <2> QED BY <2>1, <2>2, <2>3 DEF MayRun, MyTurn, Moving, Undoing, ActivePhases, MovePhases
<1> QED BY <1>1, <1>2, <1>3, UpdateInvariant, PTL DEF Spec

(* Nothing sends a call back: every step of its own brings it nearer to its  *)
(* end, and no other step takes it further away, so that a mutation, with    *)
(* its listeners moved and moved back, ends within 43 steps of its own.      *)
THEOREM CallsComeToAnEnd ==
    Spec => [][\A c \in Calls : /\ Rank(c) \in 1..43
                                /\ Rank(c)' <= Rank(c)
                                /\ Run(c) => Rank(c)' < Rank(c)]_vars
<1>1. ASSUME WinInv, [Next]_vars, NEW c \in Calls
      PROVE  Rank(c) \in 1..43 /\ Rank(c)' <= Rank(c) /\ (Run(c) => Rank(c)' < Rank(c))
  <2>0. /\ phase \in [Calls -> Phases] /\ step \in [Calls -> Steps]
        /\ Rank(c) \in 1..43
    BY <1>1, RankIsNumber DEF WinInv, UpdateTypes, Steps, Rank
  <2>1. ASSUME Run(c) PROVE Rank(c)' < Rank(c)
    <3>1. CASE phase' = [phase EXCEPT ![c] = "done"] /\ UNCHANGED step
      <4>1. phase[c] \in ActivePhases \cup {"queued"}
        BY <1>1, <2>1, RunIs
      <4>2. PhaseNo("done") = 0 /\ PhaseNo(phase[c]) \in 1..10
        BY <4>1 DEF PhaseNo, ActivePhases, MovePhases
      <4>3. phase'[c] = "done" /\ step'[c] = step[c] /\ StepNo(step[c]) \in Nat
        BY <2>0, <3>1 DEF StepNo
      <4> QED BY <4>2, <4>3 DEF Rank
    <3>2. CASE \E p \in ActivePhases, s \in Steps :
                 /\ phase' = [phase EXCEPT ![c] = p] /\ step' = [step EXCEPT ![c] = s]
                 /\ 4 * PhaseNo(p) + StepNo(s) < Rank(c)
      BY <2>0, <3>2 DEF Rank
    <3> QED BY <1>1, <2>1, <3>1, <3>2, RunIs
  <2>2. ASSUME NEW d \in Calls, Run(d), d # c PROVE Rank(c)' = Rank(c)
    <3>1. phase'[c] = phase[c] /\ step'[c] = step[c]
      BY <1>1, <2>0, <2>2, RunIs
    <3> QED BY <3>1 DEF Rank
  <2>3. ASSUME NEW d \in Calls, Submit(d) PROVE Rank(c)' <= Rank(c)
    <3>1. phase[d] = "idle" /\ phase' = [phase EXCEPT ![d] = "queued"] /\ UNCHANGED step
      BY <2>3 DEF Submit
    <3>2. PhaseNo("queued") = 9 /\ PhaseNo("idle") = 10 /\ StepNo(step[c]) \in Nat
      BY DEF PhaseNo, StepNo
    <3>3. CASE d = c
      BY <2>0, <3>1, <3>2, <3>3 DEF Rank
    <3>4. CASE d # c
      BY <2>0, <3>1, <3>4 DEF Rank
    <3> QED BY <3>3, <3>4
  <2>4. ASSUME Restart PROVE Rank(c)' <= Rank(c)
    <3>1. /\ phase'[c] = IF phase[c] \in {"idle", "done"} THEN phase[c] ELSE "lost"
          /\ step'[c] = "stop"
      BY <2>4 DEF Restart
    <3>2. step[c] # "stop" => phase[c] \in MovePhases
      BY <1>1 DEF WinInv, CallsInOrder
    <3>3. PhaseNo("lost") = 0 /\ PhaseNo(phase[c]) \in Nat /\ StepNo("stop") = 3 /\ StepNo(step[c]) \in Nat
      BY DEF PhaseNo, StepNo
    <3>4. CASE phase[c] \in MovePhases
      <4>1. phase'[c] = "lost" /\ PhaseNo(phase[c]) \in 1..10 /\ StepNo(step[c]) >= 1
        BY <3>1, <3>4 DEF PhaseNo, StepNo, MovePhases
      <4>2. 4 * PhaseNo(phase[c]) >= 4 /\ StepNo(step[c]) \in Nat /\ 4 * PhaseNo(phase[c]) \in Nat
        BY <3>3, <4>1
      <4>3. Rank(c)' = 3
        BY <3>1, <3>3, <4>1 DEF Rank
      <4>4. Rank(c) >= 3
        BY <4>1, <4>2 DEF Rank
      <4> QED BY <2>0, <4>3, <4>4
    <3>5. CASE phase[c] \notin MovePhases
      <4>1. step'[c] = step[c] /\ (phase'[c] = phase[c] \/ PhaseNo(phase'[c]) = 0)
        BY <3>1, <3>2, <3>3, <3>5
      <4>2. CASE phase'[c] = phase[c]
        <5>1. Rank(c)' = Rank(c)
          BY <4>1, <4>2 DEF Rank
        <5> QED BY <2>0, <5>1
      <4>3. CASE PhaseNo(phase'[c]) = 0
        <5>1. Rank(c)' = StepNo(step[c])
          BY <3>3, <4>1, <4>3 DEF Rank
        <5>2. StepNo(step[c]) <= Rank(c)
          BY <3>3 DEF Rank
        <5> QED BY <2>0, <3>3, <5>1, <5>2
      <4> QED BY <4>1, <4>2, <4>3
    <3> QED BY <3>4, <3>5
  <2>5. ASSUME \/ \E d \in Calls : Abandon(d)
               \/ Close \/ StopApi \/ ApiStopped \/ \E h \in Hosts : CloseListener(h)
               \/ \E p \in Ports : OtherTakes(p) \/ OtherFrees(p)
               \/ UNCHANGED vars
        PROVE  Rank(c)' <= Rank(c)
    <3>1. UNCHANGED <<phase, step>>
      BY <2>5 DEF Abandon, Close, StopApi, ApiStopped, CloseListener, OtherTakes, OtherFrees, vars, progress
    <3> QED BY <2>0, <3>1 DEF Rank
  <2>6. Rank(c)' <= Rank(c)
    <3>1. CASE \E d \in Calls : Run(d)
      <4>1. CASE Run(c)
        <5>1. Rank(c)' < Rank(c) /\ Rank(c)' \in 1..43
          BY <2>1, <4>1, RankIsNumber DEF Rank
        <5> QED BY <2>0, <5>1
      <4>2. CASE ~Run(c)
        <5>1. Rank(c)' = Rank(c)
          BY <2>2, <3>1, <4>2
        <5> QED BY <2>0, <5>1
      <4> QED BY <4>1, <4>2
    <3>2. CASE ~\E d \in Calls : Run(d)
      BY <1>1, <2>3, <2>4, <2>5, <3>2 DEF Next
    <3> QED BY <3>1, <3>2
  <2> QED BY <2>0, <2>1, <2>6
<1>2. WinInv /\ [Next]_vars
        => [\A c \in Calls : /\ Rank(c) \in 1..43
                             /\ Rank(c)' <= Rank(c)
                             /\ Run(c) => Rank(c)' < Rank(c)]_vars
  BY <1>1
<1> QED BY <1>2, UpdateInvariant, PTL DEF Spec
=============================================================================
