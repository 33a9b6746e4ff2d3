---------------------------- MODULE BoxLifeProofs ----------------------------
(***************************************************************************)
(* A machine's life, for any number of machines, commands, failed calls and  *)
(* cut-offs, and whatever the account held before: never two machines at     *)
(* once, none lost sight of or left unguarded, no games lost unasked.        *)
(***************************************************************************)
EXTENDS BoxLife, TLAPS, FiniteSetTheorems

Bills == {"pending", "running", "stopping", "stopped"}

\* Two machines that bill are one.
One == \A b, c \in Standing : b = c

\* A machine that is ended has no request that would bring it back.
NoReturn == \A b \in Boxes : box[b].st = "shutting-down" /\ box[b].kind = "old" => ~box[b].req

\* The games of a machine that is there can be written, or were given up.
Written == \A b \in Boxes : box[b].st \notin {"none", "terminated"} => CanWrite \/ b \in asked

\* What the command that runs has made sure of so far.
Course ==
  /\ cmd.step = "launches" => CanWrite
  /\ cmd.step \in {"records", "starts", "finds"} => \E b \in Boxes : cmd.boxes = {b}
  /\ cmd.step = "records" => Standing \subseteq cmd.boxes
  /\ cmd.step = "cancels" => Standing \subseteq cmd.boxes
  /\ cmd.step \in {"cancels", "terminates"} => \A b \in cmd.boxes : box[b].st # "none"
  /\ cmd.step = "terminates" => \A b \in cmd.boxes : box[b].kind = "old" => ~box[b].req
  /\ cmd.step \in {"terminates", "waits"} /\ ~cmd.left => Standing \subseteq cmd.boxes
  /\ cmd.step \in {"images", "cleans"} /\ ~cmd.left => Standing = {}
  /\ cmd.step = "empties" => Standing = {}
  /\ cmd.left => cmd.bad

LInv == One /\ NoReturn /\ Written /\ Course

-----------------------------------------------------------------------------
(* What holds of the numbers, the sets and the states of machines.           *)
LEMMA BoxesAre == /\ 0 \notin Boxes
                  /\ \A b \in Boxes : b \in Nat
<1>1. \A n \in Nat : \A b \in 1..n : b \in Nat /\ b # 0
  OBVIOUS
<1>2. Cardinality(Boxes) \in Nat
  BY FS_CardinalityType, BoxesAssumption
<1>3. QED BY <1>1, <1>2, BoxesAssumption

LEMMA StandingIs ==
  /\ Standing = {b \in Boxes : box[b].st \in Bills}
  /\ Existing = Standing
  /\ Standing' = {b \in Boxes : box'[b].st \in Bills}
BY DEF Standing, Existing, Was, St, Bills

\* What AWS, a session or a command may do to the machines there are: no machine
\* comes to be, none comes back, and one that is ended keeps no request.
Falls ==
  \A b \in Boxes :
    /\ box'[b].kind = box[b].kind /\ (box'[b].req => box[b].req)
    /\ box'[b].st \in Bills => box[b].st \in Bills
    /\ box'[b].st = "none" <=> box[b].st = "none"
    /\ box[b].st = "terminated" => box'[b].st = "terminated"
    /\ box'[b].st = "shutting-down" /\ box[b].kind = "old" => ~box'[b].req

LEMMA FallsKeeps ==
  ASSUME TypeOK, LInv, Falls, CanWrite => CanWrite', asked \subseteq asked'
  PROVE  /\ One' /\ NoReturn' /\ Written'
         /\ Standing' \subseteq Standing
<1>1. Standing' \subseteq Standing
  BY StandingIs DEF Falls
<1>2. One'
  BY <1>1 DEF LInv, One
<1>3. NoReturn'
  BY DEF Falls, NoReturn, LInv
<1>4. Written'
  BY DEF Falls, Written, LInv
<1>5. QED BY <1>1, <1>2, <1>3, <1>4

\* Nothing happens to the machines.
LEMMA StaysFalls ==
  ASSUME TypeOK, LInv, UNCHANGED box
  PROVE  Falls
BY DEF Falls, LInv, NoReturn

\* Beside the command, and when it is cut off or only says what it did.
LEMMA Beside ==
  ASSUME TypeOK, LInv, Falls, UNCHANGED <<policy, guards, asked>>, cmd' = cmd \/ cmd' = Idle
  PROVE  LInv'
<1>1. CanWrite' = CanWrite
  BY DEF CanWrite
<1>2. One' /\ NoReturn' /\ Written' /\ Standing' \subseteq Standing
  BY <1>1, FallsKeeps
<1>3. CASE cmd' = Idle
  BY <1>2, <1>3 DEF Idle, Course, LInv
<1>4. CASE cmd' = cmd
  <2>1. CanWrite' = CanWrite /\ Standing' \subseteq Standing
        /\ (\A b \in cmd.boxes : box[b].st # "none" => box'[b].st # "none")
        /\ (\A b \in cmd.boxes : (box[b].kind = "old" => ~box[b].req) => (box'[b].kind = "old" => ~box'[b].req))
    <3>1. cmd.boxes \subseteq Boxes
      BY DEF TypeOK, Commands
    <3>2. QED BY <1>1, <1>2, <3>1 DEF Falls
  <2>2. Course'
    BY <1>4, <2>1 DEF LInv, Course
  <2>3. QED BY <1>2, <2>2 DEF LInv
<1>5. QED BY <1>3, <1>4

-----------------------------------------------------------------------------
(* Types.                                                                    *)
BoxRecs == [st : States, kind : {"on demand", "spot", "old"}, req : BOOLEAN, games : {"saved", "new", "lost"}]
Machines == [Boxes -> BoxRecs]
Settings == [id : Boxes \cup {0}, node : Boxes \cup {0}]
Disks    == [st : {"none", "free", "in-use", "ready"}, at : Boxes \cup {0}, goes : BOOLEAN]
Calls    == [aws : 0..Troubles, cut : 0..Interrupts]

\* The parts of TypeOK that a command's step changes.
Parts ==
  /\ box' \in Machines /\ nodes' \subseteq Boxes
  /\ env' \in Settings
  /\ policy' \in {"none", "rw", "ro"} /\ guards' \subseteq Whole /\ image' \in {"none", "whole", "snapshots"}
  /\ disk' \in Disks
  /\ trouble' \in Calls
  /\ asked' \subseteq Boxes /\ cmd' \in Commands

LEMMA PartsNow ==
  ASSUME TypeOK
  PROVE  /\ box \in Machines /\ nodes \subseteq Boxes
         /\ env \in Settings
         /\ policy \in {"none", "rw", "ro"} /\ guards \subseteq Whole /\ image \in {"none", "whole", "snapshots"}
         /\ disk \in Disks
         /\ trouble \in Calls
         /\ asked \subseteq Boxes /\ cmd \in Commands
BY DEF TypeOK, AccountTypeOK, BoxRecs, Machines, Settings, Disks, Calls

LEMMA BecomesIs ==
  ASSUME TypeOK, NEW b \in Boxes, NEW s \in States, Becomes(b, s)
  PROVE  /\ box' \in Machines
         /\ \A c \in Boxes : c # b => box'[c] = box[c]
         /\ box'[b] = [box[b] EXCEPT !.st = s]
<1>1. box \in Machines /\ box[b] \in BoxRecs
  BY DEF TypeOK, AccountTypeOK, BoxRecs, Machines, Settings, Disks, Calls
<1>2. [box[b] EXCEPT !.st = s] \in BoxRecs
  BY <1>1 DEF BoxRecs
<1>3. box' = [box EXCEPT ![b] = [box[b] EXCEPT !.st = s]]
  BY DEF Becomes
<1>4. QED BY <1>1, <1>2, <1>3 DEF Machines

Fates == {"saved", "new", "lost"}

\* The games of a machine are played, or saved.
LEMMA GamesAre ==
  ASSUME TypeOK, NEW b \in Boxes, NEW u \in Fates, box' = [box EXCEPT ![b].games = u]
  PROVE  /\ box' \in Machines
         /\ \A c \in Boxes : c # b => box'[c] = box[c]
         /\ box'[b] = [box[b] EXCEPT !.games = u]
<1>1. box \in Machines /\ box[b] \in BoxRecs
  BY DEF TypeOK, AccountTypeOK, BoxRecs, Machines, Settings, Disks, Calls
<1>2. [box[b] EXCEPT !.games = u] \in BoxRecs
  BY <1>1 DEF BoxRecs, Fates
<1>3. box' = [box EXCEPT ![b] = [box[b] EXCEPT !.games = u]]
  OBVIOUS
<1>4. QED BY <1>1, <1>2, <1>3 DEF Machines

LEMMA TroubleTyped == ASSUME TypeOK, CanFail, Failed PROVE trouble' \in Calls
<1>1. trouble.aws \in 0..Troubles /\ trouble.aws > 0 /\ trouble \in Calls
  BY DEF CanFail, TypeOK, AccountTypeOK, Calls
<1>2. trouble.aws - 1 \in 0..Troubles
  BY <1>1, BoundsAssumption
<1>3. trouble' = [trouble EXCEPT !.aws = trouble.aws - 1]
  BY DEF Failed
<1>4. QED BY <1>1, <1>2, <1>3 DEF Calls

\* What came of the mirror, and what is left of the games.
LEMMA MirrorIs ==
  ASSUME TypeOK, NEW b \in Boxes, GoesDown(b)
  PROVE  \E games \in Fates :
           /\ box' = [box EXCEPT ![b].st = IF box[b].st # "shutting-down" THEN "stopped"
                                           ELSE IF box[b].kind = "old" /\ box[b].req
                                           THEN "pending" ELSE "terminated",
                                 ![b].games = games]
           /\ trouble' \in Calls
           /\ games = "lost" /\ box[b].games # "lost" => ~CanWrite \/ trouble' # trouble
<1>1. box[b].games \in Fates /\ "saved" \in Fates /\ "lost" \in Fates /\ trouble \in Calls
  BY PartsNow DEF Machines, BoxRecs, Fates
<1>2. CASE box[b].games # "new" /\ UNCHANGED trouble
           /\ box' = [box EXCEPT ![b].st = IF box[b].st # "shutting-down" THEN "stopped"
                                           ELSE IF box[b].kind = "old" /\ box[b].req
                                           THEN "pending" ELSE "terminated",
                                 ![b].games = box[b].games]
  BY <1>1, <1>2
<1>3. CASE Saves
           /\ box' = [box EXCEPT ![b].st = IF box[b].st # "shutting-down" THEN "stopped"
                                           ELSE IF box[b].kind = "old" /\ box[b].req
                                           THEN "pending" ELSE "terminated",
                                 ![b].games = "saved"]
  BY <1>1, <1>3 DEF Saves
<1>4. CASE SavesNotAll
           /\ box' = [box EXCEPT ![b].st = IF box[b].st # "shutting-down" THEN "stopped"
                                           ELSE IF box[b].kind = "old" /\ box[b].req
                                           THEN "pending" ELSE "terminated",
                                 ![b].games = "lost"]
  <2>1. CanWrite => trouble' \in Calls /\ trouble' # trouble
    <3>1. SUFFICES ASSUME CanFail, Failed PROVE trouble' \in Calls /\ trouble' # trouble
      BY <1>4 DEF SavesNotAll
    <3>2. trouble' = [trouble EXCEPT !.aws = trouble.aws - 1] /\ trouble.aws \in Nat
      BY <1>1, <3>1 DEF Failed, Calls
    <3>3. trouble'.aws = trouble.aws - 1
      BY <1>1, <3>2 DEF Calls
    <3>4. trouble.aws - 1 # trouble.aws
      BY <3>2
    <3>5. QED BY <3>1, <3>3, <3>4, TroubleTyped
  <2>2. ~CanWrite => trouble' = trouble
    BY <1>4 DEF SavesNotAll
  <2>3. QED BY <1>1, <1>4, <2>1, <2>2
<1>5. QED BY <1>2, <1>3, <1>4 DEF GoesDown, St

\* A machine goes down: it stops, or it is gone, or a request relaunches it.
LEMMA GoesDownIs ==
  ASSUME TypeOK, NEW b \in Boxes, GoesDown(b)
  PROVE  /\ box' \in Machines
         /\ \A c \in Boxes : c # b => box'[c] = box[c]
         /\ box[b].st \in {"stopping", "shutting-down"}
         /\ box'[b].kind = box[b].kind /\ box'[b].req = box[b].req
         /\ trouble' \in Calls
         /\ box'[b].games = "lost" /\ box[b].games # "lost" => ~CanWrite \/ trouble' # trouble
         /\ box'[b].st = IF box[b].st = "stopping" THEN "stopped"
                         ELSE IF box[b].kind = "old" /\ box[b].req THEN "pending" ELSE "terminated"
<1> DEFINE s == IF box[b].st # "shutting-down" THEN "stopped"
                ELSE IF box[b].kind = "old" /\ box[b].req THEN "pending" ELSE "terminated"
<1>1. box \in Machines /\ box[b] \in BoxRecs /\ s \in States
  BY DEF TypeOK, AccountTypeOK, BoxRecs, Machines, Settings, Disks, Calls, States
<1>2. PICK games \in Fates :
        /\ box' = [box EXCEPT ![b].st = s, ![b].games = games]
        /\ trouble' \in Calls
        /\ games = "lost" /\ box[b].games # "lost" => ~CanWrite \/ trouble' # trouble
  BY MirrorIs
<1>3. box[b].st \in {"stopping", "shutting-down"}
  BY DEF GoesDown, St
<1> HIDE DEF s
<1>4. box' = [box EXCEPT ![b] = [box[b] EXCEPT !.st = s, !.games = games]]
  BY <1>1, <1>2
<1>5. [box[b] EXCEPT !.st = s, !.games = games] \in BoxRecs
  BY <1>1, <1>2 DEF BoxRecs, Fates
<1>6. box' \in Machines /\ (\A c \in Boxes : c # b => box'[c] = box[c])
      /\ box'[b] = [box[b] EXCEPT !.st = s, !.games = games]
  BY <1>1, <1>4, <1>5 DEF Machines
<1>7. /\ box'[b].kind = box[b].kind /\ box'[b].req = box[b].req /\ box'[b].games = games /\ box'[b].st = s
  BY <1>1, <1>6 DEF BoxRecs
<1>8. s = IF box[b].st = "stopping" THEN "stopped"
          ELSE IF box[b].kind = "old" /\ box[b].req THEN "pending" ELSE "terminated"
  BY <1>3 DEF s
<1>9. QED BY <1>2, <1>3, <1>6, <1>7, <1>8

LEMMA GoesTyped ==
  ASSUME TypeOK
  PROVE  /\ Idle \in Commands
         /\ Ends => cmd' \in Commands
         /\ \A s \in {"looks", "ensures", "launches", "records", "starts", "finds", "builds", "mode", "pushes",
                      "plans", "cancels", "terminates", "waits", "images", "cleans", "empties", "halts", "halted",
                      "disks", "attaches", "marks", "sets up", "grows"} : Goes(s) => cmd' \in Commands
<1>1. Idle \in Commands
  BY DEF Idle, Commands
<1>2. ASSUME NEW s \in {"looks", "ensures", "launches", "records", "starts", "finds", "builds", "mode", "pushes",
                       "plans", "cancels", "terminates", "waits", "images", "cleans", "empties", "halts", "halted",
                       "disks", "attaches", "marks", "sets up", "grows"},
             Goes(s)
      PROVE  cmd' \in Commands
  BY <1>2 DEF Goes, TypeOK, Commands
<1>3. QED BY <1>1, <1>2 DEF Ends

LEMMA MineIs ==
  ASSUME LInv, cmd.step \in {"records", "starts", "finds"}
  PROVE  Mine \in Boxes /\ cmd.boxes = {Mine}
BY DEF LInv, Course, Mine

LEMMA TypeInit == Init => TypeOK
<1> SUFFICES ASSUME Init PROVE TypeOK
  OBVIOUS
<1>1. PICK what \in Before :
        /\ box = [b \in Boxes |->
                    IF what = "old box" /\ b = 1
                    THEN [st |-> "running", kind |-> "old", req |-> TRUE, games |-> "saved"]
                    ELSE [st |-> "none", kind |-> "on demand", req |-> FALSE, games |-> "saved"]]
        /\ nodes  = IF what = "old box" THEN {1} ELSE {}
        /\ env    = IF what = "old box" THEN [id |-> 1, node |-> 1] ELSE [id |-> 0, node |-> 0]
        /\ policy = IF what = "old box" THEN "rw" ELSE "none"
        /\ guards = IF what = "old box" THEN Whole ELSE {}
        /\ image  = IF what = "image" THEN "whole" ELSE "none"
        /\ disk    = NoDisk
        /\ trouble = [aws |-> Troubles, cut |-> Interrupts]
        /\ asked = {}
  BY DEF Init, AccountInit
<1>2. 1 \in Boxes
  <2>1. PICK b \in Boxes : TRUE
    BY BoxesAssumption
  <2>2. \A n \in Nat : \A c \in 1..n : 1 \in 1..n
    OBVIOUS
  <2>3. Cardinality(Boxes) \in Nat
    BY FS_CardinalityType, BoxesAssumption
  <2>4. QED BY <2>1, <2>2, <2>3, BoxesAssumption
<1>3. /\ box \in Machines /\ nodes \subseteq Boxes /\ env \in Settings
      /\ policy \in {"none", "rw", "ro"} /\ guards \subseteq Whole /\ image \in {"none", "whole", "snapshots"}
  BY <1>1, <1>2 DEF BoxRecs, States, Whole, Machines, Settings
<1>4. disk \in Disks
  BY <1>1 DEF NoDisk, Disks
<1>5. trouble \in Calls
  <2>1. Troubles \in 0..Troubles /\ Interrupts \in 0..Interrupts
    BY BoundsAssumption
  <2>2. QED BY <1>1, <2>1 DEF Calls
<1>6. cmd \in Commands /\ given \in 0..Given
  <2>1. cmd \in Commands
    BY DEF Init, Idle, Commands
  <2>2. given = 0 /\ Given \in Nat
    BY CommandsAssumption DEF Init
  <2>3. QED BY <2>1, <2>2
<1>7. session \in [step : {"closed", "starts", "connects", "plays"}, box : Boxes \cup {0}]
  BY DEF Init, NoSession
<1>8. QED BY <1>1, <1>3, <1>4, <1>5, <1>6, <1>7 DEF TypeOK, AccountTypeOK, BoxRecs, Machines, Settings, Disks, Calls

\* What AWS and the machines do by themselves.
LEMMA ThemselvesType ==
  ASSUME TypeOK, OfThemselves, UNCHANGED <<cmd, given, session>>
  PROVE  TypeOK'
<1> DEFINE T == /\ box' \in Machines /\ nodes' \subseteq Boxes
                /\ disk' \in Disks
                /\ trouble' \in Calls /\ UNCHANGED <<env, policy, guards, image, asked>>
<1>0. /\ box \in Machines /\ nodes \subseteq Boxes
      /\ disk \in Disks /\ trouble \in Calls
  BY DEF TypeOK, AccountTypeOK, BoxRecs, Machines, Settings, Disks, Calls
<1>1. ASSUME NEW b \in Boxes, Boots(b) PROVE T
  <2>1. box' \in Machines
    BY <1>1, BecomesIs DEF Boots, States
  <2>2. QED BY <1>0, <1>1, <2>1 DEF Boots
<1>2. ASSUME NEW b \in Boxes, Joins(b) PROVE T
  BY <1>0, <1>2 DEF Joins
<1>3. ASSUME NEW b \in Boxes, SwitchesOff(b) PROVE T
  <2>1. PICK s \in {"shutting-down", "stopping"} : Becomes(b, s)
    BY <1>3 DEF SwitchesOff
  <2>2. box' \in Machines
    BY <2>1, BecomesIs DEF States
  <2>3. QED BY <1>0, <1>3, <2>2 DEF SwitchesOff
<1>4. ASSUME NEW b \in Boxes, Plays(b) PROVE T
  BY <1>0, <1>4, GamesAre DEF Plays, Fates
<1>5. ASSUME NEW b \in Boxes, GoesDown(b) PROVE T
  <2>1. box' \in Machines /\ trouble' \in Calls
    BY <1>5, GoesDownIs
  <2>2. disk' \in Disks
    BY <1>0, <1>5 DEF GoesDown, NoDisk, Disks
  <2>3. QED BY <1>0, <1>5, <2>1, <2>2 DEF GoesDown
<1>6. T
  BY <1>1, <1>2, <1>3, <1>4, <1>5 DEF OfThemselves
<1>7. QED BY <1>6 DEF TypeOK, AccountTypeOK, BoxRecs, Machines, Settings, Disks, Calls

LEMMA SessionType == ASSUME TypeOK, SessionSteps PROVE TypeOK'
<1> DEFINE S == [step : {"closed", "starts", "connects", "plays"}, box : Boxes \cup {0}]
<1>0. session \in S /\ env.id \in Boxes \cup {0} /\ box \in Machines
  BY DEF TypeOK, AccountTypeOK, BoxRecs, Machines, Settings, Disks, Calls
<1>1. CASE UNCHANGED sessions /\ session' \in S
  BY <1>1 DEF sessions, account, TypeOK, AccountTypeOK
<1>2. CASE OpenBegins
  BY <1>0, <1>1, <1>2 DEF OpenBegins
<1>3. CASE OpenStarts
  <2>1. box' \in Machines
    BY <1>3, BecomesIs DEF OpenStarts, St, States
  <2>2. session' \in S
    BY <1>0, <1>3 DEF OpenStarts
  <2>3. QED BY <1>3, <2>1, <2>2 DEF OpenStarts, TypeOK, AccountTypeOK, BoxRecs, Machines, Settings, Disks, Calls
<1>4. CASE OpenPlays
  BY <1>0, <1>1, <1>4 DEF OpenPlays
<1>5. CASE OpenEnds
  BY <1>0, <1>1, <1>5 DEF OpenEnds, NoSession
<1>6. QED BY <1>2, <1>3, <1>4, <1>5 DEF SessionSteps

LEMMA PartsType ==
  ASSUME TypeOK, Parts, UNCHANGED <<given, session>>
  PROVE  TypeOK'
BY DEF Parts, TypeOK, AccountTypeOK, BoxRecs, Machines, Settings, Disks, Calls

LEMMA ExistingIn == Existing \subseteq Boxes /\ \A s : Was(s) \subseteq Boxes
BY DEF Existing, Was

LEMMA InitType ==
  ASSUME TypeOK, LInv, InitSteps
  PROVE  Parts /\ given' = given
<1> USE PartsNow, TroubleTyped, GoesTyped, ExistingIn DEF At
<1>1. CASE InitLooks
  <2>1. PICK armed \in SUBSET {"watchdog", "budget"}, answered \in BOOLEAN :
          /\ guards' = guards \cup armed
          /\ cmd' = [cmd EXCEPT !.step = "ensures", !.seen = nodes, !.reused = answered /\ Existing # {}]
          /\ IF armed = {"watchdog", "budget"} /\ answered THEN UNCHANGED trouble ELSE CanFail /\ Failed
    BY <1>1 DEF InitLooks
  <2>2. cmd' \in Commands
    BY <2>1 DEF Commands
  <2>3. guards' \subseteq Whole /\ trouble' \in Calls
    BY <2>1 DEF Whole
  <2>4. QED BY <1>1, <2>2, <2>3 DEF InitLooks, Parts
<1>2. CASE InitEnsures
  BY <1>2 DEF InitEnsures, Parts, Whole
<1>3. CASE InitReuses
  <2>0. PICK b \in Existing : cmd' = [cmd EXCEPT !.step = "records", !.boxes = {b}]
    BY <1>3 DEF InitReuses
  <2>1. cmd' \in Commands
    BY <2>0 DEF Commands
  <2>2. QED BY <1>3, <2>1 DEF InitReuses, Parts, account
<1>4. CASE InitLaunches
  <2>1. PICK b \in Boxes, k \in Kinds :
          /\ box' = [box EXCEPT ![b] = [st |-> "pending", kind |-> k, req |-> k = "spot", games |-> "saved"]]
          /\ cmd' = [cmd EXCEPT !.step = "records", !.boxes = {b}]
    BY <1>4 DEF InitLaunches
  <2>2. [st |-> "pending", kind |-> k, req |-> k = "spot", games |-> "saved"] \in BoxRecs
    BY <2>1, KindsAssumption DEF BoxRecs, States
  <2>3. box' \in Machines /\ cmd' \in Commands
    BY <2>1, <2>2 DEF Commands, Machines
  <2>4. QED BY <1>4, <2>3 DEF InitLaunches, Parts
<1>5. CASE InitHasNoAllowance \/ InitFindsNone \/ InitBuilds
  BY <1>5 DEF InitHasNoAllowance, InitFindsNone, InitBuilds, Parts, account
<1>6. CASE InitRecords
  BY <1>6, MineIs DEF InitRecords, Parts, Settings
<1>7. CASE InitStarts
  <2>1. box' \in Machines
    BY <1>7, MineIs, BecomesIs DEF InitStarts, States
  <2>2. QED BY <1>7, <2>1 DEF InitStarts, Parts
<1>8. CASE InitFinds
  <2>1. Found \subseteq Boxes
    BY DEF Found, Commands, Was
  <2>2. QED BY <1>8, <2>1 DEF InitFinds, Parts, Settings
<1>9. CASE InitFails
  <2>1. guards' \subseteq Whole
    BY <1>9 DEF InitFails, Whole
  <2>2. env' \in Settings
    BY <1>9, MineIs DEF InitFails, Settings
  <2>3. QED BY <1>9, <2>1, <2>2 DEF InitFails, Parts
<1>10. QED
  BY <1>1, <1>2, <1>3, <1>4, <1>5, <1>6, <1>7, <1>8, <1>9 DEF InitSteps

LEMMA PushesType ==
  ASSUME TypeOK, NEW b, NEW next \in {"plans", "halted"}, Pushes(b, next)
  PROVE  /\ box' \in Machines /\ cmd' \in Commands
         /\ trouble' \in Calls
<1>1. CASE Reachable(b) /\ Goes(next) /\ Saves
           /\ box' = [box EXCEPT ![b].games = IF @ = "new" THEN "saved" ELSE @]
  <2>1. b \in Boxes
    BY <1>1 DEF Reachable, St
  <2>2. PICK u \in Fates : box' = [box EXCEPT ![b].games = u]
    <3>1. box[b].games \in Fates /\ "saved" \in Fates
      BY <2>1, PartsNow DEF Machines, BoxRecs, Fates
    <3>2. QED BY <1>1, <3>1
  <2>3. box' \in Machines
    BY <2>1, <2>2, GamesAre
  <2>4. QED BY <1>1, <2>3, PartsNow, GoesTyped DEF Saves
<1>2. CASE SavesNotAll /\ Goes(next) /\ UNCHANGED box
  BY <1>2, PartsNow, TroubleTyped, GoesTyped DEF SavesNotAll
<1>3. CASE /\ IF Reachable(b) THEN CanFail /\ Failed ELSE UNCHANGED trouble
           /\ IF cmd.mode = "force" THEN Goes(next) ELSE Ends
           /\ UNCHANGED box
  BY <1>3, PartsNow, TroubleTyped, GoesTyped
<1>4. QED BY <1>1, <1>2, <1>3 DEF Pushes

\* A request cancelled, a failure remembered.
LEMMA CutReq ==
  \A r \in BoxRecs : \A b, X : [r EXCEPT !.req = @ /\ b \notin X] \in BoxRecs
BY DEF BoxRecs
LEMMA Cancelled ==
  ASSUME NEW c \in Commands, NEW kept \in SUBSET c.boxes
  PROVE  [c EXCEPT !.step = "terminates", !.boxes = @ \ kept, !.bad = kept # {}, !.left = kept # {}] \in Commands
BY DEF Commands
LEMMA Worse ==
  \A c \in Commands : \A w : [c EXCEPT !.step = "cleans", !.bad = @ \/ w # "nothing"] \in Commands
BY ZenonT(30) DEF Commands

LEMMA DownType ==
  ASSUME TypeOK, LInv, TakeDownSteps
  PROVE  Parts /\ given' = given
<1> USE PartsNow, TroubleTyped, GoesTyped, ExistingIn DEF At
<1>1. CASE DestroyLocks
  BY <1>1 DEF DestroyLocks, Parts
<1>2. CASE DestroyLooks
  BY <1>2 DEF DestroyLooks, Parts
<1>3. CASE DestroyPushes
  <2>1. Pushes(env.id, "plans")
    BY <1>3 DEF DestroyPushes
  <2>2. QED BY <1>3, <2>1, PushesType DEF DestroyPushes, Parts
<1>4. CASE DestroyPlans
  <2>1. PICK T \in SUBSET {"image", "disk"} : cmd' = [cmd EXCEPT !.step = "cancels", !.boxes = Existing, !.things = T]
    BY <1>4 DEF DestroyPlans
  <2>2. cmd' \in Commands
    BY <2>1 DEF Commands
  <2>3. QED BY <1>4, <2>2 DEF DestroyPlans, Parts, account
<1>5. CASE DestroyCancels
  <2>1. PICK kept \in SUBSET cmd.boxes :
          /\ IF kept = {} THEN UNCHANGED trouble ELSE CanFail /\ Failed
          /\ box' = [b \in Boxes |-> [box[b] EXCEPT !.req = @ /\ b \notin cmd.boxes \ kept]]
          /\ cmd' = [cmd EXCEPT !.step = "terminates", !.boxes = @ \ kept, !.bad = kept # {}, !.left = kept # {}]
    BY <1>5 DEF DestroyCancels
  <2>2. cmd' \in Commands
    BY <2>1, Cancelled
  <2>3. box' \in Machines
    <3>1. ASSUME NEW b \in Boxes PROVE [box[b] EXCEPT !.req = @ /\ b \notin cmd.boxes \ kept] \in BoxRecs
      <4>1. box[b] \in BoxRecs
        BY DEF Machines
      <4>2. QED BY ONLY <4>1, CutReq
    <3>2. QED BY <2>1, <3>1 DEF Machines
  <2>4. QED BY <1>5, <2>1, <2>2, <2>3 DEF DestroyCancels, Parts
<1>6. CASE DestroyTerminates
  <2>1. box' \in Machines
    <3>1. ASSUME NEW b \in Boxes PROVE [box[b] EXCEPT !.st = "shutting-down"] \in BoxRecs /\ box[b] \in BoxRecs
      BY DEF BoxRecs, States, Machines
    <3>2. QED BY <1>6, <3>1 DEF DestroyTerminates, Machines
  <2>2. cmd' \in Commands
    <3>1. Goes("waits") \/ cmd' = [cmd EXCEPT !.step = "cleans", !.bad = TRUE, !.left = TRUE]
      BY <1>6 DEF DestroyTerminates
    <3>2. [cmd EXCEPT !.step = "cleans", !.bad = TRUE, !.left = TRUE] \in Commands
      BY ZenonT(30) DEF Commands
    <3>3. QED BY <3>1, <3>2
  <2>3. trouble' \in Calls
    BY <1>6 DEF DestroyTerminates
  <2>4. QED BY <1>6, <2>1, <2>2, <2>3 DEF DestroyTerminates, Parts
<1>7. CASE DestroyWaits
  <2>1. cmd' \in Commands
    <3>1. Goes("images") \/ cmd' = [cmd EXCEPT !.step = "images", !.bad = TRUE, !.left = TRUE]
      BY <1>7 DEF DestroyWaits
    <3>2. [cmd EXCEPT !.step = "images", !.bad = TRUE, !.left = TRUE] \in Commands
      BY ZenonT(30) DEF Commands
    <3>3. QED BY <3>1, <3>2
  <2>2. trouble' \in Calls
    BY <1>7 DEF DestroyWaits
  <2>3. QED BY <1>7, <2>1, <2>2 DEF DestroyWaits, Parts
<1>8. CASE DestroyClears
  <2>1. cmd' \in Commands
    <3>1. PICK w : cmd' = [cmd EXCEPT !.step = "cleans", !.bad = @ \/ w # "nothing"]
      BY <1>8 DEF DestroyClears
    <3>2. cmd \in Commands
      OBVIOUS
    <3>3. QED BY ONLY <3>1, <3>2, Worse
  <2>2. trouble' \in Calls
    BY <1>8 DEF DestroyClears
  <2>3. /\ image' \in {"none", "whole", "snapshots"}
        /\ disk' \in Disks
    <3>1. image' \in {image, "none", "snapshots"} /\ disk' \in {disk, NoDisk}
      BY <1>8 DEF DestroyClears
    <3>2. NoDisk \in Disks
      BY DEF NoDisk, Disks
    <3>3. QED BY <3>1, <3>2
  <2>4. QED BY <1>8, <2>1, <2>2, <2>3 DEF DestroyClears, Parts
<1>9. CASE DestroyForgets
  <2>1. /\ env' \in Settings /\ cmd' \in Commands
        /\ nodes' \subseteq Boxes /\ guards' \subseteq Whole
    BY <1>9 DEF DestroyForgets, Settings
  <2>2. /\ trouble' \in Calls
        /\ policy' \in {"none", "rw", "ro"} /\ asked' \subseteq Boxes
    BY <1>9 DEF DestroyForgets
  <2>3. QED BY <1>9, <2>1, <2>2 DEF DestroyForgets, Parts
<1>10. CASE DestroyEmpties
  <2>1. /\ trouble' \in Calls /\ cmd' \in Commands
        /\ guards' \subseteq Whole /\ policy' \in {"none", "rw", "ro"} /\ image' \in {"none", "whole", "snapshots"}
        /\ disk' \in {disk, NoDisk}
    BY <1>10 DEF DestroyEmpties
  <2>2. NoDisk \in Disks
    BY DEF NoDisk, Disks
  <2>3. QED BY <1>10, <2>1, <2>2 DEF DestroyEmpties, Parts
<1>11. CASE DestroyFails
  BY <1>11 DEF DestroyFails, Parts
<1>12. CASE StopLooks
  <2>1. \/ cmd' = [cmd EXCEPT !.step = "mode", !.mode = "plain"] /\ UNCHANGED <<box, trouble>>
        \/ Ends /\ UNCHANGED <<box, trouble>>
        \/ Pushes(env.id, "halted")
    BY <1>12 DEF StopLooks
  <2>2. cmd' = [cmd EXCEPT !.step = "mode", !.mode = "plain"] => cmd' \in Commands
    BY DEF Commands
  <2>3. /\ box' \in Machines /\ cmd' \in Commands
        /\ trouble' \in Calls
    BY <2>1, <2>2, PushesType
  <2>4. QED BY <1>12, <2>3 DEF StopLooks, Parts
<1>13. CASE StopHalts
  <2>1. box' \in Machines
    BY <1>13, BecomesIs DEF StopHalts, St, States
  <2>2. QED BY <1>13, <2>1 DEF StopHalts, Parts
<1>14. QED
  BY <1>1, <1>2, <1>3, <1>4, <1>5, <1>6, <1>7, <1>8, <1>9, <1>10, <1>11, <1>12, <1>13 DEF TakeDownSteps

LEMMA DiskType ==
  ASSUME TypeOK, DiskSteps
  PROVE  Parts /\ given' = given
<1> USE PartsNow, TroubleTyped, GoesTyped DEF At
<1> DEFINE D == Disks
<1>0. NoDisk \in D
  BY DEF NoDisk, Disks
<1>1. CASE DiskLooks
  <2>1. disk' \in D /\ cmd' \in Commands
    <3>1. [st |-> "free", at |-> 0, goes |-> FALSE] \in D
      BY DEF Disks
    <3>2. QED BY <1>1, <3>1 DEF DiskLooks
  <2>2. QED BY <1>1, <2>1 DEF DiskLooks, Parts
<1>2. CASE DiskAttaches
  <2>1. disk' \in D /\ cmd' \in Commands
    <3>1. CASE St(env.id) \in {"running", "stopped"}
      <4>1. env.id \in Boxes
        BY <3>1 DEF St
      <4>2. disk' = [disk EXCEPT !.st = "in-use", !.at = env.id] /\ Goes("marks")
        BY <1>2, <3>1 DEF DiskAttaches
      <4>3. disk' \in D
        BY <4>1, <4>2 DEF Disks
      <4>4. QED BY <4>2, <4>3
    <3>2. CASE St(env.id) \notin {"running", "stopped"}
      BY <1>0, <1>2, <3>2 DEF DiskAttaches
    <3>3. QED BY <3>1, <3>2
  <2>2. QED BY <1>2, <2>1 DEF DiskAttaches, Parts
<1>3. CASE DiskMarks
  <2>1. disk' \in D /\ trouble' \in Calls /\ cmd' \in Commands
    BY <1>3 DEF DiskMarks, Disks
  <2>2. QED BY <1>3, <2>1 DEF DiskMarks, Parts
<1>4. CASE DiskSetsUp
  <2>1. disk' \in D /\ cmd' \in Commands
    BY <1>4 DEF DiskSetsUp, Disks
  <2>2. QED BY <1>4, <2>1 DEF DiskSetsUp, Parts
<1>5. CASE DiskGrows
  BY <1>5 DEF DiskGrows, Parts, account
<1>6. CASE DiskFails
  <2>1. disk' \in D
    BY <1>0, <1>6 DEF DiskFails
  <2>2. QED BY <1>6, <2>1 DEF DiskFails, Parts
<1>7. QED BY <1>1, <1>2, <1>3, <1>4, <1>5, <1>6 DEF DiskSteps

-----------------------------------------------------------------------------
(* The invariant.                                                            *)
LEMMA LifeInit == Init => LInv
<1> SUFFICES ASSUME Init PROVE LInv
  OBVIOUS
<1>1. PICK what \in Before :
        /\ box = [b \in Boxes |->
                    IF what = "old box" /\ b = 1
                    THEN [st |-> "running", kind |-> "old", req |-> TRUE, games |-> "saved"]
                    ELSE [st |-> "none", kind |-> "on demand", req |-> FALSE, games |-> "saved"]]
        /\ policy = IF what = "old box" THEN "rw" ELSE "none"
        /\ guards = IF what = "old box" THEN Whole ELSE {}
  BY DEF Init, AccountInit
<1>2. cmd.step = "idle" /\ ~cmd.left
  BY DEF Init, Idle
<1>3. /\ \A b \in Boxes : box[b].st = IF what = "old box" /\ b = 1 THEN "running" ELSE "none"
      /\ what = "old box" => CanWrite
  BY <1>1 DEF CanWrite, Whole
<1>4. One
  BY <1>3, StandingIs DEF One, Bills
<1>5. NoReturn /\ Written /\ Course
  BY <1>2, <1>3 DEF NoReturn, Written, Course
<1>6. QED BY <1>4, <1>5 DEF LInv

\* One machine moves between states in which it bills, or goes down.
LEMMA MoveFalls ==
  ASSUME TypeOK, LInv, NEW b \in Boxes, NEW s \in States, Becomes(b, s),
         box[b].st \in Bills, s # "none", s = "shutting-down" => box[b].kind # "old"
  PROVE  Falls
<1>1. /\ \A c \in Boxes : c # b => box'[c] = box[c]
      /\ box'[b] = [box[b] EXCEPT !.st = s] /\ box[b] \in BoxRecs
  BY ZenonT(30), BecomesIs DEF TypeOK, AccountTypeOK, BoxRecs, Machines, Settings, Disks, Calls
<1>2. box'[b].st = s /\ box'[b].kind = box[b].kind /\ box'[b].req = box[b].req
  BY <1>1 DEF BoxRecs
<1>3. ASSUME NEW c \in Boxes, c # b PROVE box[c].st = "shutting-down" /\ box[c].kind = "old" => ~box[c].req
  BY DEF LInv, NoReturn
<1>4. QED BY <1>1, <1>2, <1>3 DEF Falls, Bills

LEMMA OnlyGames ==
  \A r \in BoxRecs : \A u : LET q == [r EXCEPT !.games = u]
                            IN  q.st = r.st /\ q.kind = r.kind /\ q.req = r.req
BY DEF BoxRecs

\* The games of one machine are played, or saved.
LEMMA GamesFall ==
  ASSUME TypeOK, LInv, NEW b \in Boxes, NEW u \in Fates, box' = [box EXCEPT ![b].games = u]
  PROVE  Falls
<1>1. /\ \A c \in Boxes : c # b => box'[c] = box[c]
      /\ box'[b] = [box[b] EXCEPT !.games = u] /\ box[b] \in BoxRecs
  BY GamesAre, PartsNow DEF Machines
<1>2. box'[b].st = box[b].st /\ box'[b].kind = box[b].kind /\ box'[b].req = box[b].req
  BY ONLY <1>1, OnlyGames
<1>3. QED BY <1>1, <1>2 DEF Falls, LInv, NoReturn

LEMMA DownFalls ==
  ASSUME TypeOK, LInv, NEW b \in Boxes, GoesDown(b)
  PROVE  Falls
<1>1. /\ \A c \in Boxes : c # b => box'[c] = box[c]
      /\ box[b].st \in {"stopping", "shutting-down"}
      /\ box'[b].kind = box[b].kind /\ box'[b].req = box[b].req
      /\ box'[b].st = IF box[b].st = "stopping" THEN "stopped"
                      ELSE IF box[b].kind = "old" /\ box[b].req THEN "pending" ELSE "terminated"
  BY GoesDownIs
<1>2. box'[b].st \in {"stopped", "terminated"} /\ (box'[b].st = "stopped" => box[b].st = "stopping")
  BY <1>1 DEF LInv, NoReturn
<1>3. QED BY <1>1, <1>2 DEF Falls, Bills, LInv, NoReturn

LEMMA ThemselvesFalls == ASSUME TypeOK, LInv, OfThemselves PROVE Falls
<1>1. ASSUME NEW b \in Boxes, Boots(b) PROVE Falls
  <2>1. box[b].st \in Bills /\ Becomes(b, "running") /\ "running" \in States
    BY <1>1 DEF Boots, St, States, Bills
  <2>2. QED BY <2>1, MoveFalls
<1>2. ASSUME NEW b \in Boxes, Joins(b) PROVE Falls
  BY <1>2, StaysFalls DEF Joins
<1>3. ASSUME NEW b \in Boxes, Plays(b) PROVE Falls
  BY <1>3, GamesFall DEF Plays, Fates
<1>4. ASSUME NEW b \in Boxes, SwitchesOff(b) PROVE Falls
  <2>1. box[b].st = "running" /\ Becomes(b, IF box[b].kind = "spot" THEN "shutting-down" ELSE "stopping")
    BY <1>4 DEF SwitchesOff, St
  <2>2. CASE box[b].kind = "spot"
    BY <2>1, <2>2, MoveFalls DEF States, Bills
  <2>3. CASE box[b].kind # "spot"
    BY <2>1, <2>3, MoveFalls DEF States, Bills
  <2>4. QED BY <2>2, <2>3
<1>5. ASSUME NEW b \in Boxes, GoesDown(b) PROVE Falls
  BY <1>5, DownFalls
<1>6. QED BY <1>1, <1>2, <1>3, <1>4, <1>5 DEF OfThemselves

LEMMA SessionFalls == ASSUME TypeOK, LInv, SessionSteps PROVE Falls
<1>1. CASE OpenStarts
  BY <1>1, MoveFalls DEF OpenStarts, St, States, Bills
<1>2. CASE OpenBegins \/ OpenPlays \/ OpenEnds
  BY <1>2, StaysFalls DEF OpenBegins, OpenPlays, OpenEnds, sessions, account
<1>3. QED BY <1>1, <1>2 DEF SessionSteps

\* A step of a command that keeps the machines, or only lets them go down, and
\* takes nothing away from the archive.
LEMMA StepKeeps ==
  ASSUME TypeOK, LInv, Falls, CanWrite => CanWrite', asked \subseteq asked',
         Standing' \subseteq Standing => Course'
  PROVE  LInv'
BY FallsKeeps DEF LInv

\* A command's step that no promise is about.
Plain == {"idle", "looks", "ensures", "builds", "mode", "pushes", "plans", "halts", "halted",
          "disks", "attaches", "marks", "sets up", "grows"}
LEMMA PlainKeeps ==
  ASSUME TypeOK, LInv, Falls, CanWrite => CanWrite', asked \subseteq asked',
         cmd'.step \in Plain, cmd'.left => cmd'.bad
  PROVE  LInv'
<1>1. Course'
  BY DEF Course, Plain
<1>2. QED BY <1>1, StepKeeps

LEMMA CmdSteps ==
  ASSUME TypeOK, LInv
  PROVE  /\ \A s \in {"looks", "ensures", "launches", "records", "starts", "finds", "builds", "mode", "pushes",
                      "plans", "cancels", "terminates", "waits", "images", "cleans", "empties", "halts", "halted",
                      "disks", "attaches", "marks", "sets up", "grows"} :
              Goes(s) => /\ cmd'.step = s /\ cmd'.boxes = cmd.boxes /\ cmd'.left = cmd.left
                         /\ cmd'.bad = cmd.bad /\ (cmd'.left => cmd'.bad)
         /\ Ends => cmd'.step = "idle" /\ ~cmd'.left
<1>1. cmd \in Commands /\ (cmd.left => cmd.bad)
  BY DEF TypeOK, LInv, Course
<1>2. ASSUME NEW s, Goes(s)
      PROVE  cmd'.step = s /\ cmd'.boxes = cmd.boxes /\ cmd'.left = cmd.left /\ cmd'.bad = cmd.bad
  BY <1>1, <1>2 DEF Goes, Commands
<1>3. Ends => cmd'.step = "idle" /\ ~cmd'.left
  BY DEF Ends, Idle
<1>4. QED BY <1>1, <1>2, <1>3

LEMMA InitKeeps == ASSUME TypeOK, LInv, InitSteps PROVE LInv'
<1> USE CmdSteps DEF At
<1>1. CASE InitLooks
  <2>1. cmd'.step = "ensures" /\ cmd'.left = cmd.left /\ cmd'.bad = cmd.bad
    BY <1>1 DEF InitLooks, TypeOK, Commands
  <2>2. CanWrite => CanWrite'
    BY <1>1 DEF InitLooks, CanWrite
  <2>3. Falls
    BY <1>1, StaysFalls DEF InitLooks
  <2>4. QED BY <1>1, <2>1, <2>2, <2>3, PlainKeeps DEF InitLooks, Plain, LInv, Course
<1>2. CASE InitEnsures
  <2>1. CanWrite' /\ UNCHANGED box /\ Goes("launches")
    BY <1>2 DEF InitEnsures, CanWrite
  <2>2. cmd'.step = "launches" /\ (cmd'.left => cmd'.bad)
    BY <2>1
  <2>3. Course' /\ Written' /\ NoReturn' /\ One'
    BY <2>1, <2>2, StandingIs DEF LInv, Course, Written, NoReturn, One
  <2>4. QED BY <2>3 DEF LInv
<1>3. CASE InitReuses
  <2>1. PICK b \in Existing : cmd' = [cmd EXCEPT !.step = "records", !.boxes = {b}]
    BY <1>3 DEF InitReuses
  <2>2. cmd'.step = "records" /\ cmd'.boxes = {b} /\ cmd'.left = cmd.left /\ cmd'.bad = cmd.bad
    BY <2>1 DEF TypeOK, Commands
  <2>3. b \in Boxes /\ b \in Standing /\ Standing = {b}
    BY StandingIs DEF LInv, One
  <2>4. UNCHANGED <<box, policy, guards, asked>>
    BY <1>3 DEF InitReuses, account
  <2>5. CanWrite' = CanWrite /\ Falls
    BY <2>4, StaysFalls DEF CanWrite
  <2>6. Standing' \subseteq Standing => Course'
    BY <2>2, <2>3 DEF LInv, Course
  <2>7. QED BY <2>4, <2>5, <2>6, StepKeeps
<1>4. CASE InitLaunches
  <2>1. PICK b \in Boxes, k \in Kinds :
          /\ box' = [box EXCEPT ![b] = [st |-> "pending", kind |-> k, req |-> k = "spot", games |-> "saved"]]
          /\ cmd' = [cmd EXCEPT !.step = "records", !.boxes = {b}]
    BY <1>4 DEF InitLaunches
  <2>2. cmd'.step = "records" /\ cmd'.boxes = {b} /\ cmd'.left = cmd.left /\ cmd'.bad = cmd.bad
    BY <2>1 DEF TypeOK, Commands
  <2>3. (\A c \in Boxes : c # b => box'[c] = box[c]) /\ box'[b].st = "pending"
    BY <2>1, PartsNow DEF Machines
  <2>4. Existing = {} /\ CanWrite /\ CanWrite' /\ UNCHANGED asked
    BY <1>4 DEF InitLaunches, LInv, Course, CanWrite
  <2>5. Standing' \subseteq {b}
    BY <2>3, <2>4, StandingIs
  <2>6. One' /\ NoReturn' /\ Written'
    BY <2>3, <2>4, <2>5 DEF One, NoReturn, Written, LInv
  <2>7. Course'
    BY <2>2, <2>5 DEF Course, LInv
  <2>8. QED BY <2>6, <2>7 DEF LInv
<1>5. CASE InitHasNoAllowance \/ InitFindsNone \/ InitBuilds
  <2>1. Ends /\ UNCHANGED <<box, policy, guards, asked>>
    BY <1>5 DEF InitHasNoAllowance, InitFindsNone, InitBuilds, account
  <2>2. QED BY <2>1, StaysFalls, Beside DEF Ends
<1>6. CASE InitRecords
  <2>1. UNCHANGED <<box, policy, guards, asked>> /\ cmd.step = "records"
    BY <1>6 DEF InitRecords
  <2>2. CASE Ends
    BY <2>1, <2>2, StaysFalls, Beside DEF Ends
  <2>3. CASE Goes("starts")
    <3>1. cmd'.step = "starts" /\ cmd'.boxes = cmd.boxes /\ (cmd'.left => cmd'.bad)
      BY <2>3
    <3>2. Course' /\ (CanWrite => CanWrite')
      BY <2>1, <3>1 DEF LInv, Course, CanWrite
    <3>3. QED BY <2>1, <3>2, StaysFalls, StepKeeps
  <2>4. QED BY <1>6, <2>2, <2>3 DEF InitRecords
<1>7. CASE InitStarts
  <2>1. UNCHANGED <<policy, guards, asked>> /\ cmd.step = "starts" /\ Goes("finds")
    BY <1>7 DEF InitStarts
  <2>2. cmd'.step = "finds" /\ cmd'.boxes = cmd.boxes /\ (cmd'.left => cmd'.bad)
    BY <2>1
  <2>3. Falls
    <3>1. Mine \in Boxes
      BY <2>1, MineIs
    <3>2. CASE St(Mine) = "stopped"
      <4>1. box[Mine].st \in Bills /\ Becomes(Mine, "pending") /\ "pending" \in States
        BY <1>7, <3>1, <3>2 DEF InitStarts, St, Bills, States
      <4>2. QED BY <3>1, <4>1, MoveFalls
    <3>3. CASE St(Mine) # "stopped"
      BY <1>7, <3>3, StaysFalls DEF InitStarts
    <3>4. QED BY <3>2, <3>3
  <2>4. Course' /\ (CanWrite => CanWrite')
    BY <2>1, <2>2 DEF LInv, Course, CanWrite
  <2>5. QED BY <2>1, <2>3, <2>4, StepKeeps
<1>8. CASE InitFinds
  <2>1. Goes("builds") /\ UNCHANGED <<box, policy, guards, asked>>
    BY <1>8 DEF InitFinds
  <2>2. cmd'.step = "builds" /\ (cmd'.left => cmd'.bad)
    BY <2>1
  <2>3. QED BY <2>1, <2>2, StaysFalls, PlainKeeps DEF CanWrite, Plain
<1>9. CASE InitFails
  <2>1. Ends /\ UNCHANGED <<box, policy, asked>> /\ guards \subseteq guards'
    BY <1>9 DEF InitFails
  <2>2. CanWrite => CanWrite'
    BY <2>1 DEF CanWrite
  <2>3. cmd'.step = "idle" /\ ~cmd'.left
    BY <2>1
  <2>4. QED BY <2>1, <2>2, <2>3, StaysFalls, PlainKeeps DEF Plain
<1>10. QED
  BY <1>1, <1>2, <1>3, <1>4, <1>5, <1>6, <1>7, <1>8, <1>9 DEF InitSteps

\* A push saves the games of the machine, or goes on without, or gives up.
LEMMA PushesKeeps ==
  ASSUME TypeOK, LInv, NEW b, NEW next \in {"plans", "halted"}, Pushes(b, next),
         UNCHANGED <<policy, guards, asked>>
  PROVE  LInv'
<1> USE CmdSteps
<1>1. Goes(next) \/ Ends
  BY DEF Pushes
<1>2. cmd'.step \in Plain /\ (cmd'.left => cmd'.bad)
  BY <1>1 DEF Plain
<1>3. Falls
  <2>1. CASE UNCHANGED box
    BY <2>1, StaysFalls
  <2>2. CASE Reachable(b) /\ box' = [box EXCEPT ![b].games = IF @ = "new" THEN "saved" ELSE @]
    <3>1. b \in Boxes
      BY <2>2 DEF Reachable, St
    <3>2. box[b].games \in Fates /\ "saved" \in Fates
      BY <3>1, PartsNow DEF Machines, BoxRecs, Fates
    <3>3. \E u \in Fates : box' = [box EXCEPT ![b].games = u]
      BY <2>2, <3>2
    <3>4. QED BY <3>1, <3>3, GamesFall
  <2>3. QED BY <2>1, <2>2 DEF Pushes
<1>4. QED BY <1>2, <1>3, PlainKeeps DEF CanWrite

LEMMA DownKeeps == ASSUME TypeOK, LInv, TakeDownSteps PROVE LInv'
<1> USE CmdSteps DEF At
<1>1. CASE DestroyLocks
  <2>1. Goes("plans") /\ UNCHANGED box /\ asked' = asked \cup (Boxes \ Was({"none", "terminated"}))
    BY <1>1 DEF DestroyLocks
  <2>2. cmd'.step = "plans" /\ (cmd'.left => cmd'.bad)
    BY <2>1
  <2>3. Written'
    BY <2>1 DEF Written, Was, St
  <2>4. One' /\ NoReturn' /\ Course'
    BY <2>1, <2>2, StandingIs DEF One, NoReturn, Course, LInv
  <2>5. QED BY <2>3, <2>4 DEF LInv
<1>2. CASE DestroyLooks
  <2>1. (Goes("pushes") \/ Goes("plans")) /\ UNCHANGED <<box, policy, guards, asked>>
    BY <1>2 DEF DestroyLooks
  <2>2. cmd'.step \in Plain /\ (cmd'.left => cmd'.bad)
    BY <2>1 DEF Plain
  <2>3. QED BY <2>1, <2>2, StaysFalls, PlainKeeps DEF CanWrite
<1>3. CASE DestroyPushes
  BY <1>3, PushesKeeps DEF DestroyPushes
<1>4. CASE DestroyPlans
  <2>1. PICK T : cmd' = [cmd EXCEPT !.step = "cancels", !.boxes = Existing, !.things = T]
    BY <1>4 DEF DestroyPlans
  <2>2. cmd'.step = "cancels" /\ cmd'.boxes = Standing /\ cmd'.left = cmd.left /\ cmd'.bad = cmd.bad
    BY <2>1, StandingIs, ZenonT(40) DEF TypeOK, Commands
  <2>3. UNCHANGED <<box, policy, guards, asked>>
    BY <1>4 DEF DestroyPlans, account
  <2>4. Standing' \subseteq Standing => Course'
    BY <2>2, <2>3, StandingIs DEF LInv, Course, Bills
  <2>5. QED BY <2>3, <2>4, StaysFalls, StepKeeps DEF CanWrite
<1>5. CASE DestroyCancels
  <2>1. PICK kept \in SUBSET cmd.boxes :
          /\ box' = [b \in Boxes |-> [box[b] EXCEPT !.req = @ /\ b \notin cmd.boxes \ kept]]
          /\ cmd' = [cmd EXCEPT !.step = "terminates", !.boxes = @ \ kept, !.bad = kept # {}, !.left = kept # {}]
    BY <1>5 DEF DestroyCancels
  <2>2. /\ cmd'.step = "terminates" /\ cmd'.boxes = cmd.boxes \ kept
        /\ (cmd'.left <=> kept # {}) /\ (cmd'.bad <=> kept # {})
    BY <2>1 DEF TypeOK, Commands
  <2>3. \A b \in Boxes : /\ box'[b].st = box[b].st /\ box'[b].kind = box[b].kind
                         /\ box'[b].req = (box[b].req /\ b \notin cmd.boxes \ kept)
    BY <2>1, PartsNow DEF BoxRecs, Machines
  <2>4. UNCHANGED <<policy, guards, asked>> /\ cmd.step = "cancels" /\ cmd.boxes \subseteq Boxes
    BY <1>5 DEF DestroyCancels, TypeOK, Commands
  <2>5. Falls
    BY <2>3 DEF Falls, LInv, NoReturn
  <2>6. /\ \A b \in cmd'.boxes : box'[b].st # "none" /\ ~box'[b].req
        /\ kept = {} => Standing \subseteq cmd'.boxes
    BY <2>2, <2>3, <2>4 DEF LInv, Course
  <2>7. Standing' \subseteq Standing => Course'
    BY <2>2, <2>6 DEF Course
  <2>8. QED BY <2>4, <2>5, <2>7, StepKeeps DEF CanWrite
<1>6. CASE DestroyTerminates
  <2>0. UNCHANGED <<policy, guards, asked>> /\ cmd.step = "terminates" /\ cmd.boxes \subseteq Boxes
    BY <1>6 DEF DestroyTerminates, TypeOK, Commands
  <2>1. CASE /\ box' = [b \in Boxes |-> IF b \in cmd.boxes /\ St(b) # "terminated"
                                       THEN [box[b] EXCEPT !.st = "shutting-down"] ELSE box[b]]
             /\ Goes("waits")
    <3>1. \A b \in Boxes :
            /\ box'[b].kind = box[b].kind /\ box'[b].req = box[b].req
            /\ box'[b].st = IF b \in cmd.boxes /\ box[b].st # "terminated" THEN "shutting-down" ELSE box[b].st
      BY <2>1, PartsNow DEF BoxRecs, St, Machines
    <3>2. \A b \in cmd.boxes : box[b].st # "none" /\ (box[b].kind = "old" => ~box[b].req)
      BY <2>0 DEF LInv, Course
    <3>3. Falls
      BY <3>1, <3>2 DEF Falls, Bills, LInv, NoReturn
    <3>4. cmd'.step = "waits" /\ cmd'.boxes = cmd.boxes /\ cmd'.left = cmd.left /\ (cmd'.left => cmd'.bad)
      BY <2>1
    <3>5. Standing' \subseteq Standing => Course'
      BY <2>0, <3>4 DEF Course, LInv
    <3>6. QED BY <2>0, <3>3, <3>5, StepKeeps DEF CanWrite
  <2>2. CASE cmd' = [cmd EXCEPT !.step = "cleans", !.bad = TRUE, !.left = TRUE] /\ UNCHANGED box
    <3>1. cmd'.step = "cleans" /\ cmd'.left /\ cmd'.bad
      BY <2>2 DEF TypeOK, Commands
    <3>2. Course'
      BY <3>1 DEF Course
    <3>3. QED BY <2>0, <2>2, <3>2, StaysFalls, StepKeeps DEF CanWrite
  <2>3. QED BY <1>6, <2>1, <2>2 DEF DestroyTerminates
<1>7. CASE DestroyWaits
  <2>0. UNCHANGED <<box, policy, guards, asked>> /\ cmd.step = "waits"
    BY <1>7 DEF DestroyWaits
  <2>1. CASE Goes("images") /\ \A b \in cmd.boxes : St(b) \in {"terminated", "shutting-down"}
    <3>1. cmd'.step = "images" /\ cmd'.left = cmd.left /\ (cmd'.left => cmd'.bad)
      BY <2>1
    <3>2. ~cmd.left => Standing = {}
      BY <2>0, <2>1, StandingIs DEF LInv, Course, Bills, St
    <3>3. Standing' \subseteq Standing => Course'
      BY <3>1, <3>2 DEF Course
    <3>4. QED BY <2>0, <3>3, StaysFalls, StepKeeps DEF CanWrite
  <2>2. CASE cmd' = [cmd EXCEPT !.step = "images", !.bad = TRUE, !.left = TRUE]
    <3>1. cmd'.step = "images" /\ cmd'.left /\ cmd'.bad
      BY <2>2 DEF TypeOK, Commands
    <3>2. Course'
      BY <3>1 DEF Course
    <3>3. QED BY <2>0, <3>2, StaysFalls, StepKeeps DEF CanWrite
  <2>3. QED BY <1>7, <2>1, <2>2 DEF DestroyWaits
<1>8. CASE DestroyClears
  <2>0. UNCHANGED <<box, policy, guards, asked>> /\ cmd.step = "images"
    BY <1>8 DEF DestroyClears
  <2>1. PICK w : cmd' = [cmd EXCEPT !.step = "cleans", !.bad = @ \/ w # "nothing"]
    BY <1>8 DEF DestroyClears
  <2>2. cmd'.step = "cleans" /\ cmd'.left = cmd.left /\ (cmd.bad => cmd'.bad)
    BY <2>1 DEF TypeOK, Commands
  <2>3. Standing' \subseteq Standing => Course'
    BY <2>0, <2>2 DEF Course, LInv
  <2>4. QED BY <2>0, <2>3, StaysFalls, StepKeeps DEF CanWrite
<1>9. CASE DestroyForgets
  <2>0. /\ UNCHANGED box /\ cmd.step = "cleans" /\ guards \cap {"bucket"} \subseteq guards'
        /\ policy' \in {policy, "rw"}
    BY <1>9 DEF DestroyForgets
  <2>1. CanWrite => CanWrite'
    BY <2>0 DEF CanWrite
  <2>2. asked \subseteq asked'
    <3>1. CASE UNCHANGED asked
      BY <3>1
    <3>2. CASE asked' = asked \ Existing /\ ~cmd.bad
      BY <2>0, <3>2, StandingIs DEF LInv, Course
    <3>3. QED BY <1>9, <3>1, <3>2 DEF DestroyForgets
  <2>3. CASE Ends
    <3>1. cmd'.step = "idle" /\ ~cmd'.left
      BY <2>3
    <3>2. QED BY <2>0, <2>1, <2>2, <3>1, StaysFalls, PlainKeeps DEF Plain
  <2>4. CASE Goes("empties") /\ ~cmd.left
    <3>1. cmd'.step = "empties" /\ (cmd'.left => cmd'.bad)
      BY <2>4
    <3>2. Standing' \subseteq Standing => Course'
      BY <2>0, <2>4, <3>1 DEF Course, LInv
    <3>3. QED BY <2>0, <2>1, <2>2, <3>2, StaysFalls, StepKeeps
  <2>5. QED BY <1>9, <2>3, <2>4 DEF DestroyForgets
<1>10. CASE DestroyEmpties
  <2>1. Ends /\ UNCHANGED box /\ asked' = asked \cup (Boxes \ Was({"none", "terminated"}))
    BY <1>10 DEF DestroyEmpties
  <2>2. cmd'.step = "idle" /\ ~cmd'.left
    BY <2>1
  <2>3. Written'
    BY <2>1 DEF Written, Was, St
  <2>4. One' /\ NoReturn' /\ Course'
    BY <2>1, <2>2, StandingIs DEF One, NoReturn, Course, LInv
  <2>5. QED BY <2>3, <2>4 DEF LInv
<1>11. CASE DestroyFails
  BY <1>11, StaysFalls, Beside DEF DestroyFails, Ends
<1>12. CASE StopLooks
  <2>1. UNCHANGED <<policy, guards, asked>>
    BY <1>12 DEF StopLooks
  <2>2. CASE cmd' = [cmd EXCEPT !.step = "mode", !.mode = "plain"] /\ UNCHANGED box
    <3>1. cmd'.step = "mode" /\ cmd'.left = cmd.left /\ cmd'.bad = cmd.bad
      BY <2>2 DEF TypeOK, Commands
    <3>2. QED BY <2>1, <2>2, <3>1, StaysFalls, PlainKeeps DEF CanWrite, Plain, LInv, Course
  <2>3. CASE Ends /\ UNCHANGED box
    BY <2>1, <2>3, StaysFalls, Beside DEF Ends
  <2>4. CASE Pushes(env.id, "halted")
    BY <2>1, <2>4, PushesKeeps
  <2>5. QED BY <1>12, <2>2, <2>3, <2>4 DEF StopLooks
<1>13. CASE StopHalts
  <2>1. Falls
    <3>1. CASE env.id # 0 /\ St(env.id) = "running"
      <4>1. /\ env.id \in Boxes /\ box[env.id].st \in Bills
            /\ Becomes(env.id, "stopping") /\ "stopping" \in States
        BY <1>13, <3>1 DEF StopHalts, St, Bills, States
      <4>2. QED BY <4>1, MoveFalls
    <3>2. CASE ~(env.id # 0 /\ St(env.id) = "running")
      BY <1>13, <3>2, StaysFalls DEF StopHalts
    <3>3. QED BY <3>1, <3>2
  <2>2. QED BY <1>13, <2>1, Beside DEF StopHalts, Ends
<1>14. QED
  BY <1>1, <1>2, <1>3, <1>4, <1>5, <1>6, <1>7, <1>8, <1>9, <1>10, <1>11, <1>12, <1>13 DEF TakeDownSteps

LEMMA DiskKeeps == ASSUME TypeOK, LInv, DiskSteps PROVE LInv'
<1> USE CmdSteps
<1>1. UNCHANGED <<box, policy, guards, asked>>
  BY DEF DiskSteps, DiskLooks, DiskAttaches, DiskMarks, DiskSetsUp, DiskGrows, DiskFails, account
<1>2. Ends \/ \E s \in {"grows", "attaches", "marks", "sets up"} : Goes(s)
  BY DEF DiskSteps, DiskLooks, DiskAttaches, DiskMarks, DiskSetsUp, DiskGrows, DiskFails
<1>3. cmd'.step \in Plain /\ (cmd'.left => cmd'.bad)
  BY <1>2 DEF Plain
<1>4. QED BY <1>1, <1>3, StaysFalls, PlainKeeps DEF CanWrite

LEMMA LifeNext ==
  ASSUME TypeOK, LInv, [Next]_vars
  PROVE  TypeOK' /\ LInv'
<1>1. CASE Begins
  <2>1. cmd' \in Commands /\ cmd'.step \in {"looks", "disks", "halts", "mode"} /\ ~cmd'.left
    <3>1. CASE \E s \in {"looks", "disks", "halts"}, m \in {"plain", "force"} : cmd' = [Idle EXCEPT !.step = s, !.mode = m]
      BY <3>1 DEF Idle, Commands
    <3>2. CASE \E m \in Modes : cmd' = [Idle EXCEPT !.step = "mode", !.mode = m]
      BY <3>2, CommandsAssumption DEF Idle, Commands
    <3>3. QED BY <1>1, <3>1, <3>2 DEF Begins
  <2>2. given' \in 0..Given
    <3>1. given \in 0..Given /\ Given \in Nat /\ given < Given /\ given' = given + 1
      BY <1>1, CommandsAssumption DEF Begins, TypeOK
    <3>2. QED BY ONLY <3>1
  <2>3. UNCHANGED <<account, session>>
    BY <1>1 DEF Begins
  <2>4. TypeOK'
    <3>1. AccountTypeOK'
      BY <2>3 DEF TypeOK, AccountTypeOK, account
    <3>2. session' \in [step : {"closed", "starts", "connects", "plays"}, box : Boxes \cup {0}]
      BY <2>3 DEF TypeOK
    <3>3. QED BY <2>1, <2>2, <3>1, <3>2 DEF TypeOK
  <2>5. QED BY <2>1, <2>3, <2>4, StaysFalls, PlainKeeps DEF Plain, CanWrite, account
<1>2. CASE CutOff
  <2>1. trouble' \in Calls
    <3>1. trouble.cut - 1 \in 0..Interrupts
      <4>1. trouble.cut \in 0..Interrupts /\ Interrupts \in Nat /\ trouble.cut > 0
        BY <1>2, BoundsAssumption DEF CutOff, TypeOK, AccountTypeOK
      <4>2. QED BY ONLY <4>1
    <3>2. trouble' = [trouble EXCEPT !.cut = trouble.cut - 1]
      BY <1>2 DEF CutOff
    <3>3. QED BY <3>1, <3>2, PartsNow DEF Calls
  <2>2. TypeOK'
    BY <1>2, <2>1, GoesTyped, PartsNow, PartsType DEF CutOff, Parts
  <2>3. QED BY <1>2, <2>2, StaysFalls, Beside DEF CutOff, Ends
<1>3. CASE InitSteps /\ UNCHANGED session
  BY <1>3, InitType, InitKeeps, PartsType
<1>4. CASE TakeDownSteps /\ UNCHANGED session
  BY <1>4, DownType, DownKeeps, PartsType
<1>5. CASE DiskSteps /\ UNCHANGED session
  BY <1>5, DiskType, DiskKeeps, PartsType
<1>6. CASE SessionSteps
  <2>1. UNCHANGED <<policy, guards, asked, cmd>>
    BY <1>6 DEF SessionSteps, OpenBegins, OpenStarts, OpenPlays, OpenEnds, sessions, account
  <2>2. QED BY <1>6, <2>1, SessionType, SessionFalls, Beside
<1>7. CASE OfThemselves /\ UNCHANGED <<cmd, given, session>>
  <2>1. UNCHANGED <<policy, guards, asked>>
    BY <1>7 DEF OfThemselves, Boots, Joins, Plays, SwitchesOff, GoesDown
  <2>2. QED BY <1>7, <2>1, ThemselvesType, ThemselvesFalls, Beside
<1>8. CASE UNCHANGED vars
  <2>1. TypeOK'
    <3>1. UNCHANGED <<box, nodes, env, policy, guards, image, disk, trouble, asked, cmd, given, session>>
      BY <1>8 DEF vars, account
    <3>2. QED BY <3>1, PartsNow, PartsType DEF Parts
  <2>2. QED BY <1>8, <2>1, StaysFalls, Beside DEF vars, account
<1>9. QED
  BY <1>1, <1>2, <1>3, <1>4, <1>5, <1>6, <1>7, <1>8 DEF Next

LEMMA LifeInductive == Spec => [](TypeOK /\ LInv)
<1>1. TypeOK /\ LInv /\ [Next]_vars => (TypeOK /\ LInv)'
  BY LifeNext
<1>2. QED BY <1>1, TypeInit, LifeInit, PTL DEF Spec

-----------------------------------------------------------------------------
\* For any number of machines, commands, failed calls and cut-offs, no value
\* leaves its type.
THEOREM LifeTyped == Spec => []TypeOK
BY LifeInductive, PTL

\* No two machines bill at once: a launch waits for the lock and looks again.
THEOREM OnlyOneBox == Spec => []OneBox
<1>1. One => OneBox
  <2>1. SUFFICES ASSUME One PROVE Cardinality(Standing) <= 1
    BY DEF OneBox
  <2>2. CASE Standing = {}
    BY <2>2, FS_EmptySet
  <2>3. ASSUME NEW b \in Standing PROVE Cardinality(Standing) <= 1
    <3>1. Standing = {b}
      BY <2>1, <2>3 DEF One
    <3>2. Cardinality({b}) = 1
      BY FS_Singleton
    <3>3. QED BY <3>1, <3>2
  <2>4. QED BY <2>2, <2>3
<1>2. QED BY <1>1, LifeInductive, PTL DEF LInv

-----------------------------------------------------------------------------
(* What a step may never do.                                                 *)

\* .env is changed by a command that records its machine or forgets what is gone.
LEMMA IdsKept == ASSUME TypeOK, LInv, [Next]_vars PROVE env.id # 0 /\ env'.id # env.id => env.id \notin Standing
<1> SUFFICES ASSUME env.id # 0, env'.id # env.id, env.id \in Standing PROVE FALSE
  OBVIOUS
<1>1. CASE /\ cmd.step = "records"
           /\ env' = [env EXCEPT !.id = Mine] \/ UNCHANGED env
  <2>1. env' = [env EXCEPT !.id = Mine] /\ env'.id = Mine
    BY <1>1, PartsNow DEF Settings
  <2>2. Standing \subseteq {Mine}
    BY <1>1, MineIs DEF LInv, Course
  <2>3. QED BY <2>1, <2>2
<1>2. CASE cmd.step = "cleans" /\ ~cmd.left
  BY <1>2 DEF LInv, Course
<1>3. CASE \E n : env' = [env EXCEPT !.node = n]
  BY <1>3, PartsNow
<1>4. ~UNCHANGED env
  OBVIOUS
<1>5. CASE InitSteps
  BY <1>1, <1>3, <1>4, <1>5 DEF InitSteps, InitLooks, InitEnsures, InitReuses, InitLaunches, InitHasNoAllowance,
     InitRecords, InitStarts, InitFinds, InitFindsNone, InitBuilds, InitFails, At, account
<1>6. CASE TakeDownSteps
  BY <1>2, <1>4, <1>6 DEF TakeDownSteps, DestroyLocks, DestroyLooks, DestroyPushes, DestroyPlans, DestroyCancels,
     DestroyTerminates, DestroyWaits, DestroyClears, DestroyForgets, DestroyEmpties, DestroyFails, StopLooks,
     StopHalts, At, account
<1>7. CASE DiskSteps
  BY <1>4, <1>7 DEF DiskSteps, DiskLooks, DiskAttaches, DiskMarks, DiskSetsUp, DiskGrows, DiskFails, account
<1>8. CASE SessionSteps
  BY <1>4, <1>8 DEF SessionSteps, OpenBegins, OpenStarts, OpenPlays, OpenEnds, sessions, account
<1>9. CASE OfThemselves
  BY <1>4, <1>9 DEF OfThemselves, Boots, Joins, Plays, SwitchesOff, GoesDown
<1>10. CASE Begins \/ CutOff \/ UNCHANGED vars
  BY <1>4, <1>10 DEF Begins, CutOff, vars, account
<1>11. QED BY <1>5, <1>6, <1>7, <1>8, <1>9, <1>10 DEF Next

\* Only the irreversible part of destroy --all takes the guards away.
LEMMA GuardsKept ==
  ASSUME TypeOK, LInv, [Next]_vars, Standing # {}
  PROVE  /\ guards \cap {"watchdog", "bucket"} \subseteq guards'
         /\ policy # "none" => policy' # "none"
<1>1. CASE UNCHANGED <<guards, policy>>
  BY <1>1
<1>2. CASE DestroyEmpties
  BY <1>2 DEF DestroyEmpties, At, LInv, Course
<1>3. CASE InitSteps
  BY <1>3 DEF InitSteps, InitLooks, InitEnsures, InitReuses, InitLaunches, InitHasNoAllowance,
     InitRecords, InitStarts, InitFinds, InitFindsNone, InitBuilds, InitFails, account
<1>4. CASE TakeDownSteps
  BY <1>1, <1>2, <1>4 DEF TakeDownSteps, DestroyLocks, DestroyLooks, DestroyPushes, DestroyPlans, DestroyCancels,
     DestroyTerminates, DestroyWaits, DestroyClears, DestroyForgets, DestroyFails, StopLooks, StopHalts, account
<1>5. CASE DiskSteps
  BY <1>1, <1>5 DEF DiskSteps, DiskLooks, DiskAttaches, DiskMarks, DiskSetsUp, DiskGrows, DiskFails, account
<1>6. CASE SessionSteps
  BY <1>1, <1>6 DEF SessionSteps, OpenBegins, OpenStarts, OpenPlays, OpenEnds, sessions, account
<1>7. CASE OfThemselves
  BY <1>1, <1>7 DEF OfThemselves, Boots, Joins, Plays, SwitchesOff, GoesDown
<1>8. CASE Begins \/ CutOff \/ UNCHANGED vars
  BY <1>1, <1>8 DEF Begins, CutOff, vars, account
<1>9. QED BY <1>3, <1>4, <1>5, <1>6, <1>7, <1>8 DEF Next

\* Nothing of the account is lost sight of: .env keeps the id of a machine that
\* is there, its guards stay as long as it does, and a destroy that says it is
\* done has ended every machine, and for good.
THEOREM NothingIsLetGo == Spec => NothingLetGo
<1>1. TypeOK /\ LInv /\ [Next]_vars => [env.id # 0 /\ env'.id # env.id => env.id \notin Standing]_vars
  BY IdsKept
<1>2. TypeOK /\ LInv /\ [Next]_vars => [Standing # {} =>
       /\ guards \cap {"watchdog", "bucket"} \subseteq guards'
       /\ policy # "none" => policy' # "none"]_vars
  BY GuardsKept
<1>3. TypeOK /\ LInv =>
        [cmd.step = "cleans" /\ cmd'.step # "cleans" /\ ~cmd.bad /\ trouble' = trouble
         => /\ Standing = {}
            /\ \A b \in Was({"shutting-down"}) : box[b].kind # "old" \/ ~box[b].req]_vars
  BY DEF LInv, Course, NoReturn, Was, St
<1>4. QED BY <1>1, <1>2, <1>3, LifeInductive, PTL DEF Spec, NothingLetGo, IdKept, GuardsOutliveTheBox, GoneForGood

\* Games are lost with a machine that goes down, and with nothing else.
NoneLost == \A b \in Boxes : box'[b].games = "lost" => box[b].games = "lost"

LEMMA MoveLosesNone ==
  ASSUME TypeOK, NEW b \in Boxes, NEW s \in States, Becomes(b, s)
  PROVE  NoneLost
<1>1. /\ \A c \in Boxes : c # b => box'[c] = box[c]
      /\ box'[b] = [box[b] EXCEPT !.st = s] /\ box[b] \in BoxRecs
  BY BecomesIs, PartsNow DEF Machines
<1>2. \A r \in BoxRecs : [r EXCEPT !.st = s].games = r.games
  BY DEF BoxRecs
<1>3. box'[b].games = box[b].games
  BY ONLY <1>1, <1>2
<1>4. QED BY <1>1, <1>3 DEF NoneLost

\* A push of a command loses nothing, whatever comes of it.
LEMMA PushesLoseNone ==
  ASSUME TypeOK, NEW b, NEW next, Pushes(b, next)
  PROVE  NoneLost
<1>1. CASE UNCHANGED box
  BY <1>1 DEF NoneLost
<1>2. CASE Reachable(b) /\ box' = [box EXCEPT ![b].games = IF @ = "new" THEN "saved" ELSE @]
  <2>1. b \in Boxes
    BY <1>2 DEF Reachable, St
  <2>2. box[b] \in BoxRecs /\ box \in Machines
    BY <2>1, PartsNow DEF Machines
  <2>3. box' = [box EXCEPT ![b] = [box[b] EXCEPT !.games = IF @ = "new" THEN "saved" ELSE @]]
    BY <1>2
  <2>4. [box[b] EXCEPT !.games = IF @ = "new" THEN "saved" ELSE @].games
          = IF box[b].games = "new" THEN "saved" ELSE box[b].games
    BY <2>2 DEF BoxRecs
  <2>5. QED BY <2>1, <2>2, <2>3, <2>4 DEF NoneLost, Machines
<1>3. QED BY <1>1, <1>2 DEF Pushes

LEMMA GamesKept ==
  ASSUME TypeOK, LInv, [Next]_vars
  PROVE  \A b \in Boxes : ~Lost(b) /\ Lost(b)' => b \in asked \/ MirrorFails
<1> DEFINE Safe == \A b \in Boxes : ~Lost(b) /\ Lost(b)' => b \in asked \/ MirrorFails
<1>1. CASE UNCHANGED box \/ NoneLost
  BY <1>1 DEF NoneLost, Lost
<1>2. CASE InitSteps
  <2>1. CASE InitStarts
    <3>1. CASE St(Mine) = "stopped"
      <4>1. Mine \in Boxes /\ "pending" \in States /\ Becomes(Mine, "pending")
        BY <2>1, <3>1, MineIs DEF InitStarts, At, States
      <4>2. QED BY <1>1, <4>1, MoveLosesNone
    <3>2. QED BY <1>1, <2>1, <3>1 DEF InitStarts
  <2>2. CASE InitLaunches
    <3>1. PICK b \in Boxes, k \in Kinds :
            box' = [box EXCEPT ![b] = [st |-> "pending", kind |-> k, req |-> k = "spot", games |-> "saved"]]
      BY <2>2 DEF InitLaunches
    <3>2. NoneLost
      BY <3>1, PartsNow DEF NoneLost, Machines
    <3>3. QED BY <1>1, <3>2
  <2>3. QED BY <1>1, <1>2, <2>1, <2>2 DEF InitSteps, InitLooks, InitEnsures, InitReuses, InitHasNoAllowance,
             InitRecords, InitFinds, InitFindsNone, InitBuilds, InitFails, account
<1>3. CASE TakeDownSteps
  <2>1. CASE DestroyCancels
    <3>1. PICK kept : box' = [b \in Boxes |-> [box[b] EXCEPT !.req = @ /\ b \notin cmd.boxes \ kept]]
      BY <2>1 DEF DestroyCancels
    <3>2. \A r \in BoxRecs : \A q : [r EXCEPT !.req = q].games = r.games
      BY DEF BoxRecs
    <3>3. \A b \in Boxes : box[b] \in BoxRecs
      BY PartsNow DEF Machines
    <3>4. \A b \in Boxes : box'[b].games = box[b].games
      BY ONLY <3>1, <3>2, <3>3
    <3>5. QED BY <1>1, <3>4 DEF NoneLost
  <2>2. CASE DestroyTerminates
    <3>1. \A r \in BoxRecs : [r EXCEPT !.st = "shutting-down"].games = r.games
      BY DEF BoxRecs
    <3>2. \A b \in Boxes : box[b] \in BoxRecs
      BY PartsNow DEF Machines
    <3>3. \/ UNCHANGED box
          \/ \A b \in Boxes : box'[b] \in {box[b], [box[b] EXCEPT !.st = "shutting-down"]}
      BY <2>2 DEF DestroyTerminates
    <3>4. UNCHANGED box \/ NoneLost
      BY <3>1, <3>2, <3>3 DEF NoneLost
    <3>5. QED BY <1>1, <3>4
  <2>3. CASE StopHalts
    <3>1. CASE env.id # 0 /\ St(env.id) = "running"
      <4>1. env.id \in Boxes /\ "stopping" \in States /\ Becomes(env.id, "stopping")
        BY <2>3, <3>1 DEF StopHalts, St, States
      <4>2. QED BY <1>1, <4>1, MoveLosesNone
    <3>2. QED BY <1>1, <2>3, <3>1 DEF StopHalts
  <2>4. CASE DestroyPushes
    BY <1>1, <2>4, PushesLoseNone DEF DestroyPushes
  <2>5. CASE StopLooks
    BY <1>1, <2>5, PushesLoseNone DEF StopLooks
  <2>6. QED BY <1>1, <1>3, <2>1, <2>2, <2>3, <2>4, <2>5 DEF TakeDownSteps, DestroyLocks, DestroyLooks,
            DestroyPlans, DestroyWaits, DestroyClears, DestroyForgets, DestroyEmpties, DestroyFails, account
<1>4. CASE DiskSteps
  BY <1>1, <1>4 DEF DiskSteps, DiskLooks, DiskAttaches, DiskMarks, DiskSetsUp, DiskGrows, DiskFails, account
<1>5. CASE SessionSteps
  <2>1. CASE OpenStarts
    <3>1. session.box \in Boxes /\ "pending" \in States /\ Becomes(session.box, "pending")
      BY <2>1 DEF OpenStarts, St, States
    <3>2. QED BY <1>1, <3>1, MoveLosesNone
  <2>2. QED BY <1>1, <1>5, <2>1 DEF SessionSteps, OpenBegins, OpenPlays, OpenEnds, sessions, account
<1>6. CASE OfThemselves
  <2>1. ASSUME NEW b \in Boxes, Boots(b) \/ SwitchesOff(b) PROVE Safe
    <3>1. \E s \in States : Becomes(b, s)
      BY <2>1 DEF Boots, SwitchesOff, States
    <3>2. QED BY <1>1, <3>1, MoveLosesNone
  <2>2. ASSUME NEW b \in Boxes, Joins(b) PROVE Safe
    BY <1>1, <2>2 DEF Joins
  <2>3. ASSUME NEW b \in Boxes, Plays(b) PROVE Safe
    <3>1. /\ \A c \in Boxes : c # b => box'[c] = box[c]
          /\ box'[b] = [box[b] EXCEPT !.games = "new"] /\ box[b] \in BoxRecs
      BY <2>3, GamesAre, PartsNow DEF Plays, Fates, Machines
    <3>2. box'[b].games = "new"
      BY <3>1 DEF BoxRecs
    <3>3. QED BY <1>1, <3>1, <3>2 DEF NoneLost
  <2>4. ASSUME NEW b \in Boxes, GoesDown(b) PROVE Safe
    <3>1. /\ \A c \in Boxes : c # b => box'[c] = box[c]
          /\ box[b].st \in {"stopping", "shutting-down"}
          /\ box'[b].games = "lost" /\ box[b].games # "lost" => ~CanWrite \/ trouble' # trouble
      BY <2>4, GoesDownIs
    <3>2. CanWrite \/ b \in asked
      BY <3>1 DEF LInv, Written
    <3>3. QED BY <3>1, <3>2 DEF Lost, MirrorFails
  <2>5. QED BY <1>6, <2>1, <2>2, <2>3, <2>4 DEF OfThemselves
<1>7. CASE Begins \/ CutOff \/ UNCHANGED vars
  BY <1>1, <1>7 DEF Begins, CutOff, vars, account
<1>8. QED BY <1>2, <1>3, <1>4, <1>5, <1>6, <1>7 DEF Next

\* No machine's games are lost unless somebody gave them up, or the mirror of its
\* own shutdown did not work: whatever earlier commands did to the archive and its
\* role, wherever they were cut off, and whatever came of their pushes.
THEOREM NoGamesLost == Spec => NothingLostUnasked
<1>1. TypeOK /\ LInv /\ [Next]_vars =>
        [\A b \in Boxes : ~Lost(b) /\ Lost(b)' => b \in asked \/ MirrorFails]_vars
  BY GamesKept
<1>2. QED BY <1>1, LifeInductive, PTL DEF Spec, NothingLostUnasked
=============================================================================
