------------------------------ MODULE Checkout ------------------------------
(***************************************************************************)
(* The files of a checkout that no lock guards, and the scripts that read, *)
(* change and write them whole: the trackers and their ledgers (Stamps),   *)
(* the table of plans and what is read before a row of it is written       *)
(* (CloseOut, Preflight), the lessons (Lessons), the markers and ports of  *)
(* the boards (TrackerPort), the directories of the tools (ToolSync).      *)
(*                                                                         *)
(* The six share no file that one writes and another relies on, but for    *)
(* the table of plans, which CloseOut and Preflight both hold.  A          *)
(* behaviour is therefore a scene of one of them while the others rest.    *)
(***************************************************************************)
EXTENDS Stamps, CloseOut, Preflight, Lessons, TrackerPort, ToolSync

VARIABLE scene     \* who acts

filesVars == <<doc, writes, touched>>
gateVars == <<folder, hydrated, board, edits, passed, loose, known>>
checkoutVars == <<scene, stampsVars, registryVars, filesVars, gateVars, lessonsVars, portVars, syncVars>>

(* What rests: a tracker without entries, no files, no folder.             *)
StampsRest ==
  /\ tracker = [r \in Run |-> [status |-> "running", agents |-> [c \in {} |-> Blank]]]
  /\ strokes = [made |-> 0, open |-> 0]
  /\ StampsInit

RegistryRest ==
  /\ rows = [s \in Stem |-> "running"]
  /\ desk = [d \in Desk |-> Idle]
  /\ flips = 0

FilesRest == doc = [f \in Files |-> None] /\ writes = 0 /\ touched = [d \in Desk |-> {}]

GateRest ==
  /\ folder = [s \in Stem |-> None]
  /\ hydrated = [s \in Stem |-> None]
  /\ board = {} /\ edits = 0
  /\ passed = {} /\ loose = {}
  /\ known = [s \in Stem |-> {}]

SyncRest ==
  /\ canon = [f \in Asset |-> NoFile] /\ place = [p \in Place |-> Missing]
  /\ shelf = {} /\ head = canon
  /\ sync = [s \in Syncer |-> Away]
  /\ bill = [what \in {"runs", "touches", "stops"} |-> 0]
  /\ alone = {} /\ owed = {} /\ sent = {} /\ settled = "no"

CheckoutInit ==
  /\ LessonsInit
  /\ PortInit
  /\ \/ scene = "stamps" /\ StampsInit /\ RegistryRest /\ FilesRest /\ GateRest
     \/ scene = "closeout" /\ StampsRest /\ CloseOutInit /\ GateRest
     \/ scene = "preflight" /\ StampsRest /\ PreflightInit /\ FilesRest
     \/ scene \in {"lessons", "port", "sync"} /\ StampsRest /\ RegistryRest /\ FilesRest /\ GateRest
  /\ IF scene = "sync" THEN SyncInit ELSE SyncRest

CheckoutNext ==
  /\ UNCHANGED scene
  /\ \/ /\ scene = "stamps"
        /\ UNCHANGED <<registryVars, filesVars, gateVars, lessonsVars, portVars, syncVars>>
        /\ StampsNext
     \/ /\ scene = "closeout"
        /\ UNCHANGED <<stampsVars, gateVars, lessonsVars, portVars, syncVars>>
        /\ CloseOutNext
     \/ /\ scene = "preflight"
        /\ UNCHANGED <<stampsVars, filesVars, lessonsVars, portVars, syncVars>>
        /\ PreflightNext
     \/ /\ scene = "lessons"
        /\ UNCHANGED <<stampsVars, registryVars, filesVars, gateVars, portVars, syncVars>>
        /\ LessonsNext
     \/ /\ scene = "port"
        /\ UNCHANGED <<stampsVars, registryVars, filesVars, gateVars, lessonsVars, syncVars>>
        /\ PortNext
     \/ /\ scene = "sync"
        /\ UNCHANGED <<stampsVars, registryVars, filesVars, gateVars, lessonsVars, portVars>>
        /\ SyncNext

CheckoutSpec == CheckoutInit /\ [][CheckoutNext]_checkoutVars

\* What rests is well typed; who acts keeps it so.
CheckoutTypeOK ==
  /\ scene = "stamps" => StampsTypeOK
  /\ scene = "closeout" => CloseOutTypeOK
  /\ scene = "preflight" => PreflightTypeOK
  /\ scene = "lessons" => LessonsTypeOK
  /\ scene = "port" => PortTypeOK
  /\ scene = "sync" => SyncTypeOK
=============================================================================
