----------------------------- MODULE MfcClient -----------------------------
(***************************************************************************)
(* The MFC client: CMFCClientApp::InitInstance, the windows it makes and   *)
(* the document commands of the menu.  Between the lines of src/MFC_Client *)
(* runs the framework (CWinApp, CSingleDocTemplate, CDocument, CView); its *)
(* part is written here from the calls the code makes.                     *)
(***************************************************************************)
CONSTANTS
    Files,      \* names of document files
    Texts,      \* contents a file may have besides none
    None,       \* a null pointer, an untitled document
    Absent,     \* the contents of a file that does not exist
    Empty,      \* the contents of a file of length 0
    Debug       \* whether assertions are compiled in: _DEBUG

Contents == Texts \cup {Absent, Empty}

\* What ParseCommandLine may find: nothing, a file, /dde, /Register.
Commands == {"new", "dde", "register"} \cup Files

ASSUME ClientAssumption ==
    /\ None \notin Files /\ None \notin [path : Files \cup {None}]
    /\ Files \cap {"new", "dde", "register"} = {}
    /\ Debug \in BOOLEAN
    /\ Absent # Empty /\ Texts \cap {Absent, Empty} = {}

VARIABLES
    pc,         \* where InitInstance or the message loop is
    command,    \* cmdInfo
    template,   \* whether the document template is registered
    doc,        \* the document: the path of its file, or untitled
    frame,      \* the frame window and its children
    mainWnd,    \* whether m_pMainWnd points to the frame
    disk,       \* the contents of each file
    named       \* the file the document was opened from or last saved as since
                \* it was made a new one

app  == <<command, template, mainWnd>>
store == <<disk, named>>
vars == <<pc, app, doc, frame, store>>

\* A document that was just made, and not opened from a file.
Untitled == [path |-> None]

\* The bars of the frame window, beside the view.
Children == {"tool bar", "status bar"}

Init ==
    /\ pc = "off" /\ command = "new"
    /\ template = FALSE /\ mainWnd = FALSE
    /\ doc = None /\ frame = None
    /\ disk \in [Files -> Contents]
    /\ named = None

Goes(from, to) == pc = from /\ pc' = to

-----------------------------------------------------------------------------
(* InitInstance.                                                           *)

Launch(c) ==
    /\ Goes("off", "template")
    /\ command' = c
    /\ UNCHANGED <<template, mainWnd, doc, frame, store>>

RegisterTemplate ==
    /\ pc = "template"
    /\ \/ template' = TRUE /\ pc' = "command"
       \/ pc' = "exit" /\ UNCHANGED template
    /\ UNCHANGED <<command, mainWnd, doc, frame, store>>

\* MUTANT: the frame window is created before the document.
ProcessShellCommand_FrameFirst ==
    /\ Goes("command", CASE command = "dde"      -> "show"
                         [] command = "register" -> "exit"
                         [] OTHER                -> "frame")
    /\ UNCHANGED <<app, doc, frame, store>>

\* /dde opens no document: a DDE message is expected to name one later.
ProcessShellCommand ==
    /\ Goes("command", CASE command = "dde"      -> "show"
                         [] command = "register" -> "exit"
                         [] OTHER                -> "document")
    /\ UNCHANGED <<app, doc, frame, store>>

\* MUTANT: the result of OpenDocumentFile is not looked at.
CreateDocument_Unchecked ==
    /\ pc = "document"
    /\ \/ pc' = "frame" /\ doc' = Untitled
       \/ pc' = "show" /\ UNCHANGED doc
    /\ UNCHANGED <<app, frame, store>>

CreateDocument ==
    /\ pc = "document"
    /\ \/ pc' = "frame" /\ doc' = Untitled
       \/ pc' = "exit" /\ UNCHANGED doc
    /\ UNCHANGED <<app, frame, store>>

\* A window that cannot be completed goes with its view and its document.
Abandon ==
    /\ pc' = "exit"
    /\ frame' = None
    /\ doc' = None

\* The frame window is about to be created.
PreCreateWindow ==
    /\ pc = "frame"
    /\ \/ pc' = "view" /\ UNCHANGED <<doc, frame>>
       \/ Abandon
    /\ UNCHANGED <<app, store>>

\* CFrameWnd::OnCreate makes a view, and its window is about to be created.
PreCreateView ==
    /\ pc = "view"
    /\ \/ pc' = "create" /\ UNCHANGED <<doc, frame>>
       \/ Abandon
    /\ UNCHANGED <<app, store>>

\* It did so, and the view is tied to the document; or it is the end of the
\* window.
OnCreate ==
    /\ pc = "create"
    /\ \/ /\ frame' = {"view"}
          /\ pc' = "tool bar"
          /\ UNCHANGED doc
       \/ Abandon
    /\ UNCHANGED <<app, store>>

Bar(name, next) ==
    /\ pc = name
    /\ \/ /\ frame' = frame \cup {name}
          /\ pc' = next
          /\ UNCHANGED doc
       \/ Abandon
    /\ UNCHANGED <<app, store>>

\* MUTANT: the frame is kept when the tool bar cannot be made.
CreateToolBar_Goes_On ==
    \/ Bar("tool bar", "status bar")
    \/ Goes("tool bar", "status bar") /\ UNCHANGED <<app, doc, frame, store>>

CreateToolBar == Bar("tool bar", "status bar")

CreateStatusBar == Bar("status bar", "load")

\* MUTANT: the base class is not called.
OnNewDocument_Alone(d) == d

\* The base class takes the path off the document, which is used again.
OnNewDocument(d) == [d EXCEPT !.path = None]

\* A file can be opened only if it exists; it may also be locked.  Serialize
\* takes nothing from it.
Load ==
    /\ pc = "load"
    /\ \/ /\ pc' = "show"
          /\ \/ /\ command \notin Files
                /\ doc' = OnNewDocument(doc) /\ named' = None
             \/ /\ command \in Files /\ disk[command] # Absent
                /\ doc' = [path |-> command] /\ named' = command
          /\ mainWnd' = TRUE
          /\ UNCHANGED frame
       \/ Abandon /\ UNCHANGED <<mainWnd, named>>
    /\ UNCHANGED <<command, template, disk>>

\* A call through m_pMainWnd: without a main window the process dies.
Show ==
    /\ Goes("show", IF mainWnd THEN "update" ELSE "crashed")
    /\ UNCHANGED <<app, doc, frame, store>>

\* A debug build goes through m_pDocument to see of what class it is.
GetDocumentDies == Debug /\ doc = None

\* A release build returns it as it is.
GetDocument == doc

\* ASSERT_VALID calls the document.
AssertValidDies == Debug /\ GetDocument = None

\* Without a document a release build draws nothing.
Draws(next) ==
    pc' = IF GetDocumentDies \/ AssertValidDies THEN "crashed" ELSE next

\* The view is drawn before UpdateWindow returns.
UpdateWindow ==
    /\ pc = "update" /\ Draws("running")
    /\ UNCHANGED <<app, doc, frame, store>>

\* A view that is there may have to be drawn at any time.
OnDraw ==
    /\ pc # "crashed" /\ frame # None /\ Draws(pc)
    /\ UNCHANGED <<app, doc, frame, store>>

-----------------------------------------------------------------------------
(* The commands of the menu, in the message loop.  Nothing marks the       *)
(* document modified, so no command stops to ask whether to save it.       *)

Command ==
    /\ pc = "running"
    /\ UNCHANGED <<pc, app, frame>>

OnFileNew ==
    /\ Command
    /\ \/ doc' = OnNewDocument(doc) /\ named' = None
       \/ UNCHANGED <<doc, named>>
    /\ UNCHANGED disk

Opens(f) == doc' = [path |-> f] /\ named' = f

\* A file that is open already stays as it is.
OnFileOpen(f) ==
    /\ Command
    /\ \/ disk[f] # Absent /\ doc.path # f /\ Opens(f)
       \/ UNCHANGED <<doc, named>>
    /\ UNCHANGED disk

\* What CMFCClientDoc::Serialize writes of a document.
Serialize == Empty

\* The file is replaced only when all of the document was written.
OnFileSave ==
    /\ Command
    /\ doc.path # None
    /\ disk' \in {[disk EXCEPT ![doc.path] = Serialize], disk}
    /\ UNCHANGED <<doc, named>>

\* When the document cannot be written to the file the user chose, the file
\* is removed, if it can be.
OnFileSaveAs(f) ==
    /\ Command
    /\ \/ disk' = [disk EXCEPT ![f] = Serialize] /\ Opens(f)
       \/ /\ disk' \in {[disk EXCEPT ![f] = Absent], disk}
          /\ UNCHANGED <<doc, named>>

OnAppAbout ==
    /\ Goes("running", "about")
    /\ UNCHANGED <<app, doc, frame, store>>

CloseAbout ==
    /\ Goes("about", "running")
    /\ UNCHANGED <<app, doc, frame, store>>

Exit ==
    /\ pc = "running" /\ Abandon
    /\ UNCHANGED <<app, store>>

ExitInstance ==
    /\ Goes("exit", "off")
    /\ template' = FALSE /\ mainWnd' = FALSE
    /\ named' = None
    /\ UNCHANGED <<command, doc, frame, disk>>

\* What a process leaves when it dies is the disk.
Died ==
    /\ Goes("crashed", "off")
    /\ template' = FALSE /\ mainWnd' = FALSE
    /\ doc' = None /\ frame' = None /\ named' = None
    /\ UNCHANGED <<command, disk>>

Next ==
    \/ \E c \in Commands : Launch(c)
    \/ RegisterTemplate \/ ProcessShellCommand \/ CreateDocument
    \/ PreCreateWindow \/ PreCreateView \/ OnCreate
    \/ CreateToolBar \/ CreateStatusBar \/ Load
    \/ Show \/ UpdateWindow \/ OnDraw
    \/ OnFileNew \/ OnFileSave \/ OnAppAbout \/ CloseAbout
    \/ \E f \in Files : OnFileOpen(f) \/ OnFileSaveAs(f)
    \/ Exit \/ ExitInstance \/ Died

Spec == Init /\ [][Next]_vars

-----------------------------------------------------------------------------
(* Correctness.                                                            *)

\* Every variable has the type of the object it stands for.
TypeOK ==
    /\ pc \in {"off", "template", "command", "document", "frame", "view",
               "create", "tool bar", "status bar", "load", "show", "update",
               "running", "about", "exit", "crashed"}
    /\ command \in Commands
    /\ template \in BOOLEAN /\ mainWnd \in BOOLEAN
    /\ doc \in {None} \cup [path : Files \cup {None}]
    /\ frame \in {None} \cup SUBSET ({"view"} \cup Children)
    /\ disk \in [Files -> Contents]
    /\ named \in Files \cup {None}

\* Whatever fails on the way, InitInstance either brings up the window with
\* its view, both bars and a document, or leaves neither window nor document.
WholeOrGone ==
    /\ pc \in {"update", "running", "about"} =>
         /\ template /\ mainWnd /\ doc # None
         /\ frame = {"view"} \cup Children
    /\ pc \in {"off", "exit"} => doc = None /\ frame = None

\* The view's OnDraw asserts its document, and may be called while there is a
\* view: a window never outlives the document it shows.
ViewHasDocument == frame # None => doc # None

\* An SDI document is used again by New and Open.  A command writes only to
\* the file the document was opened from or last saved as since it was made a
\* new one, or that the user chooses in this very command: never to the file of
\* the document it was before.
WritesOnlyNamed ==
    [][\A f \in Files : disk'[f] # disk[f] => f = named \/ OnFileSaveAs(f)]_vars

\* Nothing that fails brings the process down but /dde: no command and no call
\* of OnDraw meets a window or a document that is not there.
OnlyDdeCrashes == pc = "crashed" => command = "dde"

\* InitInstance shows the main window on the ground that it was initialised.
WindowInitialised == pc = "show" => mainWnd

=============================================================================
