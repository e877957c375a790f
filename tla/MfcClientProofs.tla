--------------------------- MODULE MfcClientProofs ---------------------------
(***************************************************************************)
(* The client of MfcClient, for any files and contents: what fails during  *)
(* startup leaves nothing behind, nothing but /dde makes the process       *)
(* follow a null pointer, and no command writes to the file of a document  *)
(* that New has taken the place of.  And the handlers of SharedHandlers,   *)
(* for any fonts and any contents: the device context goes back to the     *)
(* caller as it came, and a search finds nothing of before the content was *)
(* emptied.                                                                *)
(***************************************************************************)
EXTENDS MfcClient, SharedHandlers, TLAPS

Window == {"view"} \cup Children

Nothing == doc = None /\ frame = None

\* Where startup and the message loop are, and what there is by then.
Stages ==
    /\ pc = "off" => Nothing /\ mainWnd = FALSE /\ template = FALSE
    /\ pc = "template" => Nothing /\ mainWnd = FALSE
    /\ pc \in {"command", "document"} =>
         Nothing /\ mainWnd = FALSE /\ template = TRUE
    /\ pc \in {"document", "frame", "view", "create", "tool bar",
               "status bar", "load"} => template = TRUE /\ command # "dde"
    /\ pc \in {"frame", "view", "create"} => doc # None /\ frame = None
    /\ pc = "tool bar" => doc # None /\ frame = {"view"}
    /\ pc = "status bar" => doc # None /\ frame = {"view", "tool bar"}
    /\ pc = "load" => doc # None /\ frame = Window
    /\ pc = "show" =>
         \/ doc # None /\ frame = Window /\ mainWnd = TRUE /\ template = TRUE
         \/ Nothing /\ mainWnd = FALSE /\ command = "dde"
    /\ pc \in {"update", "running", "about"} =>
         doc # None /\ frame = Window /\ mainWnd = TRUE /\ template = TRUE
    /\ pc = "exit" => Nothing
    /\ pc = "crashed" => Nothing /\ command = "dde"

\* A document that has a file was opened from it or saved as it.
PathIsNamed == doc # None /\ doc.path # None => doc.path = named

\* What every step preserves.
IInv == TypeOK /\ Stages /\ PathIsNamed

\* Nothing is there before the program starts.
LEMMA InitCorrect == Init => IInv
<1> SUFFICES ASSUME Init PROVE IInv
  OBVIOUS
<1>1. TypeOK
  BY DEF Init, TypeOK, Commands
<1>2. Stages
  BY DEF Init, Stages, Nothing
<1> QED
  BY <1>1, <1>2 DEF IInv, Init, PathIsNamed

\* Giving up a window takes the document with it.
LEMMA AbandonCorrect ==
    ASSUME IInv, Abandon, UNCHANGED <<app, store>>
    PROVE  IInv'
BY DEF IInv, TypeOK, Stages, Nothing, PathIsNamed, Abandon, app, store

\* Startup up to the window's own creation.
LEMMA StartupCorrect ==
    ASSUME IInv,
           \/ \E c \in Commands : Launch(c)
           \/ RegisterTemplate \/ ProcessShellCommand \/ CreateDocument
    PROVE  IInv'
<1>1. ASSUME NEW c \in Commands, Launch(c) PROVE IInv'
  BY <1>1 DEF IInv, TypeOK, Stages, Nothing, PathIsNamed, Launch, Goes, store
<1>2. CASE RegisterTemplate
  BY <1>2 DEF IInv, TypeOK, Stages, Nothing, PathIsNamed, RegisterTemplate, store
<1>3. CASE ProcessShellCommand
  BY <1>3 DEF IInv, TypeOK, Stages, Nothing, PathIsNamed, ProcessShellCommand, Goes, app, store
<1>4. CASE CreateDocument
  <2>1. Untitled \in [path : Files \cup {None}] /\ Untitled # None
        /\ Untitled.path = None
    BY ClientAssumption DEF ClientAssumption, Untitled
  <2>2. CASE pc' = "frame"
    BY <1>4, <2>1, <2>2
       DEF IInv, TypeOK, Stages, Nothing, PathIsNamed, CreateDocument, app, store
  <2>3. CASE pc' = "exit"
    BY <1>4, <2>3
       DEF IInv, TypeOK, Stages, Nothing, PathIsNamed, CreateDocument, app, store
  <2> QED
    BY <1>4, <2>2, <2>3 DEF CreateDocument
<1> QED
  BY <1>1, <1>2, <1>3, <1>4

\* A control bar, made or not.
LEMMA BarCorrect ==
    ASSUME IInv, CreateToolBar \/ CreateStatusBar
    PROVE  IInv'
<1>1. CASE Abandon /\ UNCHANGED <<app, store>>
  BY <1>1, AbandonCorrect
<1>2. CASE CreateToolBar /\ ~Abandon
  <2>1. frame' = {"view", "tool bar"}
    BY <1>2 DEF IInv, Stages, CreateToolBar, Bar
  <2> QED
    BY <1>2, <2>1
       DEF IInv, TypeOK, Stages, Nothing, PathIsNamed, CreateToolBar, Bar, Children,
           app, store
<1>3. CASE CreateStatusBar /\ ~Abandon
  <2>1. frame' = Window
    BY <1>3 DEF IInv, Stages, CreateStatusBar, Bar, Window, Children
  <2> QED
    BY <1>3, <2>1
       DEF IInv, TypeOK, Stages, Nothing, PathIsNamed, CreateStatusBar, Bar, Window,
           Children, app, store
<1> QED
  BY <1>1, <1>2, <1>3 DEF CreateToolBar, CreateStatusBar, Bar

\* The windows, and the document's contents.
LEMMA WindowCorrect ==
    ASSUME IInv, PreCreateWindow \/ PreCreateView \/ OnCreate \/ Load
    PROVE  IInv'
<1>1. CASE Abandon /\ UNCHANGED <<app, store>>
  BY <1>1, AbandonCorrect
<1>2. CASE (PreCreateWindow \/ PreCreateView) /\ ~Abandon
  BY <1>2
     DEF IInv, TypeOK, Stages, Nothing, PathIsNamed, PreCreateWindow, PreCreateView,
         app, store
<1>3. CASE OnCreate /\ ~Abandon
  BY <1>3 DEF IInv, TypeOK, Stages, Nothing, PathIsNamed, OnCreate, app, store
<1>4. CASE Load /\ ~Abandon
  <2>a. doc \in [path : Files \cup {None}]
    BY <1>4 DEF Load, IInv, TypeOK, Stages
  <2>1. \/ doc' = [doc EXCEPT !.path = None] /\ named' = None
        \/ command \in Files /\ doc' = [path |-> command] /\ named' = command
    BY <1>4 DEF Load, OnNewDocument
  <2>2. doc' \in [path : Files \cup {None}] /\ named' \in Files \cup {None}
        /\ doc'.path = named'
    BY <2>a, <2>1
  <2>3. doc' # None
    BY <2>2, ClientAssumption DEF ClientAssumption
  <2> QED
    BY <1>4, <2>2, <2>3 DEF IInv, TypeOK, Stages, Nothing, PathIsNamed, Load
<1> QED
  BY <1>1, <1>2, <1>3, <1>4
     DEF PreCreateWindow, PreCreateView, OnCreate, Load, Abandon, app, store

\* Showing and drawing the window meets a document wherever it is drawn.
LEMMA ShowCorrect ==
    ASSUME IInv,
           Show \/ UpdateWindow \/ OnDraw \/ OnAppAbout \/ CloseAbout
    PROVE  IInv'
<1>1. CASE UpdateWindow \/ OnDraw
  <2>1. doc # None
    BY <1>1 DEF IInv, TypeOK, Stages, Nothing, UpdateWindow, OnDraw
  <2>2. ~GetDocumentDies /\ ~AssertValidDies
    BY <2>1 DEF GetDocumentDies, AssertValidDies, GetDocument
  <2>3. \/ pc = "update" /\ pc' = "running"
        \/ pc' = pc
    BY <1>1, <2>2 DEF UpdateWindow, OnDraw, Draws
  <2> QED
    BY <1>1, <2>3
       DEF IInv, TypeOK, Stages, Nothing, PathIsNamed, UpdateWindow, OnDraw,
           app, store
<1>2. CASE Show \/ OnAppAbout \/ CloseAbout
  BY <1>2
     DEF IInv, TypeOK, Stages, Nothing, PathIsNamed, Show, OnAppAbout,
         CloseAbout, Goes, app, store
<1> QED
  BY <1>1, <1>2

\* The document of the menu's commands is the one there was, its file is the
\* one it was given last, and writing it leaves contents in each file.
LEMMA CommandCorrect ==
    ASSUME IInv,
           \/ OnFileNew \/ OnFileSave
           \/ \E f \in Files : OnFileOpen(f) \/ OnFileSaveAs(f)
    PROVE  IInv'
<1>1. Command
  BY DEF OnFileNew, OnFileSave, OnFileOpen, OnFileSaveAs
<1>2. doc \in [path : Files \cup {None}] /\ named \in Files \cup {None}
      /\ doc # None
  BY <1>1 DEF IInv, TypeOK, Stages, Command
<1>3. \/ UNCHANGED <<doc, named>>
      \/ doc' = [doc EXCEPT !.path = None] /\ named' = None
      \/ \E f \in Files : doc' = [path |-> f] /\ named' = f
  BY DEF OnFileNew, OnNewDocument, OnFileSave, OnFileOpen, OnFileSaveAs, Opens
<1>4. /\ doc' \in [path : Files \cup {None}] /\ named' \in Files \cup {None}
      /\ PathIsNamed'
  BY <1>2, <1>3 DEF IInv, PathIsNamed
<1>5. doc' # None
  BY <1>4, ClientAssumption DEF ClientAssumption
<1>6. disk' \in [Files -> Contents]
  <2>1. disk \in [Files -> Contents]
    BY DEF IInv, TypeOK
  <2>2. Serialize \in Contents /\ Absent \in Contents
    BY DEF Serialize, Contents
  <2> QED
    BY <2>1, <2>2 DEF OnFileNew, OnFileSave, OnFileOpen, OnFileSaveAs
<1> QED
  BY <1>1, <1>4, <1>5, <1>6 DEF IInv, TypeOK, Stages, Nothing, Command, app

\* The end of a process, in order or not.
LEMMA EndCorrect ==
    ASSUME IInv, Exit \/ ExitInstance \/ Died
    PROVE  IInv'
<1>1. CASE Exit
  BY <1>1, AbandonCorrect DEF Exit
<1>2. CASE ExitInstance \/ Died
  BY <1>2
     DEF IInv, TypeOK, Stages, Nothing, PathIsNamed, ExitInstance, Died, Goes
<1> QED
  BY <1>1, <1>2

\* Every step of the client, and none, keeps the invariant.
LEMMA StepCorrect == IInv /\ [Next]_vars => IInv'
<1> SUFFICES ASSUME IInv, [Next]_vars PROVE IInv'
  OBVIOUS
<1>1. CASE UNCHANGED vars
  BY <1>1 DEF vars, app, store, IInv, TypeOK, Stages, Nothing, PathIsNamed
<1> QED
  BY <1>1, StartupCorrect, BarCorrect, WindowCorrect, ShowCorrect,
     CommandCorrect, EndCorrect
     DEF Next

\* So it holds always.
LEMMA Invariance == Spec => []IInv
BY InitCorrect, StepCorrect, PTL DEF Spec

\* Every variable of the client keeps its type.
THEOREM TypeCorrect == Spec => []TypeOK
<1>1. IInv => TypeOK
  BY DEF IInv
<1> QED
  BY <1>1, Invariance, PTL

\* Whatever fails, InitInstance brings up everything or leaves nothing.
THEOREM StartupWholeOrGone == Spec => []WholeOrGone
<1>1. IInv => WholeOrGone
  BY DEF IInv, Stages, Nothing, Window, WholeOrGone
<1> QED
  BY <1>1, Invariance, PTL

\* A frame window never outlives the document that its view shows.
THEOREM ViewKeepsDocument == Spec => []ViewHasDocument
<1>1. IInv => ViewHasDocument
  BY DEF IInv, TypeOK, Stages, Nothing, ViewHasDocument
<1> QED
  BY <1>1, Invariance, PTL

\* Without /dde on its command line the client follows no null pointer.
THEOREM CrashesOnlyByDde == Spec => []OnlyDdeCrashes
<1>1. IInv => OnlyDdeCrashes
  BY DEF IInv, Stages, OnlyDdeCrashes
<1> QED
  BY <1>1, Invariance, PTL

-----------------------------------------------------------------------------
(* What is written to.                                                     *)

\* A step that writes to a file writes to the document's own, or to one that the
\* user chooses in it.
LEMMA WritesOwn ==
    ASSUME IInv, [Next]_vars, NEW f \in Files, disk'[f] # disk[f]
    PROVE  f = named \/ OnFileSaveAs(f)
<1>1. CASE OnFileSave
  <2>1. f = doc.path /\ doc.path # None
    BY <1>1 DEF OnFileSave, IInv, TypeOK
  <2>2. doc # None
    BY <1>1 DEF OnFileSave, Command, IInv, Stages
  <2> QED
    BY <2>1, <2>2 DEF IInv, PathIsNamed
<1>2. ASSUME NEW g \in Files, OnFileSaveAs(g)
      PROVE  f = g
  BY <1>2 DEF OnFileSaveAs, IInv, TypeOK
<1>3. UNCHANGED disk \/ OnFileSave \/ \E g \in Files : OnFileSaveAs(g)
  BY DEF Next, Launch, RegisterTemplate, ProcessShellCommand, CreateDocument,
         PreCreateWindow, PreCreateView, OnCreate, CreateToolBar,
         CreateStatusBar, Bar, Load, Show, UpdateWindow, OnDraw, OnFileNew,
         OnFileOpen, OnAppAbout, CloseAbout, Exit, ExitInstance, Died,
         store, vars
<1> QED
  BY <1>1, <1>2, <1>3

\* No command writes to the file of a document that New took the place of.
THEOREM NothingElseWritten == Spec => WritesOnlyNamed
<1>1. IInv /\ [Next]_vars =>
        [\A f \in Files : disk'[f] # disk[f] => f = named \/ OnFileSaveAs(f)]_vars
  BY WritesOwn
<1> QED
  BY <1>1, Invariance, PTL DEF Spec, WritesOnlyNamed

-----------------------------------------------------------------------------
(* The handlers of a preview or search program.                            *)

\* The thumbnail has no font, or the one that exists.
Owned ==
    \/ fontDraw = Null /\ fonts = {}
    \/ fontDraw \in Fonts /\ fonts = {fontDraw}

\* The font of the caller is selected in its device context.
Untouched == dc = Stock /\ oldFont = Null

\* What OnDrawThumbnail has made and selected when it comes to each step.
Drawing ==
    \/ step \in {"idle", "create"} /\ Untouched /\ fontDraw = Null /\ fonts = {}
    \/ step = "select" /\ Untouched /\ Owned
    \/ step = "restore" /\ Untouched /\ fontDraw = Null /\ fonts = {}
    \/ /\ step = "restore" /\ Owned /\ fontDraw \in Fonts
       /\ dc = fontDraw /\ oldFont = Stock
    \/ step = "return" /\ dc = Stock /\ Owned

\* The inductive invariant.
HandlersInv == Drawing /\ NothingFromBefore

LEMMA HandlersInitCorrect == HandlersInit => HandlersInv
BY DEF HandlersInit, HandlersInv, Drawing, Untouched, NothingFromBefore

\* Each step of OnDrawThumbnail leads to what the next one expects.
LEMMA DrawingCorrect ==
    ASSUME Drawing,
           Begin \/ CreateFontIndirect \/ SelectFont \/ RestoreFont \/ Return
    PROVE  Drawing'
<1>1. CASE Begin
  BY <1>1 DEF Begin, GoesOn, Drawing, Untouched, Owned
<1>2. CASE CreateFontIndirect
  <2>1. /\ step' = "select" /\ dc' = dc /\ oldFont' = oldFont
        /\ Untouched /\ fontDraw = Null /\ fonts = {}
    BY <1>2 DEF CreateFontIndirect, GoesOn, Drawing
  <2>2. Owned'
    BY <1>2, <2>1 DEF CreateFontIndirect, Owned
  <2> QED
    BY <2>1, <2>2 DEF Drawing, Untouched
<1>3. CASE SelectFont
  <2>1. /\ step' = "restore" /\ fonts' = fonts /\ fontDraw' = fontDraw
        /\ Untouched /\ Owned
    BY <1>3 DEF SelectFont, GoesOn, Drawing
  <2>2. CASE fontDraw = Null
    <3>1. dc' = Stock /\ oldFont' = Null /\ fonts = {}
      BY <1>3, <2>1, <2>2, HandlersAssumption
         DEF SelectFont, Selected, Untouched, Owned
    <3> QED
      BY <2>1, <2>2, <3>1 DEF Drawing, Untouched
  <2>3. CASE fontDraw \in Fonts
    <3>1. dc' = fontDraw /\ oldFont' = Stock
      BY <1>3, <2>1, <2>3, HandlersAssumption
         DEF SelectFont, Selected, Untouched
    <3> QED
      BY <2>1, <2>3, <3>1 DEF Drawing, Owned
  <2> QED
    BY <2>1, <2>2, <2>3 DEF Owned
<1>4. CASE RestoreFont
  <2>1. /\ step = "restore" /\ step' = "return"
        /\ fonts' = fonts /\ fontDraw' = fontDraw
        /\ dc' = Selected(oldFont)
    BY <1>4 DEF RestoreFont, GoesOn
  <2>2. Owned
    BY <2>1 DEF Drawing, Owned
  <2>3. dc' = Stock
    BY <2>1, HandlersAssumption DEF Drawing, Untouched, Selected
  <2> QED
    BY <2>1, <2>2, <2>3 DEF Drawing, Owned
<1>5. CASE Return
  <2>1. step = "return" /\ dc = Stock /\ Owned
    BY <1>5 DEF Return, GoesOn, Drawing
  <2>2. dc # fontDraw
    BY <2>1, HandlersAssumption DEF Owned
  <2>3. fonts' = {}
    BY <1>5, <2>1, <2>2 DEF Return, Owned
  <2> QED
    BY <1>5, <2>1, <2>3 DEF Return, GoesOn, Drawing, Untouched
<1> QED
  BY <1>1, <1>2, <1>3, <1>4, <1>5

\* Every step of either handler, and none, keeps the invariant.
LEMMA HandlersCorrect == HandlersInv /\ [HandlersNext]_handling => HandlersInv'
<1> SUFFICES ASSUME HandlersInv, [HandlersNext]_handling PROVE HandlersInv'
  OBVIOUS
<1>1. CASE Begin \/ CreateFontIndirect \/ SelectFont \/ RestoreFont \/ Return
  <2>1. UNCHANGED search
    BY <1>1 DEF Begin, CreateFontIndirect, SelectFont, RestoreFont, Return
  <2> QED
    BY <1>1, <2>1, DrawingCorrect DEF HandlersInv, search, NothingFromBefore
<1>2. ASSUME NEW value, SetSearchContent(value) PROVE HandlersInv'
  BY <1>2 DEF SetSearchContent, PutChunk, drawing, HandlersInv, Drawing, Untouched, Owned,
              NothingFromBefore
<1>3. CASE UNCHANGED handling
  BY <1>3 DEF handling, drawing, search, HandlersInv, Drawing, Untouched, Owned,
              NothingFromBefore
<1> QED
  BY <1>1, <1>2, <1>3 DEF HandlersNext, InitializeSearchContent

\* So it holds always.
LEMMA HandlersInvariance == HandlersSpec => []HandlersInv
BY HandlersInitCorrect, HandlersCorrect, PTL DEF HandlersSpec

-----------------------------------------------------------------------------

\* OnDrawThumbnail gives the device context back as it was and leaves no font,
\* though it never looks at whether the font could be made.
THEOREM ContextReturned == HandlersSpec => []ContextGivenBack
<1>1. HandlersInv => ContextGivenBack
  BY DEF HandlersInv, Drawing, Untouched, ContextGivenBack
<1> QED
  BY <1>1, HandlersInvariance, PTL

\* However many contents could not be set, none of before the content was last
\* emptied is found.
THEOREM SearchForgets == HandlersSpec => []NothingFromBefore
<1>1. HandlersInv => NothingFromBefore
  BY DEF HandlersInv
<1> QED
  BY <1>1, HandlersInvariance, PTL

=============================================================================
