--------------------------- MODULE SharedHandlers ---------------------------
(***************************************************************************)
(* The handlers of MFC_ClientDoc.cpp that a preview or search program      *)
(* compiles in with SHARED_HANDLERS: the thumbnail, drawn into a device    *)
(* context of the caller's, and the chunk of search content.               *)
(***************************************************************************)

CONSTANTS
    Fonts,          \* handles a font can get from GDI
    Stock,          \* the font selected into the caller's device context
    SearchContents, \* contents to search for, besides none
    NoContent,      \* an empty string; no chunk
    Null

ASSUME HandlersAssumption ==
    /\ Stock \notin Fonts /\ Null \notin Fonts \cup {Stock}
    /\ NoContent \notin SearchContents

VARIABLES
    step,       \* the next step of OnDrawThumbnail
    dc,         \* the font selected into the device context
    fonts,      \* the handles that exist
    fontDraw,   \* the handle of the local font object
    oldFont,    \* pOldFont
    chunk,      \* the chunk of PKEY_Search_Contents
    since       \* the contents given to SetSearchContent since an empty one

drawing  == <<step, dc, fonts, fontDraw, oldFont>>
search   == <<chunk, since>>
handling == <<drawing, search>>

HandlersInit ==
    /\ step = "idle" /\ dc = Stock /\ fonts = {}
    /\ fontDraw = Null /\ oldFont = Null
    /\ chunk = NoContent /\ since = {}

GoesOn(from, to) == step = from /\ step' = to

-----------------------------------------------------------------------------

\* The background, and the description of the font to make.
Begin ==
    /\ GoesOn("idle", "create")
    /\ UNCHANGED <<dc, fonts, fontDraw, oldFont, search>>

\* Its result is not looked at.
CreateFontIndirect ==
    /\ GoesOn("create", "select")
    /\ \/ \E f \in Fonts \ fonts : fonts' = fonts \cup {f} /\ fontDraw' = f
       \/ UNCHANGED <<fonts, fontDraw>>
    /\ UNCHANGED <<dc, oldFont, search>>

\* SelectObject of no font returns null and leaves the font that is selected.
Selected(f) == IF f = Null THEN dc ELSE f

SelectFont ==
    /\ GoesOn("select", "restore")
    /\ dc' = Selected(fontDraw)
    /\ oldFont' = IF fontDraw = Null THEN Null ELSE dc
    /\ UNCHANGED <<fonts, fontDraw, search>>

\* MUTANT: the old font is not selected again.
RestoreFont_Forgotten ==
    /\ GoesOn("restore", "return")
    /\ UNCHANGED <<dc, fonts, fontDraw, oldFont, search>>

\* After the text is drawn.
RestoreFont ==
    /\ GoesOn("restore", "return")
    /\ dc' = Selected(oldFont)
    /\ UNCHANGED <<fonts, fontDraw, oldFont, search>>

\* ~CFont: GDI does not delete a font that is selected.
Return ==
    /\ GoesOn("return", "idle")
    /\ fonts' = IF dc = fontDraw THEN fonts ELSE fonts \ {fontDraw}
    /\ fontDraw' = Null /\ oldFont' = Null
    /\ UNCHANGED <<dc, search>>

\* The chunk cannot be allocated, SetTextValue or SetChunkValue fails, or none
\* of them does, and no result is looked at: a chunk with the text, the one of
\* before or no text is left.
PutChunk(value) == chunk' \in {value, chunk, NoContent}

\* MUTANT: an empty content is passed over.
SetSearchContent_IgnoresEmpty(value) ==
    /\ step = "idle"
    /\ \/ value = NoContent /\ since' = {} /\ UNCHANGED chunk
       \/ value # NoContent /\ since' = since \cup {value} /\ PutChunk(value)
    /\ UNCHANGED drawing

SetSearchContent(value) ==
    /\ step = "idle"
    /\ \/ value = NoContent /\ since' = {} /\ chunk' = NoContent
       \/ value # NoContent /\ since' = since \cup {value} /\ PutChunk(value)
    /\ UNCHANGED drawing

\* The content is never set from the document: the string stays empty.
InitializeSearchContent == SetSearchContent(NoContent)

HandlersNext ==
    \/ Begin \/ CreateFontIndirect \/ SelectFont \/ RestoreFont \/ Return
    \/ InitializeSearchContent
    \/ \E value \in SearchContents : SetSearchContent(value)

HandlersSpec == HandlersInit /\ [][HandlersNext]_handling

-----------------------------------------------------------------------------
(* Correctness.                                                            *)

\* Whether the font could be made or not, the caller gets its device context
\* back with the font it had, and no font is left behind.
ContextGivenBack == step = "idle" => dc = Stock /\ fonts = {}

\* However many contents could not be set, a search finds none that was set
\* before the content was last emptied.  (It may find one that was replaced.)
NothingFromBefore == chunk \in {NoContent} \cup since

=============================================================================
