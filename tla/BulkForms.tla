----------------------------- MODULE BulkForms ------------------------------
(***************************************************************************)
(* The containers of the bulk tab before and after a lookup: the word list *)
(* (bulkwhois/wordlistinput.ts), the file (bulkwhois/fileinput.ts) and the *)
(* export form (bulkwhois/auxiliary.ts, export.ts).  What the pages of a   *)
(* running lookup send to the engine is the module BulkSession's, what the *)
(* page of a single lookup does is SingleLookup's; the three share no      *)
(* state and are stated together at the end.                               *)
(*                                                                         *)
(* A container is shown and hidden by itself, so several may be at once.   *)
(* The handlers await the backend between reading the globals and using    *)
(* them, and the button that was clicked stays.                            *)
(*                                                                         *)
(* Abstracted: a text stands for its number of lines; of the export form   *)
(* it matters which fields hold what the preset for the analyser gives     *)
(* them.  Left out: dropped files (the shell of the application takes the  *)
(* drop, the page is not told of it), the file's confirmation page and the *)
(* suggested words, which the page cannot get to (see FileChosen; it has   *)
(* no button bwSuggestButton).                                             *)
(***************************************************************************)
EXTENDS SingleLookup

CONSTANTS
  InputText,   \* what may stand in the text area; "" is the empty text
  MaxAwaits    \* bound: handlers that await something

ASSUME BulkFormsAssumption ==
  "" \in InputText /\ MaxAwaits \in Nat

VARIABLES
  pages,      \* the containers that are not hidden
  textarea,   \* #bwWordlistTextareaDomains
  contents,   \* bwWordlistContents
  described,  \* the text the confirmation page speaks of
  awaits,     \* handlers that await something
  launched,   \* the lookup of the processing page: its text, and the text counted for it
  abandoned,  \* history: a page was left while a Start was still counting
  form        \* the export form: preset, fields as the analyser wants, locked

inputVars == <<pages, textarea, contents, described, awaits, launched, abandoned>>
exportVars == <<form>>

NoLaunch == [text |-> "", counted |-> ""]

InputInit ==
  /\ pages = {"entry"}
  /\ textarea = "" /\ contents = "" /\ described = ""
  /\ awaits = {}
  /\ launched = NoLaunch
  /\ abandoned = FALSE

\* Hide one container, show another.
Turn(from, to) == pages' = (pages \ {from}) \cup {to}

\* A handler of this kind awaits the backend; nr tells equal ones apart.
Await(rest, kind, text) ==
  \E nr \in 1..MaxAwaits :
    /\ \A a \in rest : a.nr # nr
    /\ \A n \in 1..(nr - 1) : \E a \in rest : a.nr = n
    /\ awaits' = rest \cup {[nr |-> nr, kind |-> kind, text |-> text]}

Counting == \E a \in awaits : a.kind = "start"

-----------------------------------------------------------------------------
(* The word list *)

ClickWordlist ==
  /\ "entry" \in pages
  /\ Turn("entry", "wordlistInput")
  /\ UNCHANGED <<textarea, contents, described, awaits, launched, abandoned>>

EditText(text) ==
  /\ "wordlistInput" \in pages
  /\ textarea' = text
  /\ UNCHANGED <<pages, contents, described, awaits, launched, abandoned>>

CancelWordlist ==
  /\ "wordlistInput" \in pages
  /\ Turn("wordlistInput", "entry")
  /\ UNCHANGED <<textarea, contents, described, awaits, launched, abandoned>>

\* handleWordlistConfirmation up to its awaits.
ConfirmWordlist ==
  /\ "wordlistInput" \in pages
  /\ contents' = textarea
  /\ IF textarea = ""
     THEN pages' = (pages \ {"wordlistInput", "wordlistConfirm"}) \cup {"entry"} /\ UNCHANGED awaits
     ELSE pages' = pages \ {"wordlistInput"} /\ Await(awaits, "describe", textarea)
  /\ UNCHANGED <<textarea, described, launched, abandoned>>

\* The lines are counted and the time is estimated.
Described(a) ==
  /\ a.kind = "describe"
  /\ described' = a.text
  /\ pages' = pages \cup {"wordlistConfirm"}
  /\ awaits' = awaits \ {a}
  /\ UNCHANGED <<textarea, contents, launched, abandoned>>

CancelConfirm ==
  /\ "wordlistConfirm" \in pages
  /\ Turn("wordlistConfirm", "entry")
  /\ abandoned' = (abandoned \/ Counting)
  /\ UNCHANGED <<textarea, contents, described, awaits, launched>>

\* Start counts the lines again and leaves the page as it is until then.
ClickStart ==
  /\ "wordlistConfirm" \in pages
  /\ Await(awaits, "start", contents)
  /\ UNCHANGED <<pages, textarea, contents, described, launched, abandoned>>

\* The table is sized by the count, the lookup is given the global as it is now.
LinesCounted(a) ==
  /\ a.kind = "start"
  /\ launched' = [text |-> contents, counted |-> a.text]
  /\ Turn("wordlistConfirm", "processing")
  /\ awaits' = awaits \ {a}
  /\ UNCHANGED <<textarea, contents, described, abandoned>>

-----------------------------------------------------------------------------
(* The file *)

ClickFile ==
  /\ "entry" \in pages
  /\ Turn("entry", "fileLoading")
  /\ Await(awaits, "dialog", "")
  /\ UNCHANGED <<textarea, contents, described, launched, abandoned>>

NoFileChosen(a) ==
  /\ a.kind = "dialog"
  /\ Turn("fileLoading", "entry")
  /\ awaits' = awaits \ {a}
  /\ UNCHANGED <<textarea, contents, described, launched, abandoned>>

\* The page has no element bwLoadingInfo, whose text is set first: the handler
\* ends with an exception and the tab stays on its loading page.
FileChosen(a) ==
  /\ a.kind = "dialog"
  /\ awaits' = awaits \ {a}
  /\ UNCHANGED <<pages, textarea, contents, described, launched, abandoned>>

\* An await fails: nothing is shown or hidden.
AwaitFails(a) ==
  /\ a.kind # "dialog"
  /\ awaits' = awaits \ {a}
  /\ UNCHANGED <<pages, textarea, contents, described, launched, abandoned>>

\* The stop dialog, without and with saving.
LeaveProcessing(to) ==
  /\ "processing" \in pages
  /\ Turn("processing", to)
  /\ abandoned' = (abandoned \/ Counting)
  /\ launched' = NoLaunch
  /\ UNCHANGED <<textarea, contents, described, awaits>>

CancelExport ==
  /\ "export" \in pages
  /\ Turn("export", "entry")
  /\ UNCHANGED <<textarea, contents, described, awaits, launched, abandoned>>

InputUser ==
  \/ ClickWordlist
  \/ \E text \in InputText : EditText(text)
  \/ CancelWordlist
  \/ ConfirmWordlist
  \/ CancelConfirm
  \/ ClickStart
  \/ ClickFile
  \/ \E to \in {"entry", "export"} : LeaveProcessing(to)
  \/ CancelExport

AwaitEnds(a) ==
  \/ Described(a)
  \/ LinesCounted(a)
  \/ NoFileChosen(a)
  \/ FileChosen(a)
  \/ AwaitFails(a)

\* Bound: once a page was left with a Start counting, the user waits for it.
InputNext ==
  \/ ~ abandoned /\ InputUser
  \/ \E a \in awaits : AwaitEnds(a)

InputSpec == InputInit /\ [][InputNext]_inputVars

-----------------------------------------------------------------------------
(* The export form *)

ExportField == {"filetype", "domains", "errors", "information", "reply"}
Preset == {"none", "availableonly", "allbutnoreply", "import"}

\* The options the page starts with; csv is what the analyser wants.
ExportInit == form = [preset |-> "none", analyser |-> {"filetype"}, locked |-> {}]

IsCsv(f) == "filetype" \in f.analyser

LockFields(f, isTxt) ==
  [f EXCEPT !.locked = @ \cup (IF isTxt THEN {} ELSE {"filetype", "domains", "errors"})
                         \cup (IF "reply" \in @ THEN {} ELSE {"information", "reply"})]

UnlockFields(f, isTxt) ==
  IF "reply" \in f.locked /\ IsCsv(f) THEN [f EXCEPT !.locked = {}]
  ELSE [f EXCEPT !.locked = IF isTxt THEN @ \ {"filetype"} ELSE @]

\* setExportOptions.
ApplyPreset(f, preset) ==
  CASE preset = "none" -> UnlockFields(f, FALSE)
    [] preset = "availableonly" ->
         [UnlockFields(f, FALSE) EXCEPT !.analyser = @ \cap {"filetype"}]
    [] preset = "allbutnoreply" ->
         [UnlockFields(f, FALSE) EXCEPT
            !.analyser = (@ \cap {"filetype"}) \cup {"domains", "errors"}]
    [] preset = "import" -> [LockFields(f, FALSE) EXCEPT !.analyser = ExportField]

ChoosePreset(preset) ==
  /\ preset # form.preset
  /\ form' = ApplyPreset([form EXCEPT !.preset = preset], preset)

\* setExportOptionsEx, the select showing the new type already.
ChooseFiletype ==
  /\ "filetype" \notin form.locked
  /\ form' = IF IsCsv(form)
             THEN LockFields([form EXCEPT !.analyser = @ \ {"filetype"}], TRUE)
             ELSE UnlockFields([form EXCEPT !.analyser = @ \cup {"filetype"}], TRUE)

\* A field that is not locked is set to the analyser's value or to another.
SetField(field) ==
  /\ field \notin form.locked
  /\ \E kept \in {form.analyser \cup {field}, form.analyser \ {field}} :
       form' = [form EXCEPT !.analyser = kept]

ExportNext ==
  \/ \E preset \in Preset : ChoosePreset(preset)
  \/ ChooseFiletype
  \/ \E field \in ExportField \ {"filetype"} : SetField(field)

ExportSpec == ExportInit /\ [][ExportNext]_exportVars

-----------------------------------------------------------------------------
(* Properties *)

\* As long as no page was left with a Start still counting, one container is
\* shown at a time, a confirmation page speaks of the text that will be looked
\* up, and a lookup is given the text its table was sized by: globals written
\* before an await are what they were after it.
LaunchesWhatIsShown ==
  ~ abandoned =>
    /\ Cardinality(pages) <= 1
    /\ "wordlistConfirm" \in pages => described = contents
    /\ launched.text = launched.counted

\* In whatever order presets, file types and fields are chosen, the fields that
\* are locked are those the choice calls for, and the preset for the analyser
\* exports just what the analyser reads.
LocksFollowChoice ==
  /\ form.locked =
       CASE form.preset = "import" -> ExportField
         [] form.preset # "import" /\ ~ IsCsv(form) -> {"information", "reply"}
         [] OTHER -> {}
  /\ form.preset = "import" => form.analyser = ExportField

\* The pages that look names up answer what they were asked: a search shows its
\* own answer and no other, a bulk lookup is given the text that was counted and
\* described for it, and an export the options its form can be seen to have.
PagesAnswerWhatIsAsked ==
  /\ SearchShowsItsAnswer
  /\ LaunchesWhatIsShown
  /\ LocksFollowChoice
=============================================================================
