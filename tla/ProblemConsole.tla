--------------------------- MODULE ProblemConsole ---------------------------
(***************************************************************************)
(* The page on which an admin lists, edits, creates and deletes problems   *)
(* (admin/problems/page.tsx), against the problems the API server stores.  *)
(*                                                                         *)
(* One form edits every problem.  Edit changes what the form saves to at   *)
(* once and its fields when the problem has been loaded; nothing is        *)
(* disabled meanwhile, and no request is cancelled.  A problem is loaded   *)
(* without its testcase groups, so the form shows the default ones; the    *)
(* upload mode and a ZIP chosen before stay as they are.                   *)
(*                                                                         *)
(* The server stores a problem in steps: its row, the testcase files, the  *)
(* groups.  The files of one upload are taken together.  An update also    *)
(* writes back the approval status of the row: module ApprovalDesk.        *)
(***************************************************************************)
EXTENDS ApiClient

CONSTANTS MaxProblems,   \* bound on the ids the server gives
          MaxClicks,     \* bound on the clicks that send a request or switch the mode
          MaxEdits       \* bound on the changes made to the form

ASSUME ProblemConsoleAssumption == /\ MaxProblems \in Nat /\ MaxProblems >= 2   \* see ProblemsInit
                                   /\ MaxClicks \in Nat /\ MaxEdits \in Nat

Ids     == 1..MaxProblems
Edits   == 0..MaxEdits      \* the change made last, 0 for none
Unsaved == MaxEdits + 1     \* groups and files this page has not saved

\* Whose fields the form shows; text stands for title to visibility, groups for the
\* testcase groups with the files chosen in them, files for one in every place.
Fields  == [of : {0} \cup Ids, text : Edits, groups : Edits, files : BOOLEAN]
Loaded(of, text) == [of |-> of, text |-> text, groups |-> 0, files |-> FALSE]

\* The fields resetForm fills in.
Blank == Loaded(0, 0)

\* What a save sends: upload is the change that chose the files, 0 for no files.
Sent     == [id : {0} \cup Ids, text : Edits, groups : Edits, upload : Edits]
Problem  == [text : Edits, groups : Edits \cup {Unsaved}, files : Edits \cup {Unsaved}]
New(text) == [text |-> text, groups |-> Unsaved, files |-> Unsaved]

VARIABLES stored,    \* the server: the problems, in the order of their ids
          erased,    \* the server: the problems that were deleted
          listed,    \* problems of the page
          editing,   \* editingId, 0 for a new problem
          fields,    \* what the form shows
          uploadMode, \* "individual" or "zip"
          zipFile,   \* the change that chose a ZIP, 0 if there is none
          edits,     \* changes made to the form so far (bound)
          status,    \* submitStatus: "none", "saving", "saved" or "failed"
          clicks,    \* clicks so far (bound)
          saved,     \* history: the save the page reported last
          raced,     \* history: it was sent while another save was on its way
          upset      \* history: the load that filled the form last was late or failed

uploadVars  == <<uploadMode, zipFile>>
problemPage == <<stored, erased, listed, editing, fields, uploadVars, edits, status, clicks,
                 saved, raced, upset>>
problemVars == <<problemPage, net>>

ProblemsInit == /\ stored = <<New(0), New(0)>> /\ erased = {}
                /\ listed = {} /\ editing = 0 /\ fields = Blank
                /\ uploadMode = "individual" /\ zipFile = 0 /\ edits = 0
                /\ status = "none" /\ clicks = 0
                /\ saved = [id |-> 0, text |-> 0, groups |-> 0, upload |-> 0]
                /\ raced = FALSE /\ upset = FALSE

\* The effect that runs when the page is mounted.
ProblemsMounted == <<Request("list", 0)>>

CountClick == clicks < MaxClicks /\ clicks' = clicks + 1

Click(r) == CountClick /\ Send(r)

-----------------------------------------------------------------------------
(* The form *)

\* Mutant: resetForm leaves the fields.
ResetHeading == /\ editing' = 0 /\ status' = "none" /\ upset' = FALSE
                /\ UNCHANGED <<fields, uploadVars>>

ResetForm == /\ editing' = 0 /\ fields' = Blank /\ status' = "none" /\ upset' = FALSE
             /\ uploadMode' = "individual" /\ zipFile' = 0

\* CANCEL is offered while a problem is edited.
CancelEdit == /\ editing # 0
              /\ ResetForm
              /\ UNCHANGED <<stored, erased, listed, edits, clicks, saved, raced, net>>

CountEdit == edits < MaxEdits /\ edits' = edits + 1

\* The inputs of the form.  With a change of the groups and of the files in them,
\* the places may all have a file or not.
TypeInForm ==
    /\ CountEdit
    /\ \/ fields' = [fields EXCEPT !.text = edits + 1]
       \/ \E chosen \in BOOLEAN :
              fields' = [fields EXCEPT !.groups = edits + 1, !.files = chosen]
    /\ UNCHANGED <<stored, erased, listed, editing, uploadVars, status, clicks, saved, raced,
                   upset, net>>

ChooseZip ==
    /\ uploadMode = "zip" /\ CountEdit
    /\ zipFile' \in {edits + 1, 0}
    /\ UNCHANGED <<stored, erased, listed, editing, fields, uploadMode, status, clicks, saved,
                   raced, upset, net>>

SwitchMode ==
    /\ CountClick
    /\ uploadMode' \in {"individual", "zip"} \ {uploadMode}
    /\ UNCHANGED <<stored, erased, listed, editing, fields, zipFile, edits, status, saved,
                   raced, upset, net>>

EditProblem(p) == /\ p \in listed
                  /\ Click(Request("detail", p))
                  /\ editing' = p
                  /\ UNCHANGED <<stored, erased, listed, fields, uploadVars, edits, status, saved,
                                 raced, upset>>

\* Whatever is edited by now, the form gets the fields that were loaded, and default
\* groups with no files; a load that fails leaves it as it is.
DetailAnswered(i) == /\ net[i].op = "detail" /\ ~Waiting(i)
                     /\ fields' = IF Handled(i) THEN Loaded(Data(i).of, Data(i).text) ELSE fields
                     /\ upset' = (Failed(i) \/ net[i].late \/ net[i].arg # editing)
                     /\ ReturnLoad(i, <<>>)
                     /\ UNCHANGED <<stored, erased, listed, editing, uploadVars, edits, status,
                                    clicks, saved, raced>>

\* The files a save sends along.
Upload == IF uploadMode = "zip" THEN zipFile ELSE IF fields.files THEN fields.groups ELSE 0

\* The button stays enabled while a save is on its way.
SubmitProblem == /\ uploadMode = "zip" => zipFile # 0
                 /\ Click(Request("save", [id |-> editing, text |-> fields.text,
                                           groups |-> fields.groups, upload |-> Upload]))
                 /\ status' = "saving"
                 /\ raced' = (InFlight({"save"}) # {})
                 /\ UNCHANGED <<stored, erased, listed, editing, fields, uploadVars, edits, saved,
                                upset>>

\* "Please select a ZIP file.": nothing is sent.
RefuseSubmit == /\ uploadMode = "zip" /\ zipFile = 0
                /\ status' = "none"
                /\ UNCHANGED <<stored, erased, listed, editing, fields, uploadVars, edits, clicks,
                               saved, raced, upset, net>>

\* Mutant: the report does not look at the answer.
SaveReported(i) == /\ net[i].op = "save" /\ (Handled(i) \/ Failed(i))
                   /\ status' = "saved"
                   /\ saved' = net[i].arg
                   /\ Return(i, <<Request("list", 0)>>)
                   /\ UNCHANGED <<stored, erased, listed, editing, fields, uploadVars, edits,
                                  clicks, raced, upset>>

\* A success is reported, then the list is loaded; the form stays as it is.
SaveAnswered(i) == /\ net[i].op = "save" /\ (Handled(i) \/ Failed(i))
                   /\ IF Handled(i)
                      THEN /\ status' = "saved"
                           /\ saved' = [net[i].arg EXCEPT !.id = Data(i)]
                           /\ Return(i, <<Request("list", 0)>>)
                      ELSE status' = "failed" /\ Return(i, <<>>) /\ UNCHANGED saved
                   /\ UNCHANGED <<stored, erased, listed, editing, fields, uploadVars, edits,
                                  clicks, raced, upset>>

-----------------------------------------------------------------------------
(* The list *)

ProblemsLoaded(i) == /\ net[i].op = "list" /\ ~Waiting(i)
                     /\ listed' = IF Handled(i) THEN Data(i) ELSE listed
                     /\ ReturnLoad(i, <<>>)
                     /\ UNCHANGED <<stored, erased, editing, fields, uploadVars, edits, status,
                                    clicks, saved, raced, upset>>

\* The handler keeps the editingId of the render it was clicked in.
DeleteProblem(p) == /\ p \in listed
                    /\ Click(Request("delete", [id |-> p, editing |-> editing]))
                    /\ UNCHANGED <<stored, erased, listed, editing, fields, uploadVars, edits,
                                   status, saved, raced, upset>>

DeleteAnswered(i) == /\ net[i].op = "delete" /\ ~Waiting(i)
                     /\ IF Handled(i) /\ net[i].arg.editing = net[i].arg.id
                        THEN ResetForm
                        ELSE UNCHANGED <<editing, fields, uploadVars, status, upset>>
                     /\ Return(i, IF Handled(i) THEN <<Request("list", 0)>> ELSE <<>>)
                     /\ UNCHANGED <<stored, erased, listed, edits, clicks, saved, raced>>

-----------------------------------------------------------------------------
(* The API server *)

Exist == DOMAIN stored \ erased

HandleRead(i) ==
    /\ Waiting(i)
    /\ \/ net[i].op = "list" /\ Answer(i, Exist)
       \/ net[i].op = "detail" /\ net[i].arg \in Exist
            /\ Answer(i, [of |-> net[i].arg, text |-> stored[net[i].arg].text])
    /\ UNCHANGED problemPage

\* A save that creates has its new id for data as soon as the row is there.
Creates(i) == net[i].arg.id = 0
Target(i)  == IF Creates(i) THEN Data(i) ELSE net[i].arg.id

\* POST: without files it is refused; else the row comes first.
InsertRow(i) ==
    /\ net[i].op = "save" /\ Waiting(i) /\ Creates(i) /\ net[i].arg.upload # 0
    /\ Len(stored) < MaxProblems
    /\ stored' = Append(stored, New(net[i].arg.text))
    /\ Read(i, Len(stored) + 1) \/ Fail(i)
    /\ UNCHANGED <<erased, listed, editing, fields, uploadVars, edits, status, clicks, saved, raced,
                   upset>>

\* The files are stored, then the groups, all of them or none; a PUT without files
\* leaves out both.
StoreTestcases(i) ==
    LET with == [stored EXCEPT ![Target(i)].files = net[i].arg.upload] IN
    /\ net[i].op = "save" /\ net[i].arg.upload # 0
    /\ IF Creates(i) THEN Midway(i) ELSE Waiting(i)
    /\ Target(i) \in Exist
    /\ \/ stored' = with /\ Fail(i)
       \/ /\ stored' = [with EXCEPT ![Target(i)].groups = net[i].arg.groups]
          /\ \/ Fail(i)
             \/ IF Creates(i) THEN Answer(i, Target(i)) ELSE Read(i, Target(i))
    /\ UNCHANGED <<erased, listed, editing, fields, uploadVars, edits, status, clicks, saved, raced,
                   upset>>

\* PUT: the row comes last.
UpdateRow(i) ==
    /\ net[i].op = "save" /\ ~Creates(i)
    /\ IF net[i].arg.upload = 0 THEN Waiting(i) ELSE Midway(i)
    /\ net[i].arg.id \in Exist
    /\ stored' = [stored EXCEPT ![net[i].arg.id].text = net[i].arg.text]
    /\ Answer(i, net[i].arg.id) \/ Fail(i)
    /\ UNCHANGED <<erased, listed, editing, fields, uploadVars, edits, status, clicks, saved, raced,
                   upset>>

HandleDelete(i) ==
    /\ net[i].op = "delete" /\ Waiting(i)
    /\ net[i].arg.id \in Exist
    /\ erased' = erased \cup {net[i].arg.id}
    /\ Answer(i, 0) \/ Fail(i)
    /\ UNCHANGED <<stored, listed, editing, fields, uploadVars, edits, status, clicks, saved, raced,
                   upset>>

ProblemRequestFails(i) == (Waiting(i) \/ Midway(i)) /\ Fail(i) /\ UNCHANGED problemPage

-----------------------------------------------------------------------------
ProblemsNext == \/ CancelEdit \/ TypeInForm \/ ChooseZip \/ SwitchMode
                \/ SubmitProblem \/ RefuseSubmit
                \/ \E p \in Ids : EditProblem(p) \/ DeleteProblem(p)
                \/ \E i \in DOMAIN net :
                      \/ DetailAnswered(i) \/ SaveAnswered(i) \/ ProblemsLoaded(i)
                      \/ DeleteAnswered(i) \/ HandleRead(i) \/ InsertRow(i)
                      \/ StoreTestcases(i) \/ UpdateRow(i)
                      \/ HandleDelete(i) \/ ProblemRequestFails(i)

-----------------------------------------------------------------------------
ProblemsTypeOK == /\ stored \in Seq(Problem) /\ Len(stored) <= MaxProblems /\ erased \subseteq Ids
                  /\ listed \subseteq Ids /\ editing \in {0} \cup Ids
                  /\ fields \in Fields /\ edits \in Edits
                  /\ uploadMode \in {"individual", "zip"} /\ zipFile \in Edits
                  /\ status \in {"none", "saving", "saved", "failed"}
                  /\ clicks \in 0..MaxClicks /\ raced \in BOOLEAN /\ upset \in BOOLEAN
                  /\ saved \in Sent

\* The problem the heading names is the one whose fields the form shows, unless
\* they are still being loaded, their load failed, or the answer to an earlier
\* click has come in last.  Cancelling, saving and deleting keep the two together.
\* This is about the fields and the files chosen one by one, which a load drops; a
\* ZIP chosen for another problem stays, and is saved to the one the heading names.
FormMatchesHeading == \/ fields.of = editing
                      \/ \E i \in InFlight({"detail"}) : net[i].arg = editing
                      \/ upset

\* When the page reports a save, the server holds what was sent and not what an
\* earlier click had sent, unless the two saves were on their way together: the
\* text, and if files were sent, these files and the groups sent with them.  Groups
\* sent without files are reported too, and not stored.
SavedMeansStored ==
    (status = "saved" /\ ~raced /\ InFlight({"save", "delete"}) = {} /\ saved.id \in Exist)
    => /\ stored[saved.id].text = saved.text
       /\ saved.upload # 0 => /\ stored[saved.id].groups = saved.groups
                             /\ stored[saved.id].files = saved.upload
=============================================================================
