------------------------------- MODULE FileStore -------------------------------
(***************************************************************************)
(* The files of a product: rows of product_attachments and objects of the  *)
(* storage, which are written by separate calls.  A file is made by three  *)
(* calls and undone by two more; a deletion reads, deletes the row and     *)
(* then the object; the primary image is cleared by one call and set by    *)
(* another.  (Company files are made in the same way.)                     *)
(***************************************************************************)
EXTENDS Naturals

CONSTANTS
    File,       \* files, each uploaded at most once
    Setter,     \* requests that choose the primary image
    MaxFaults   \* bound: calls that fail, answers that are lost, requests that die

VARIABLES
    row,        \* a file's row: none yet, bare (without its path), linked, or gone
    object,     \* is the file in the storage?
    creation,   \* where the request that makes the file is
    deletion,   \* where the request that deletes it is
    primary,    \* the files whose rows are marked as the primary image
    setter,     \* where a request that sets the primary image is, with its file
    faults,
    torn,       \* history: files whose link was written although its answer was an error
    spoilt,     \* history: files of which a call failed or a request died
    early       \* history: files whose deletion has read the row before it had a path

vars == <<row, object, creation, deletion, primary, setter, faults, torn, spoilt, early>>
-----------------------------------------------------------------------------
Init ==
    /\ row = [f \in File |-> "none"] /\ object = [f \in File |-> FALSE]
    /\ creation = [f \in File |-> "idle"] /\ deletion = [f \in File |-> "idle"]
    /\ primary = {} /\ setter = [s \in Setter |-> [step |-> "idle", file |-> CHOOSE f \in File : TRUE]]
    /\ faults = 0 /\ torn = {} /\ spoilt = {} /\ early = {}

Exists(f) == row[f] \in {"bare", "linked"}
Rests(step) == step \in {"idle", "done", "failed"}

Fault(f) ==
    /\ faults < MaxFaults /\ faults' = faults + 1
    /\ spoilt' = spoilt \cup {f}
NoFault == UNCHANGED <<faults, spoilt>>

DeleteRow(f) ==
    /\ row' = [row EXCEPT ![f] = "gone"]
    /\ primary' = primary \ {f}
KeepRow == UNCHANGED <<row, primary>>
Store(f, there) == object' = [object EXCEPT ![f] = there]

Making(f, from, to) ==
    /\ creation[f] = from /\ creation' = [creation EXCEPT ![f] = to]
    /\ UNCHANGED <<deletion, setter, early>>
-----------------------------------------------------------------------------
\* dbCreateAttachment: the row first, without a path.
Insert(f) ==
    /\ Making(f, "idle", "upload")
    /\ row' = [row EXCEPT ![f] = "bare"]
    /\ NoFault /\ UNCHANGED <<object, primary, torn>>

Upload(f) ==
    /\ \/ Making(f, "upload", "link") /\ Store(f, TRUE) /\ NoFault
       \/ Making(f, "upload", "undo") /\ Fault(f) /\ \E stored \in BOOLEAN : Store(f, stored)
    /\ KeepRow /\ UNCHANGED torn

\* The update that finds no row is an error as well.
Link(f) ==
    /\ \/ /\ Making(f, "link", "done") /\ row[f] = "bare" /\ NoFault
          /\ row' = [row EXCEPT ![f] = "linked"] /\ UNCHANGED torn
       \/ Making(f, "link", "unlink") /\ row[f] = "gone" /\ NoFault /\ UNCHANGED <<row, torn>>
       \/ /\ Making(f, "link", "unlink") /\ Fault(f)
          /\ \/ UNCHANGED <<row, torn>>
             \/ /\ row[f] = "bare" /\ row' = [row EXCEPT ![f] = "linked"]
                /\ torn' = torn \cup {f}
    /\ UNCHANGED <<object, primary>>

\* What becomes of the two calls that undo is not looked at.
Unlink(f) ==
    /\ Making(f, "unlink", "undo")
    /\ \/ Store(f, FALSE) /\ NoFault
       \/ Fault(f) /\ UNCHANGED object
    /\ KeepRow /\ UNCHANGED torn

Undo(f) ==
    /\ Making(f, "undo", "failed")
    /\ \/ DeleteRow(f) /\ NoFault
       \/ Fault(f) /\ KeepRow
    /\ UNCHANGED <<object, torn>>

DieMaking(f) ==
    /\ creation[f] \in {"upload", "link", "unlink", "undo"} /\ Making(f, creation[f], "failed")
    /\ Fault(f) /\ KeepRow /\ UNCHANGED <<object, torn>>
-----------------------------------------------------------------------------
Deleting(f, from, to) ==
    /\ deletion[f] = from /\ deletion' = [deletion EXCEPT ![f] = to]
    /\ UNCHANGED <<creation, setter, torn>>

\* dbDeleteAttachment reads the path, which a bare row does not have yet; a reading
\* that fails is not looked at, and gives no path either.
Look(f) ==
    /\ Exists(f)
    /\ \/ /\ Deleting(f, "idle", IF row[f] = "linked" THEN "row" ELSE "row only")
          /\ early' = IF row[f] = "linked" THEN early ELSE early \cup {f}
          /\ NoFault
       \/ Deleting(f, "idle", "row only") /\ Fault(f) /\ UNCHANGED early
    /\ KeepRow /\ UNCHANGED object

Drop(f) ==
    /\ \/ Deleting(f, "row", "object") /\ DeleteRow(f) /\ NoFault
       \/ Deleting(f, "row only", "done") /\ DeleteRow(f) /\ NoFault
       \/ /\ deletion[f] \in {"row", "row only"} /\ Deleting(f, deletion[f], "failed")
          /\ Fault(f) /\ KeepRow
    /\ UNCHANGED <<object, early>>

Sweep(f) ==
    /\ Deleting(f, "object", "done")
    /\ \/ Store(f, FALSE) /\ NoFault
       \/ Fault(f) /\ UNCHANGED object
    /\ KeepRow /\ UNCHANGED early
-----------------------------------------------------------------------------
Setting(s, from, to) ==
    /\ setter[s].step = from /\ setter' = [setter EXCEPT ![s].step = to]
    /\ UNCHANGED <<row, object, creation, deletion, torn, early>>

\* The request has found the row of an image.
Pick(s, f) ==
    /\ Exists(f) /\ setter[s].step \in {"idle", "failed"}
    /\ setter' = [setter EXCEPT ![s] = [step |-> "clear", file |-> f]]
    /\ NoFault
    /\ UNCHANGED <<row, object, creation, deletion, primary, torn, early>>

\* dbSetPrimaryImage
Clear(s) ==
    /\ Setting(s, "clear", "set")
    /\ primary' = {} /\ NoFault

\* The unique index refuses a second primary image; a row that is gone is no error.
SetPrimary(s) ==
    LET f == setter[s].file
    IN  /\ \/ /\ Exists(f) /\ primary \subseteq {f}
              /\ Setting(s, "set", "done") /\ primary' = {f}
           \/ Exists(f) /\ ~(primary \subseteq {f}) /\ Setting(s, "set", "failed") /\ UNCHANGED primary
           \/ ~Exists(f) /\ Setting(s, "set", "done") /\ UNCHANGED primary
        /\ NoFault

DieSetting(s) ==
    /\ setter[s].step \in {"clear", "set"} /\ Setting(s, setter[s].step, "failed")
    /\ Fault(setter[s].file) /\ UNCHANGED primary

Next ==
    \/ \E f \in File :
          \/ Insert(f) \/ Upload(f) \/ Link(f) \/ Unlink(f) \/ Undo(f) \/ DieMaking(f)
          \/ Look(f) \/ Drop(f) \/ Sweep(f)
    \/ \E s \in Setter :
          \/ \E f \in File : Pick(s, f)
          \/ Clear(s) \/ SetPrimary(s) \/ DieSetting(s)

Spec == Init /\ [][Next]_vars
-----------------------------------------------------------------------------
\* A row that has a path has its file, unless the link was taken for failed.  A file
\* that no row has is one of a failed call or a dead request, or its deletion began
\* before the row had a path.  What the creation undoes it leaves no trace of.
FilesMatchRows ==
    \A f \in File :
        /\ row[f] = "linked" /\ ~object[f] => f \in torn
        /\ object[f] /\ ~Exists(f) /\ Rests(creation[f]) /\ Rests(deletion[f]) =>
               f \in spoilt \cup early

\* Requests that choose a primary image at once leave one of theirs, as long as
\* none fails and no file goes.
PrimaryStays ==
    /\ (\A s \in Setter : Rests(setter[s].step)) /\ (\E s \in Setter : setter[s].step # "idle")
    /\ faults = 0 /\ \A f \in File : row[f] # "gone"
    => primary # {}
-----------------------------------------------------------------------------
\* Why: the path of a row comes after its file and goes before it, a row that is gone
\* does not come back, and who has cleared the primary image sets one.
TypeOK ==
    /\ row \in [File -> {"none", "bare", "linked", "gone"}] /\ object \in [File -> BOOLEAN]
    /\ creation \in [File -> {"idle", "upload", "link", "unlink", "undo", "done", "failed"}]
    /\ deletion \in [File -> {"idle", "row", "row only", "object", "done", "failed"}]
    /\ primary \subseteq File
    /\ setter \in [Setter -> [step : {"idle", "clear", "set", "done", "failed"},
                              file : File \cup {CHOOSE f \in File : TRUE}]]
    /\ faults \in Nat /\ torn \subseteq File /\ spoilt \subseteq File /\ early \subseteq File

Linking(f) ==
    /\ creation[f] = "idle" <=> row[f] = "none"
    /\ creation[f] = "idle" => ~object[f]
    /\ creation[f] = "upload" => row[f] # "linked"
    /\ creation[f] = "link" => row[f] # "linked" /\ object[f]
    /\ row[f] = "linked" => f \in torn \/ (creation[f] = "done" /\ object[f])
    /\ deletion[f] # "idle" => row[f] # "none"
    /\ deletion[f] \in {"row", "object"} => creation[f] \notin {"upload", "link"}
    /\ deletion[f] = "row" => row[f] \in {"linked", "gone"}
    /\ deletion[f] = "row only" => f \in spoilt \cup early
    /\ deletion[f] = "object" => row[f] = "gone"
    /\ f \in torn => f \in spoilt

Untroubled(f) ==
    f \notin spoilt \cup early =>
        /\ creation[f] \in {"idle", "upload", "link", "done"}
        /\ row[f] = "gone" => creation[f] = "done" /\ (object[f] => deletion[f] = "object")

Choosing ==
    /\ \A s \in Setter : setter[s].step \in {"clear", "set"} =>
           setter[s].file \in File /\ row[setter[s].file] # "none"
    /\ (\E s \in Setter : setter[s].step \in {"done", "failed"})
       /\ (\A s \in Setter : setter[s].step # "set")
       /\ faults = 0 /\ (\A f \in File : row[f] # "gone")
       => primary # {}

StoreInv == TypeOK /\ Choosing /\ \A f \in File : Linking(f) /\ Untroubled(f)
=============================================================================
