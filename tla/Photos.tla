-------------------------------- MODULE Photos --------------------------------
(***************************************************************************)
(* The photos of a listing (property-image.service.ts): rows in the        *)
(* database, files and thumbnails in a bucket, which no transaction        *)
(* covers.  A file from before photos had folders may be shown by another  *)
(* user's listing too.  A request confirms or takes off one file, and the  *)
(* backfill works on one file at a time.                                   *)
(***************************************************************************)
EXTENDS Listings

CONSTANTS
    Files,     \* names that upload URLs are given out for, or were
    Legacy,    \* those from before photos had folders
    MaxImages  \* MAX_PROPERTY_IMAGES

ASSUME PhotosAssumption ==
    /\ IsFiniteSet(Files) /\ Legacy \subseteq Files
    /\ MaxImages \in Nat /\ Cardinality(Legacy) <= MaxImages

VARIABLES
    rows,      \* property_images: how many rows show each file, by listing
    small,     \* the rows with a thumbnail
    files,     \* what is stored
    thumbs,    \* the thumbnails that are stored
    uploaded,  \* files that were ever stored
    erased,    \* the owner's account is being deleted, and its files were
    met        \* files two requests worked on at once, or confirmed but not there

(* The last only remembers.                                                *)
stored == <<files, thumbs, uploaded>>
photoVars == <<rows, small, stored, erased, met>>

(* The listing, and one of another user.                                   *)
Shelves == {"mine", "theirs"}

PhotosTypeOK ==
    /\ rows \in [Shelves -> [Files -> Nat]]
    /\ small \subseteq Shelves \X Files
    /\ thumbs \subseteq uploaded /\ files \subseteq uploaded /\ uploaded \subseteq Files
    /\ erased \in BOOLEAN /\ met \subseteq Files

PhotosInit ==
    /\ rows \in [Shelves -> [Files -> 0..1]]
    /\ \A s \in Shelves, f \in Files : rows[s][f] = 1 <=> "photos" \in mix /\ f \in Legacy
    /\ files = {f \in Files : rows["mine"][f] = 1} /\ uploaded = files
    /\ small = {} /\ thumbs = {} /\ erased = FALSE /\ met = {}

Unphotographed == <<hidden, cacheVars, engaged, events, mix, owed, lost, late>>
Mine == {f \in Files : rows["mine"][f] > 0}
RowsOfMine(f) == rows["mine"][f]

WorkingOn(f, ops) ==
    \E q \in InFlight : req[q].op \in ops /\ f = req[q].data.file

PhotoAsked(r, op, step, shelf, f) ==
    [req EXCEPT ![r] = Asked(op, step, Owner, [shelf |-> shelf, file |-> f, small |-> FALSE])]

-----------------------------------------------------------------------------
(* The phone puts a file at the URL it was given.                          *)
Upload(f) ==
    /\ "photos" \in mix
    /\ f \notin uploaded
    /\ Cardinality(Mine) < MaxImages
    /\ files' = files \cup {f} /\ uploaded' = uploaded \cup {f}
    /\ UNCHANGED <<listingVars, rows, small, thumbs, erased, met>>

(* A fault: whatever the listing shows already.                            *)
Unattached(f) == TRUE

Attachable(f) == RowsOfMine(f) = 0

(* Only files of the listing's own folder.  They need not have been        *)
(* uploaded.                                                               *)
ConfirmUploads(r, f) ==
    /\ "photos" \in mix
    /\ Free(r)
    /\ listing.status \notin {"New", "Deleted"} /\ ~erased
    /\ f \notin Legacy
    /\ Attachable(f) /\ Cardinality(Mine) < MaxImages
    /\ req' = PhotoAsked(r, "confirm", "thumb", "mine", f)
    /\ met' = met \cup {g \in Files : WorkingOn(g, {"confirm"})}
                  \cup {g \in {f} : \/ \E h \in Files : WorkingOn(h, {"confirm"})
                                    \/ WorkingOn(f, {"takeOff"}) \/ f \notin files}
    /\ UNCHANGED <<listing, Unphotographed, crossed, misread, rows, small, stored, erased>>

(* A photo whose thumbnail cannot be made is shown without.                *)
TryCreate(r) ==
    /\ At(r, "thumb")
    /\ LET f == req[r].data.file
       IN  \/ /\ f \in files
              /\ thumbs' = thumbs \cup {f}
              /\ req' = [req EXCEPT ![r] = [@ EXCEPT !.step = "insert", !.data.small = TRUE]]
           \/ /\ req' = [req EXCEPT ![r] = IF @.op = "backfill" THEN Done
                                           ELSE [@ EXCEPT !.step = "insert"]]
              /\ UNCHANGED thumbs
    /\ UNCHANGED <<listing, Unphotographed, crossed, misread, rows, small, files, uploaded>>
    /\ UNCHANGED <<erased, met>>

(* The listing's row is not written; what the public sees is.  What is     *)
(* outdated is that of the row as it was read at first.                    *)
ShowsOther(r, next) ==
    /\ listing' = [listing EXCEPT !.text = r]
    /\ crossed' = (crossed \/ req[r].stale)
    /\ misread' = (misread \/ SawAnother(req[r]))
    /\ req' = [req EXCEPT ![r] =
                IF @.before.status # "Active" THEN next
                ELSE [@ EXCEPT !.step = "after", !.stale = FALSE]]

InsertRows(r) ==
    /\ At(r, "insert") /\ req[r].op = "confirm"
    /\ LET f == req[r].data.file
       IN  /\ rows' = [rows EXCEPT !["mine"][f] = @ + 1]
           /\ small' = IF req[r].data.small THEN small \cup {<<"mine", f>>} ELSE small
    /\ ShowsOther(r, Done)
    /\ UNCHANGED <<Unphotographed, stored, erased, met>>

-----------------------------------------------------------------------------
(* Taking off.                                                             *)

RemoveImages(r, shelf, f) ==
    /\ "photos" \in mix
    /\ Free(r)
    /\ rows[shelf][f] > 0
    /\ shelf = "mine" => listing.status \notin {"New", "Deleted"} /\ ~erased
    /\ req' = PhotoAsked(r, "takeOff", "takeOff", shelf, f)
    /\ met' = IF WorkingOn(f, {"confirm"}) THEN met \cup {f} ELSE met
    /\ UNCHANGED <<listing, Unphotographed, crossed, misread, rows, small, stored, erased>>

DeleteRows(r) ==
    /\ At(r, "takeOff")
    /\ LET f == req[r].data.file
           s == req[r].data.shelf
           still == [req[r] EXCEPT !.step = "still"]
       IN  /\ rows' = [rows EXCEPT ![s][f] = 0]
           /\ small' = small \ {<<s, f>>}
           /\ IF s = "mine" THEN ShowsOther(r, still)
              ELSE req' = [req EXCEPT ![r] = still] /\ UNCHANGED <<listing, crossed, misread>>
    /\ UNCHANGED <<Unphotographed, stored, erased, met>>

(* A fault: only the listing itself is asked.                              *)
StillShownHere(shelf, f) == rows[shelf][f] > 0

StillShown(shelf, f) == \E s \in Shelves : rows[s][f] > 0

FindStillShown(r) ==
    /\ At(r, "still")
    /\ req' = [req EXCEPT ![r] = IF StillShown(@.data.shelf, @.data.file) THEN Done
                                 ELSE [@ EXCEPT !.step = "files"]]
    /\ UNCHANGED <<listing, Unphotographed, crossed, misread, photoVars>>

RemoveUploadedFiles(gone) ==
    \/ /\ files' = files \ gone /\ thumbs' = thumbs \ gone
       /\ UNCHANGED uploaded
    \/ UNCHANGED stored

DeleteFilesQuietly(r) ==
    /\ At(r, "files")
    /\ RemoveUploadedFiles({req[r].data.file})
    /\ req' = [req EXCEPT ![r] = Done]
    /\ UNCHANGED <<listing, Unphotographed, crossed, misread, rows, small, erased, met>>

-----------------------------------------------------------------------------
(* The account is deleted: the files of its listings, but not those that   *)
(* another user's listing shows.                                           *)
FindOwnImages(r) ==
    /\ {"photos", "erase"} \subseteq mix
    /\ Free(r) /\ ~erased
    /\ req' = [req EXCEPT ![r] = Asked("erase", "shared", Owner, [file |-> None, gone |-> Mine])]
    /\ erased' = TRUE
    /\ UNCHANGED <<listing, Unphotographed, crossed, misread, rows, small, stored, met>>

FindShared(r) ==
    /\ At(r, "shared")
    /\ req' = [req EXCEPT ![r] =
                [req[r] EXCEPT !.step = "erase",
                               !.data.gone = {f \in req[r].data.gone : rows["theirs"][f] = 0}]]
    /\ UNCHANGED <<listing, Unphotographed, crossed, misread, photoVars>>

RemoveAllOwnedBy(r) ==
    /\ At(r, "erase")
    /\ RemoveUploadedFiles(req[r].data.gone)
    /\ req' = [req EXCEPT ![r] = Done]
    /\ UNCHANGED <<listing, Unphotographed, crossed, misread, rows, small, erased, met>>

-----------------------------------------------------------------------------
(* Thumbnails of photos that have none.                                    *)
Backfill(r, f) ==
    /\ {"photos", "backfill"} \subseteq mix
    /\ Free(r)
    /\ \E s \in Shelves : rows[s][f] > 0 /\ <<s, f>> \notin small
    /\ req' = PhotoAsked(r, "backfill", "thumb", "mine", f)
    /\ UNCHANGED <<listing, Unphotographed, crossed, misread, photoVars>>

(* Every row that shows the file shares its thumbnail.                     *)
UpdateRows(r) ==
    /\ At(r, "insert") /\ req[r].op = "backfill"
    /\ small' = small \cup {x \in Shelves \X {req[r].data.file} : rows[x[1]][x[2]] > 0}
    /\ req' = [req EXCEPT ![r] = Done]
    /\ UNCHANGED <<listing, Unphotographed, crossed, misread, rows, stored, erased, met>>

PhotosNext ==
    \/ \E f \in Files : Upload(f)
    \/ \E r \in Requests :
         \/ TryCreate(r) \/ InsertRows(r) \/ DeleteRows(r) \/ FindStillShown(r)
         \/ DeleteFilesQuietly(r) \/ FindOwnImages(r) \/ FindShared(r) \/ RemoveAllOwnedBy(r)
         \/ UpdateRows(r)
         \/ \E f \in Files : \/ ConfirmUploads(r, f) \/ Backfill(r, f)
                             \/ \E s \in Shelves : RemoveImages(r, s, f)

-----------------------------------------------------------------------------
(* "A file another listing still shows is kept" (removeImages): whatever   *)
(* was removed by whom, a photo that is shown has its file, and the        *)
(* thumbnail its row names, unless its file was confirmed while it was     *)
(* taken off, or was not there.  Deleting an account cannot take someone   *)
(* else's photos.                                                          *)
PhotoHasFile ==
    \A s \in Shelves, f \in Files \ met :
      rows[s][f] > 0 /\ ~(s = "mine" /\ erased) =>
        /\ f \in files
        /\ <<s, f>> \in small => f \in thumbs

(* "Confirming the same file again changes nothing" (confirmUploads), and  *)
(* a listing has at most so many photos, if requests did not confirm at    *)
(* once.                                                                   *)
PhotosFit ==
    met = {} => /\ \A f \in Files : rows["mine"][f] <= 1
                /\ Cardinality(Mine) <= MaxImages

(* Rows and files of photos agree, within the limit.                       *)
PhotosAreSound == PhotoHasFile /\ PhotosFit

=============================================================================
