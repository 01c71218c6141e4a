------------------------------- MODULE Uploads -------------------------------
(* Uploads: a request brings a file and perhaps a thumbnail; both are put  *)
(* on disk under names of their own, inspected, moved when their place is  *)
(* elsewhere, and the answer tells where they are. A profile picture also  *)
(* goes to the user's row. Whoever rejects an upload deletes its files.    *)
(* Abstracted: formats; the limits; identities, which name one user.       *)
(* External: the file system, the rows.                                    *)
EXTENDS Naturals, FiniteSets

CONSTANTS
    Uploads,         \* requests
    Owners,          \* users with a row
    FileNames,       \* original names
    UnicodeNames,    \* those with letters or blanks a relocation refuses
    NoFile,
    MaxSecond,       \* bound: seconds that pass
    MaxUploadFaults  \* bound: unlinks, rows or inspections failing, restarts

ASSUME UploadsAssumption ==
    /\ UnicodeNames \subseteq FileNames
    /\ MaxSecond \in Nat /\ MaxUploadFaults \in Nat

VARIABLES
    disk,        \* path -> the part of an upload whose content it holds
    upload,      \* what each request is doing
    picture,     \* owner -> the path in the row, NoFile the sheet's own,
                 \* and the content when it was written
    second,
    withdrawn,   \* pictures' paths a rejected upload deleted
    uploadFaults

uploadVars == <<disk, upload, picture, second, withdrawn,
                uploadFaults>>

Parts == {"file", "thumbnail"}
Temp(r, p) == [dir |-> "temp", of |-> r, part |-> p]
\* Both names are chosen by the client: uploads may meet in one path.
UsersPath(n) == [dir |-> "users", name |-> n]
AccreditationPath(n) == [dir |-> "Accreditation", at |-> second, name |-> n]

NoUpload == [at |-> "idle", kind |-> "chat", owner |-> NoFile,
             names |-> [p \in Parts |-> NoFile], bad |-> "no",
             path |-> [p \in Parts |-> NoFile]]
Given(r) == {p \in Parts : upload[r].names[p] # NoFile}

UploadsTypeOK ==
    /\ \A r \in Uploads :
          /\ upload[r].at \in {"idle", "inspect", "place", "clean", "row",
                               "done"}
          /\ upload[r].kind \in {"chat", "Accreditation", "users"}
          /\ upload[r].names \in [Parts -> FileNames \cup {NoFile}]
          /\ upload[r].bad \in {"yes", "no"}
    /\ \A f \in DOMAIN disk : disk[f].of \in Uploads /\ disk[f].part \in Parts
    /\ second \in 0..MaxSecond /\ uploadFaults \in 0..MaxUploadFaults

UploadsInit ==
    /\ disk = <<>> /\ upload = [r \in Uploads |-> NoUpload]
    /\ picture = [o \in Owners |-> [path |-> NoFile, holds |-> NoFile]]
    /\ second = 0 /\ withdrawn = {}
    /\ uploadFaults = 0

UploadFault ==
    uploadFaults < MaxUploadFaults /\ uploadFaults' = uploadFaults + 1
Content(r, p) == [of |-> r, part |-> p]
Put(d, f, c) == [g \in DOMAIN d \cup {f} |-> IF g = f THEN c ELSE d[g]]
Without(d, fs) == [g \in DOMAIN d \ fs |-> d[g]]

(* multer stores the parts under names no other upload has.                *)
Receive(r, kind, o, names, bad) ==
    /\ upload[r].at = "idle" /\ names["file"] # NoFile
    /\ o \in Owners => kind = "users"
    /\ upload' = [upload EXCEPT ![r] = [NoUpload EXCEPT
          !.at = "inspect", !.kind = kind, !.owner = o, !.names = names,
          !.bad = bad, !.path = [p \in Parts |->
             IF names[p] = NoFile THEN NoFile ELSE Temp(r, p)]]]
    /\ LET new == {Temp(r, p) : p \in {q \in Parts : names[q] # NoFile}}
       IN disk' = [f \in DOMAIN disk \cup new |->
                      IF f \in new THEN Content(r, f.part) ELSE disk[f]]
    /\ UNCHANGED <<picture, second, withdrawn, uploadFaults>>

\* The paths of a rejected upload, as they are by now.
ToDelete(r) == {upload[r].path[p] : p \in Given(r)}

(* rejectWithCleanup: failures to delete are ignored.                      *)
Reject(r) ==
    /\ upload[r].at = "clean"
    /\ \E kept \in SUBSET (ToDelete(r) \cap DOMAIN disk) :
          /\ IF kept = {} THEN UNCHANGED uploadFaults ELSE UploadFault
          /\ disk' = Without(disk, ToDelete(r) \ kept)
          /\ withdrawn' = withdrawn \cup
                {f \in ToDelete(r) : f.dir = "users"}
    /\ upload' = [upload EXCEPT ![r] = [NoUpload EXCEPT !.at = "done"]]
    /\ UNCHANGED <<picture, second>>

To(r, where) == [upload EXCEPT ![r].at = where]

\* A part whose content is not what it claims to be.
Refuses(r) == upload[r].bad = "yes"

(* Both parts are inspected, in a worker and when that fails in process;   *)
(* an inspection that cannot read the file rejects it, too.                *)
Inspect(r) ==
    /\ upload[r].at = "inspect"
    /\ \/ ~Refuses(r) /\ upload' = To(r, "place") /\ UNCHANGED uploadFaults
       \/ Refuses(r) /\ upload' = To(r, "clean") /\ UNCHANGED uploadFaults
       \/ UploadFault /\ upload' = To(r, "clean")
    /\ UNCHANGED <<disk, picture, second, withdrawn>>

\* The parts not yet placed, the file before its thumbnail.
Unplaced(r) == {p \in Given(r) : upload[r].path[p] = Temp(r, p)}
IsNext(r, p) ==
    p \in Unplaced(r) /\ (p = "thumbnail" => "file" \notin Unplaced(r))

(* relocateUploadedFileToAccreditationSubdirectory: the name of its own is *)
(* refused when it has other characters; otherwise the second and the      *)
(* original name make the path, and whatever is there is replaced.         *)
Relocate(r, p) ==
    /\ upload[r].at = "place" /\ upload[r].kind = "Accreditation"
    /\ IsNext(r, p)
    /\ LET n == upload[r].names[p]
           f == AccreditationPath(n)
       IN IF n \in UnicodeNames
          THEN upload' = To(r, "clean") /\ UNCHANGED disk
          ELSE /\ disk' = Put(Without(disk, {Temp(r, p)}), f, Content(r, p))
               /\ upload' = [upload EXCEPT ![r].path[p] = f]
    /\ UNCHANGED <<picture, second, withdrawn, uploadFaults>>

\* mutated: the copy replaces what is there.
CopyOver(f, c) == Put(disk, f, c)

\* COPYFILE_EXCL: what is already at the path stays.
Copy(f, c) == IF f \in DOMAIN disk THEN disk ELSE Put(disk, f, c)

(* finalizeUsersUploadedFile: the file is copied to its original name, and *)
(* the name received is deleted; a file already there is used instead. A   *)
(* failure to delete after the copy leaves the copy.                       *)
Finalize(r, p) ==
    /\ upload[r].at = "place" /\ upload[r].kind = "users" /\ IsNext(r, p)
    /\ LET f == UsersPath(upload[r].names[p])
           there == f \in DOMAIN disk
       IN \/ /\ disk' = Without(Copy(f, Content(r, p)), {Temp(r, p)})
             /\ upload' = [upload EXCEPT ![r].path[p] = f]
             /\ UNCHANGED uploadFaults
          \/ /\ UploadFault /\ disk' = Copy(f, Content(r, p))
             /\ IF there
                THEN upload' = [upload EXCEPT ![r].path[p] = f]
                ELSE upload' = To(r, "clean")
    /\ UNCHANGED <<picture, second, withdrawn>>

\* A chat's upload stays where it is.
Placed(r) == upload[r].kind = "chat" \/ Unplaced(r) = {}
Tell(r) == upload' = [upload EXCEPT ![r] = [NoUpload EXCEPT !.at = "done"]]

Answer(r) ==
    /\ upload[r].at = "place" /\ Placed(r)
    /\ IF upload[r].kind = "users"
       THEN upload' = To(r, "row")
       ELSE Tell(r)
    /\ UNCHANGED <<disk, picture, second, withdrawn, uploadFaults>>

\* updateSubscribeUserProfilePicture, for a user with a row.
TakesPicture(o, f) ==
    /\ o \in Owners
    /\ picture' = [picture EXCEPT ![o] =
          [path |-> f, holds |-> IF f \in DOMAIN disk THEN disk[f]
                                 ELSE NoFile]]

(* Without a row, or when the write fails, the upload is rejected.         *)
Persist(r) ==
    /\ upload[r].at = "row"
    /\ LET o == upload[r].owner  f == upload[r].path["file"] IN
          \/ TakesPicture(o, f) /\ Tell(r) /\ UNCHANGED uploadFaults
          \/ /\ o \notin Owners /\ upload' = To(r, "clean")
             /\ UNCHANGED <<picture, uploadFaults>>
          \/ UploadFault /\ upload' = To(r, "clean") /\ UNCHANGED picture
    /\ UNCHANGED <<disk, second, withdrawn>>

(* syncSubscribeRows, every five minutes: the picture the sheet has for    *)
(* the user, which no upload has changed, replaces the one in the row.     *)
SyncPicture(o) ==
    /\ picture[o].path # NoFile
    /\ picture' = [picture EXCEPT ![o] = [path |-> NoFile, holds |-> NoFile]]
    /\ UNCHANGED <<disk, upload, second, withdrawn, uploadFaults>>

SecondPasses ==
    /\ second < MaxSecond /\ second' = second + 1
    /\ UNCHANGED <<disk, upload, picture, withdrawn, uploadFaults>>

\* Nobody clears what an upload cut off by a restart has left.
RestartUploads ==
    /\ UploadFault
    /\ upload' = [r \in Uploads |-> IF upload[r].at = "idle" THEN upload[r]
                                   ELSE [NoUpload EXCEPT !.at = "done"]]
    /\ UNCHANGED <<disk, picture, second, withdrawn>>

UploadsNext ==
    \/ SecondPasses \/ RestartUploads
    \/ \E o \in Owners : SyncPicture(o)
    \/ \E r \in Uploads :
          \/ Inspect(r) \/ Reject(r) \/ Answer(r) \/ Persist(r)
          \/ \E p \in Parts : Relocate(r, p) \/ Finalize(r, p)
          \/ \E kind \in {"chat", "Accreditation", "users"} :
             \E o \in Owners \cup {NoFile} :
             \E names \in [Parts -> FileNames \cup {NoFile}] :
             \E bad \in {"yes", "no"} : Receive(r, kind, o, names, bad)

UploadsSpec == UploadsInit /\ [][UploadsNext]_uploadVars

(* The picture in a user's row is still the one the row was given: another *)
(* upload under the same name neither replaces it nor takes it away,       *)
(* unless one that has come to use the same file is rejected.              *)
PictureStays ==
    \A o \in Owners : LET f == picture[o].path IN
        f \notin withdrawn \cup {NoFile}
        => f \in DOMAIN disk /\ disk[f] = picture[o].holds
=============================================================================
