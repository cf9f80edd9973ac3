------------------------------ MODULE Profiles ------------------------------
(***************************************************************************)
(* The profiles of the application and the lookup history each keeps       *)
(* (commands/profiles.rs, commands/history.rs, log_lookup_history of       *)
(* commands/lookup.rs, profiles.ts and the profile buttons of the          *)
(* settings page).                                                         *)
(*                                                                         *)
(* A profile is a directory; the history of profile p is the file          *)
(* history-p.sqlite in it.  A command works out its path first and opens   *)
(* the file later, on a blocking thread.                                   *)
(*                                                                         *)
(* Abstracted: of the files of a profile only its histories are kept, so   *)
(* whether another file is there is left open.  Names are those            *)
(* sanitize_name accepts: with any other a command fails and changes       *)
(* nothing.  A row is the lookup it records; that it may be there twice    *)
(* is not kept.                                                            *)
(***************************************************************************)
EXTENDS Naturals, FiniteSets

CONSTANTS
  Profile,      \* names of profiles; "default" is one
  ArchiveName,  \* p -> the name an archive of p is imported under
  MaxLogged,    \* bound: lookups logged
  MaxJobs       \* bound: history commands between their path and their work

ASSUME ProfilesAssumption ==
  /\ "default" \in Profile
  /\ ArchiveName \in UNION {[P -> Profile] : P \in SUBSET Profile}
  /\ {MaxLogged, MaxJobs} \subseteq Nat

VARIABLES
  dirs,     \* dirs[p]: the directory of p: history files by the name they bear
  current,  \* what the file current-profile says; "" without one
  jobs,     \* history commands about to open their file
  archive,  \* archive[p]: what profile-export-p.zip holds
  logged    \* history: lookups logged so far

profileVars == <<dirs, current, jobs, archive, logged>>

NoFiles == [h \in {} |-> {}]

With(files, h, content) ==
  [k \in DOMAIN files \cup {h} |-> IF k = h THEN content ELSE files[k]]
OntoFiles(files, new) ==
  [k \in DOMAIN files \cup DOMAIN new |-> IF k \in DOMAIN new THEN new[k] ELSE files[k]]
Content(files, h) == IF h \in DOMAIN files THEN files[h] ELSE {}

\* create_dir_all.
Ensured(p) == IF p \in DOMAIN dirs THEN dirs ELSE With(dirs, p, NoFiles)

\* get_current_profile.
CurrentProfile == IF current = "" THEN "default" ELSE current

ProfilesInit ==
  /\ dirs = [p \in {} |-> NoFiles]
  /\ current = ""
  /\ jobs = {}
  /\ archive = [p \in {} |-> NoFiles]
  /\ logged = 0

(***************************************************************************)
(* profiles.rs.                                                            *)
(***************************************************************************)
\* The directory of the default profile is made when there is no other.
ListProfiles ==
  /\ dirs' = IF DOMAIN dirs = {} THEN Ensured("default") ELSE dirs
  /\ UNCHANGED <<current, jobs, archive, logged>>

\* The page always asks for a copy, and what is copied is the default
\* profile, file by file.  A file copied onto itself may end up empty.
CreateProfile(p) ==
  /\ \/ /\ p = "default" /\ "default" \in DOMAIN dirs
        /\ \E kept \in SUBSET DOMAIN dirs[p] :
             dirs' = [dirs EXCEPT ![p] = [h \in DOMAIN @ |-> IF h \in kept THEN @[h] ELSE {}]]
     \/ /\ p # "default" \/ "default" \notin DOMAIN dirs
        /\ LET copied == IF "default" \in DOMAIN dirs THEN dirs["default"] ELSE NoFiles
           IN dirs' = With(Ensured(p), p, OntoFiles(Ensured(p)[p], copied))
  /\ UNCHANGED <<current, jobs, archive, logged>>

\* fs::rename: onto a directory that is there it fails, unless that is empty
\* and the system allows it.
RenameProfile(old, new) ==
  /\ old \in DOMAIN dirs /\ old # new
  /\ new \in DOMAIN dirs => dirs[new] = NoFiles
  /\ dirs' = [p \in (DOMAIN dirs \ {old}) \cup {new} |-> IF p = new THEN dirs[old] ELSE dirs[p]]
  /\ UNCHANGED <<current, jobs, archive, logged>>

DeleteProfile(p) ==
  /\ p # "default" /\ p \in DOMAIN dirs
  /\ dirs' = [q \in DOMAIN dirs \ {p} |-> dirs[q]]
  /\ UNCHANGED <<current, jobs, archive, logged>>

\* Nothing asks whether the profile exists.
SetCurrentProfile(p) ==
  /\ current' = p
  /\ UNCHANGED <<dirs, jobs, archive, logged>>

ExportProfile(p) ==
  /\ p \in DOMAIN ArchiveName
  /\ dirs' = Ensured(p)
  /\ archive' = With(archive, p, dirs'[p])
  /\ UNCHANGED <<current, jobs, logged>>

\* Entry by entry, over files of the same name; an error half way leaves those
\* that were written.
ImportProfile(p) ==
  /\ p \in DOMAIN archive
  /\ LET name == ArchiveName[p] IN
     \E written \in SUBSET DOMAIN archive[p] :
       dirs' = With(Ensured(name), name,
                    OntoFiles(Ensured(name)[name], [h \in written |-> archive[p][h]]))
  /\ UNCHANGED <<current, jobs, archive, logged>>

(***************************************************************************)
(* The commands on the history.                                            *)
(***************************************************************************)
\* The first half of a command: the current profile and its directory.
FindHistory(work) ==
  /\ Cardinality(jobs) < MaxJobs
  /\ dirs' = Ensured(CurrentProfile)
  /\ jobs' = jobs \cup {[profile |-> CurrentProfile, work |-> work]}
  /\ UNCHANGED <<current, archive>>

\* log_lookup_history, after the lookup.
LogLookup ==
  /\ logged < MaxLogged
  /\ logged' = logged + 1
  /\ FindHistory([op |-> "add",
                  rows |-> {[id |-> logged', under |-> CurrentProfile, merged |-> FALSE]}])

\* db_gui_history_clear goes on only if the file exists.
ClearHistory ==
  /\ CurrentProfile \in DOMAIN Ensured(CurrentProfile)[CurrentProfile]
  /\ FindHistory([op |-> "clear"])
  /\ UNCHANGED logged

\* history_merge of any history the user picks.
MergeHistory(p, h) ==
  /\ FindHistory([op |-> "merge", dir |-> p, file |-> h])
  /\ UNCHANGED logged

\* What a command inserts: a file to merge may be gone.
Inserted(work) ==
  CASE work.op = "add"   -> work.rows
    [] work.op = "merge" -> IF work.dir \in DOMAIN dirs
                            THEN {[r EXCEPT !.merged = TRUE] :
                                    r \in Content(dirs[work.dir], work.file)}
                            ELSE {}

\* Every profile's history has the same name.
DoHistoryUnnamed(job) ==
  /\ jobs' = jobs \ {job}
  /\ LET p == job.profile IN
     \/ /\ p \in DOMAIN dirs /\ job.work.op = "clear"
        /\ dirs' = [dirs EXCEPT ![p] = With(@, "default", {})]
     \/ /\ p \in DOMAIN dirs /\ job.work.op # "clear"
        /\ \E done \in SUBSET Inserted(job.work) :
             dirs' = [dirs EXCEPT ![p] = With(@, "default", Content(@, "default") \cup done)]
     \/ /\ p \notin DOMAIN dirs
        /\ UNCHANGED dirs
  /\ UNCHANGED <<current, archive, logged>>

\* The second half, in the directory as it is by then: without it the file
\* cannot be opened, and the error of a logged lookup is dropped.  Rows are
\* inserted one by one, and an error keeps those inserted.
DoHistory(job) ==
  /\ jobs' = jobs \ {job}
  /\ LET p == job.profile IN
     \/ /\ p \in DOMAIN dirs /\ job.work.op = "clear"
        /\ dirs' = [dirs EXCEPT ![p] = With(@, p, {})]
     \/ /\ p \in DOMAIN dirs /\ job.work.op # "clear"
        /\ \E done \in SUBSET Inserted(job.work) :
             dirs' = [dirs EXCEPT ![p] = With(@, p, Content(@, p) \cup done)]
     \/ /\ p \notin DOMAIN dirs
        /\ UNCHANGED dirs
  /\ UNCHANGED <<current, archive, logged>>

ProfilesNext ==
  \/ ListProfiles
  \/ \E p \in Profile :
       \/ CreateProfile(p)
       \/ DeleteProfile(p)
       \/ SetCurrentProfile(p)
       \/ ExportProfile(p)
       \/ ImportProfile(p)
       \/ \E q \in Profile : RenameProfile(p, q) \/ MergeHistory(p, q)
  \/ LogLookup
  \/ ClearHistory
  \/ \E job \in jobs : DoHistory(job)

ProfilesSpec == ProfilesInit /\ [][ProfilesNext]_profileVars

-----------------------------------------------------------------------------
(* Property *)

\* What db_gui_history_get shows of the profile p.
Shown(p) == IF p \in DOMAIN dirs THEN Content(dirs[p], p) ELSE {}

\* The history of a profile shows only lookups made while a profile of that name
\* was the current one, or merged into it: not those of another profile that
\* was copied, renamed or imported to its place (the name is in the file name).
HistoryKeepsApart ==
  \A p \in DOMAIN dirs : \A r \in Shown(p) : r.under = p \/ r.merged
=============================================================================
