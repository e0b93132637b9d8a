----------------------------- MODULE TouchFile -----------------------------
(***************************************************************************)
(* brillo::TouchFile(path, new_file_permissions, uid, gid) and its helpers *)
(* RegularFileOrDelete and TouchFileInternal (src/brillo/file_utils.cc).   *)
(* One call runs against a file system in which another process may        *)
(* replace or remove the entity at |path| between any two system calls.   *)
(* An entity is a regular file, a directory or a symlink, with an owner    *)
(* (uid and gid matching, or one of them not) and a mode.  Every system    *)
(* call the code checks may fail.                                          *)
(***************************************************************************)
EXTENDS Integers

CONSTANTS
  PermInputs,       \* new_file_permissions values a caller passes
  MaxInterference   \* replacements by the other process in one behaviour

ASSUME TouchAssumption ==
  PermInputs \subseteq Int /\ MaxInterference \in Nat

VARIABLES
  path_ent,      \* entity now at |path|, or None
  ents,          \* entity id -> [kind, owner, mode]
  next_ent,      \* next entity id
  pc,            \* where in TouchFile the call is
  perms,         \* new_file_permissions of the call
  fd,            \* entity the call holds open, or None
  path_not_empty,\* RegularFileOrDelete's path_not_empty
  seen,          \* entity at |path| when RegularFileOrDelete opened it
  deleted,       \* entities the call deleted
  created,       \* entity the call created, or None
  ret,           \* return value
  interference   \* replacements made by the other process

vars == <<path_ent, ents, next_ent, pc, perms, fd, path_not_empty, seen,
          deleted, created, ret, interference>>

None == -1
kPermissions600 == 384
Kinds == {"regular", "directory", "symlink"}
Owners == {"match", "uid_differs", "gid_differs"}
\* The modes an entity put there by someone else may have.
Modes == {kPermissions600, 0}
Entities == [kind : Kinds, owner : Owners, mode : Modes]

\* new_file_permissions & ~kPermissions777 is non-zero.
IllegalPermissions(p) == p \notin 0 .. 511

Init ==
  /\ \/ path_ent = None /\ ents = [i \in {} |-> CHOOSE e \in Entities : TRUE]
     \/ path_ent = 0 /\ \E e \in Entities : ents = [i \in {0} |-> e]
  /\ next_ent = 1
  /\ pc = "start"
  /\ perms \in PermInputs
  /\ fd = None
  /\ path_not_empty = FALSE
  /\ seen = None
  /\ deleted = {}
  /\ created = None
  /\ ret = FALSE
  /\ interference = 0

Return(r) == pc' = "done" /\ ret' = r

\* base::DeleteFile(path): removes whatever is at |path| now.
DeletePath ==
  /\ path_ent' = None
  /\ deleted' = IF path_ent = None THEN deleted ELSE deleted \cup {path_ent}

\* Mutant of Start: the permission check is left out.
StartWithoutPermissionCheck ==
  /\ pc = "start"
  /\ seen' = path_ent
  /\ pc' = "fstat"
  /\ \/ /\ path_ent = None
        /\ fd' = None /\ path_not_empty' = FALSE
     \/ /\ path_ent # None /\ ents[path_ent].kind = "symlink"
        /\ fd' = None /\ path_not_empty' = TRUE
     \/ /\ path_ent # None /\ ents[path_ent].kind # "symlink"
        /\ \/ fd' = path_ent /\ path_not_empty' = TRUE
           \/ fd' = None /\ path_not_empty' = FALSE
  /\ UNCHANGED <<path_ent, ents, next_ent, perms, deleted, created, interference, ret>>

\* TouchFile's permission check, then RegularFileOrDelete's
\* openat(O_RDONLY | O_NOFOLLOW): ELOOP on a symlink, ENOENT on nothing,
\* and it may fail on an entity it may not read (errno is then not ELOOP).
Start ==
  /\ pc = "start"
  /\ seen' = path_ent
  /\ IF IllegalPermissions(perms)
       THEN Return(FALSE) /\ UNCHANGED <<fd, path_not_empty>>
       ELSE /\ pc' = "fstat"
            /\ \/ /\ path_ent = None
                  /\ fd' = None /\ path_not_empty' = FALSE
               \/ /\ path_ent # None /\ ents[path_ent].kind = "symlink"
                  /\ fd' = None /\ path_not_empty' = TRUE
               \/ /\ path_ent # None /\ ents[path_ent].kind # "symlink"
                  /\ \/ fd' = path_ent /\ path_not_empty' = TRUE
                     \/ fd' = None /\ path_not_empty' = FALSE
            /\ UNCHANGED ret
  /\ UNCHANGED <<path_ent, ents, next_ent, perms, deleted, created, interference>>

\* Mutant of CheckExisting: the st_gid comparison is left out.
CheckExistingIgnoringGid ==
  /\ pc = "fstat"
  /\ \E fstat_ok \in BOOLEAN :
       IF /\ fd # None /\ fstat_ok
          /\ ents[fd].kind = "regular" /\ ents[fd].owner # "uid_differs"
         THEN Return(TRUE) /\ UNCHANGED <<path_ent, deleted>>
         ELSE IF path_not_empty
           THEN \E delete_ok \in BOOLEAN :
                  IF delete_ok
                    THEN DeletePath /\ pc' = "create" /\ UNCHANGED ret
                    ELSE Return(FALSE) /\ UNCHANGED <<path_ent, deleted>>
           ELSE pc' = "create" /\ UNCHANGED <<path_ent, deleted, ret>>
  /\ UNCHANGED <<ents, next_ent, perms, fd, path_not_empty, seen, created,
                 interference>>

\* fstat(fd): a regular file owned by uid and gid is kept (kRegularFile,
\* and TouchFile returns true without touching it); otherwise anything that
\* was found is deleted (recursively), and kEmpty goes on to create.
CheckExisting ==
  /\ pc = "fstat"
  /\ \E fstat_ok \in BOOLEAN :
       IF /\ fd # None /\ fstat_ok
          /\ ents[fd].kind = "regular" /\ ents[fd].owner = "match"
         THEN Return(TRUE) /\ UNCHANGED <<path_ent, deleted>>
         ELSE IF path_not_empty
           THEN \E delete_ok \in BOOLEAN :
                  IF delete_ok
                    THEN DeletePath /\ pc' = "create" /\ UNCHANGED ret
                    ELSE Return(FALSE) /\ UNCHANGED <<path_ent, deleted>>
           ELSE pc' = "create" /\ UNCHANGED <<path_ent, deleted, ret>>
  /\ UNCHANGED <<ents, next_ent, perms, fd, path_not_empty, seen, created,
                 interference>>

\* base::CreateDirectory(path.DirName()), then openat(O_CREAT | O_EXCL |
\* O_NOFOLLOW, 0600): fails if anything (a symlink too) is at |path|.
Create ==
  /\ pc = "create"
  /\ \E mkdir_ok, open_ok \in BOOLEAN :
       IF mkdir_ok /\ open_ok /\ path_ent = None
         THEN /\ path_ent' = next_ent
              /\ ents' = [i \in DOMAIN ents \cup {next_ent} |->
                            IF i = next_ent
                              THEN [kind |-> "regular", owner |-> "match",
                                    mode |-> kPermissions600]
                              ELSE ents[i]]
              /\ next_ent' = next_ent + 1
              /\ fd' = next_ent
              /\ created' = next_ent
              /\ pc' = "chmod"
              /\ UNCHANGED ret
         ELSE Return(FALSE) /\ UNCHANGED <<path_ent, ents, next_ent, fd, created>>
  /\ UNCHANGED <<perms, path_not_empty, seen, deleted, interference>>

\* fchmod(fd, new_file_permissions) on the new file; on failure
\* base::DeleteFile(path, false), whose result is ignored: it may fail and
\* leave the file at |path|.  Either way the call returns false.
Chmod ==
  /\ pc = "chmod"
  /\ \/ /\ ents' = [ents EXCEPT ![fd].mode = perms]
        /\ Return(TRUE)
        /\ UNCHANGED <<path_ent, deleted>>
     \/ /\ \/ DeletePath
           \/ UNCHANGED <<path_ent, deleted>>
        /\ Return(FALSE)
        /\ UNCHANGED ents
  /\ UNCHANGED <<next_ent, perms, fd, path_not_empty, seen, created, interference>>

\* Another process removes the entity at |path| or puts a new one there.
Interfere ==
  /\ pc # "done"
  /\ interference < MaxInterference
  /\ interference' = interference + 1
  /\ \/ path_ent' = None /\ UNCHANGED <<ents, next_ent>>
     \/ \E e \in Entities :
          /\ path_ent' = next_ent
          /\ ents' = [i \in DOMAIN ents \cup {next_ent} |->
                        IF i = next_ent THEN e ELSE ents[i]]
          /\ next_ent' = next_ent + 1
  /\ UNCHANGED <<pc, perms, fd, path_not_empty, seen, deleted, created, ret>>

Next == Start \/ CheckExisting \/ Create \/ Chmod \/ Interfere

Spec == Init /\ [][Next]_vars
-----------------------------------------------------------------------------
(* Properties *)

\* The variables keep their types; no mode ever has a bit outside 0777.
TypeOK ==
  /\ DOMAIN ents \subseteq 0 .. next_ent - 1
  /\ ents \in [DOMAIN ents -> [kind : Kinds, owner : Owners, mode : 0 .. 511]]
  /\ path_ent \in DOMAIN ents \cup {None}
  /\ pc \in {"start", "fstat", "create", "chmod", "done"}
  /\ fd \in DOMAIN ents \cup {None}
  /\ seen \in DOMAIN ents \cup {None}
  /\ created \in DOMAIN ents \cup {None}
  /\ deleted \subseteq DOMAIN ents
  /\ path_not_empty \in BOOLEAN /\ ret \in BOOLEAN
  /\ interference \in 0 .. MaxInterference

\* When nothing else touches |path|, TouchFile returns true only if a
\* regular file owned by uid and gid is then at |path|, and one it
\* created itself has exactly new_file_permissions (not the 0600 it was
\* opened with).
TouchSuccessPostcondition ==
  pc = "done" /\ ret =>
    /\ path_ent # None
    /\ ents[path_ent].kind = "regular" /\ ents[path_ent].owner = "match"
    /\ created # None => path_ent = created /\ ents[created].mode = perms

\* The contract says only a non-matching entity is replaced: TouchFile
\* deletes only the entity RegularFileOrDelete found at |path| and judged,
\* or the file it created itself.
DeletesOnlyWhatItJudged == deleted \subseteq {seen, created}

=============================================================================
