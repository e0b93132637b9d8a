--------------------------- MODULE TouchFileProofs ---------------------------
(***************************************************************************)
(* Proofs about one TouchFile call for every set of permission inputs and  *)
(* every amount of interference by another process: modes keep to 0777,  *)
(* and a call nothing interfered with returns true only with the promised *)
(* file at |path|.                                                         *)
(***************************************************************************)
EXTENDS TouchFile, TLAPS

\* Where the call is determines what it has created and checked: nothing is
\* created before Create, and a legal permission value reaches fchmod.
Progress ==
  /\ perms \in PermInputs /\ next_ent \in Nat
  /\ pc \in {"start", "fstat", "create"} => created = None
  /\ pc \in {"fstat", "create", "chmod"} => perms \in 0 .. 511
  /\ pc = "chmod" => fd = created /\ created # None

\* What holds while no other process has touched |path|: the fd is the
\* entity at |path|, and the file the call created is a regular file of
\* uid and gid.
Undisturbed ==
  interference = 0 =>
    /\ pc = "fstat" /\ fd # None => fd = path_ent
    /\ pc = "chmod" =>
         /\ path_ent = created
         /\ ents[created].kind = "regular" /\ ents[created].owner = "match"
    /\ TouchSuccessPostcondition

IInv == TypeOK /\ Progress /\ Undisturbed

\* The entity records TypeOK allows.
EntType == [kind : Kinds, owner : Owners, mode : 0 .. 511]

\* TypeOK split into the typing of the entity map and everything else.
EntsTyped == ents \in [DOMAIN ents -> EntType]
TypeRest ==
  /\ DOMAIN ents \subseteq 0 .. next_ent - 1
  /\ path_ent \in DOMAIN ents \cup {None}
  /\ pc \in {"start", "fstat", "create", "chmod", "done"}
  /\ fd \in DOMAIN ents \cup {None}
  /\ seen \in DOMAIN ents \cup {None}
  /\ created \in DOMAIN ents \cup {None}
  /\ deleted \subseteq DOMAIN ents
  /\ path_not_empty \in BOOLEAN /\ ret \in BOOLEAN
  /\ interference \in 0 .. MaxInterference

\* Adding entity number n to a map of entities numbered below n.
LEMMA AddEntity ==
  ASSUME NEW D, NEW n \in Nat, D \subseteq 0 .. n - 1, NEW f \in [D -> EntType],
         NEW e \in EntType
  PROVE  LET g == [i \in D \cup {n} |-> IF i = n THEN e ELSE f[i]]
         IN  /\ DOMAIN g = D \cup {n}
             /\ DOMAIN g \subseteq 0 .. (n + 1) - 1
             /\ g \in [DOMAIN g -> EntType]
             /\ g[n] = e
BY DEF EntType

LEMMA IInvInit == Init => IInv
<1> SUFFICES ASSUME Init PROVE IInv
  OBVIOUS
<1> USE TouchAssumption
<1>1. /\ next_ent = 1 /\ pc = "start" /\ fd = None /\ seen = None
      /\ deleted = {} /\ created = None /\ path_not_empty = FALSE /\ ret = FALSE
      /\ interference = 0
  BY DEF Init
<1>2. /\ DOMAIN ents \subseteq {0}
      /\ path_ent \in DOMAIN ents \cup {None}
      /\ EntsTyped
  <2>1. CASE path_ent = None /\ ents = [i \in {} |-> CHOOSE e \in Entities : TRUE]
    BY <2>1 DEF EntsTyped
  <2>2. CASE path_ent = 0 /\ \E e \in Entities : ents = [i \in {0} |-> e]
    <3>1. PICK e \in Entities : ents = [i \in {0} |-> e]
      BY <2>2
    <3>2. e \in EntType
      BY DEF Entities, Modes, kPermissions600, EntType
    <3>3. QED
      BY <2>2, <3>1, <3>2 DEF EntsTyped
  <2>3. QED
    BY <2>1, <2>2 DEF Init
<1>3. TypeRest
  <2>1. DOMAIN ents \subseteq 0 .. next_ent - 1
    BY <1>1, <1>2
  <2>2. interference \in 0 .. MaxInterference
    BY <1>1
  <2>3. fd \in DOMAIN ents \cup {None} /\ seen \in DOMAIN ents \cup {None}
        /\ created \in DOMAIN ents \cup {None}
    BY <1>1
  <2>4. deleted \subseteq DOMAIN ents /\ path_not_empty \in BOOLEAN /\ ret \in BOOLEAN
    BY <1>1, Zenon
  <2>5. QED
    BY <1>1, <1>2, <2>1, <2>2, <2>3, <2>4 DEF TypeRest
<1>4. Progress /\ Undisturbed
  BY <1>1 DEF Init, Progress, Undisturbed, TouchSuccessPostcondition
<1>5. QED
  BY <1>2, <1>3, <1>4, Zenon DEF IInv, TypeOK, TypeRest, EntsTyped, EntType

LEMMA IInvNext == IInv /\ [Next]_vars => IInv'
<1> SUFFICES ASSUME IInv, [Next]_vars PROVE IInv'
  OBVIOUS
<1> USE TouchAssumption
<1>0. TypeRest /\ EntsTyped /\ Progress /\ Undisturbed
  BY Zenon DEF IInv, TypeOK, TypeRest, EntsTyped, EntType
<1>q. TypeRest' /\ EntsTyped' /\ Progress' /\ Undisturbed' => IInv'
  BY Zenon DEF IInv, TypeOK, TypeRest, EntsTyped, EntType
<1>u. UNCHANGED ents => EntsTyped'
  BY <1>0, Zenon DEF EntsTyped
<1>1. CASE Start
  <2>0. /\ pc = "start" /\ created = None /\ seen' = path_ent
        /\ UNCHANGED <<path_ent, ents, next_ent, perms, deleted, created, interference>>
    BY <1>0, <1>1 DEF Start, Progress
  <2>1. CASE IllegalPermissions(perms)
    <3>1. pc' = "done" /\ ret' = FALSE /\ UNCHANGED <<fd, path_not_empty>>
      BY <1>1, <2>1 DEF Start, Return
    <3>a. TypeRest'
      BY <1>0, <2>0, <3>1, Zenon DEF TypeRest
    <3>b. EntsTyped'
      BY <1>0, <2>0, <3>1, <1>u
    <3>c. Progress'
      BY <1>0, <2>0, <3>1 DEF Progress
    <3>d. Undisturbed'
      BY <1>0, <2>0, <3>1 DEF Undisturbed, TouchSuccessPostcondition
    <3>e. QED
      BY <3>a, <3>b, <3>c, <3>d, <1>q
  <2>2. CASE ~IllegalPermissions(perms)
    <3>0. /\ pc' = "fstat" /\ UNCHANGED ret
          /\ \/ fd' = None /\ path_not_empty' = FALSE
             \/ fd' = None /\ path_not_empty' = TRUE
             \/ fd' = path_ent /\ path_not_empty' = TRUE
      BY <1>1, <2>2 DEF Start
    <3>1. /\ pc' = "fstat" /\ UNCHANGED ret
          /\ fd' \in {path_ent, None} /\ path_not_empty' \in BOOLEAN
          /\ perms \in 0 .. 511
      BY <2>2, <3>0, Zenon DEF IllegalPermissions
    <3>a. TypeRest'
      BY <1>0, <2>0, <3>1, Zenon DEF TypeRest
    <3>b. EntsTyped'
      BY <1>0, <2>0, <3>1, <1>u
    <3>c. Progress'
      BY <1>0, <2>0, <3>1 DEF Progress
    <3>d. Undisturbed'
      BY <1>0, <2>0, <3>1 DEF Undisturbed, TouchSuccessPostcondition
    <3>e. QED
      BY <3>a, <3>b, <3>c, <3>d, <1>q
  <2>3. QED
    BY <2>1, <2>2
<1>2. CASE CheckExisting
  <2>1. PICK fstat_ok \in BOOLEAN :
          IF /\ fd # None /\ fstat_ok
             /\ ents[fd].kind = "regular" /\ ents[fd].owner = "match"
            THEN Return(TRUE) /\ UNCHANGED <<path_ent, deleted>>
            ELSE IF path_not_empty
              THEN \E delete_ok \in BOOLEAN :
                     IF delete_ok
                       THEN DeletePath /\ pc' = "create" /\ UNCHANGED ret
                       ELSE Return(FALSE) /\ UNCHANGED <<path_ent, deleted>>
              ELSE pc' = "create" /\ UNCHANGED <<path_ent, deleted, ret>>
    BY <1>2, Zenon DEF CheckExisting
  <2>2. /\ pc = "fstat" /\ created = None
        /\ UNCHANGED <<ents, next_ent, perms, fd, path_not_empty, seen, created, interference>>
    BY <1>0, <1>2, Zenon DEF CheckExisting, Progress
  <2>3. CASE fd # None /\ fstat_ok /\ ents[fd].kind = "regular" /\ ents[fd].owner = "match"
    <3>1. pc' = "done" /\ ret' = TRUE /\ UNCHANGED <<path_ent, deleted>>
      BY <2>1, <2>3 DEF Return
    <3>a. TypeRest'
      BY <1>0, <2>2, <2>3, <3>1, Zenon DEF TypeRest
    <3>b. EntsTyped'
      BY <1>0, <2>2, <2>3, <3>1, <1>u
    <3>c. Progress'
      BY <1>0, <2>2, <2>3, <3>1 DEF Progress
    <3>d. Undisturbed'
      BY <1>0, <2>2, <2>3, <3>1 DEF Undisturbed, TouchSuccessPostcondition
    <3>e. QED
      BY <3>a, <3>b, <3>c, <3>d, <1>q
  <2>4. CASE ~(fd # None /\ fstat_ok /\ ents[fd].kind = "regular" /\ ents[fd].owner = "match")
    <3>0. IF path_not_empty
            THEN \E delete_ok \in BOOLEAN :
                   IF delete_ok
                     THEN DeletePath /\ pc' = "create" /\ UNCHANGED ret
                     ELSE Return(FALSE) /\ UNCHANGED <<path_ent, deleted>>
            ELSE pc' = "create" /\ UNCHANGED <<path_ent, deleted, ret>>
      BY <2>1, <2>4, Zenon
    <3>1. /\ pc' \in {"create", "done"} /\ (pc' = "done" => ret' = FALSE)
          /\ ret' \in BOOLEAN
          /\ path_ent' \in {path_ent, None}
          /\ deleted' \in {deleted, deleted \cup {path_ent}}
          /\ path_ent \in DOMAIN ents \/ deleted' = deleted
      <4>1. /\ ret \in BOOLEAN /\ path_not_empty \in BOOLEAN
            /\ path_ent \in DOMAIN ents \cup {None}
        BY <1>0 DEF TypeRest
      <4>2. CASE ~path_not_empty
        BY <3>0, <4>1, <4>2, Zenon
      <4>3. CASE path_not_empty
        <5>1. PICK delete_ok \in BOOLEAN :
                IF delete_ok
                  THEN DeletePath /\ pc' = "create" /\ UNCHANGED ret
                  ELSE Return(FALSE) /\ UNCHANGED <<path_ent, deleted>>
          BY <3>0, <4>3, Zenon
        <5>2. CASE delete_ok
          <6>1. DeletePath /\ pc' = "create" /\ UNCHANGED ret
            BY <5>1, <5>2
          <6>2. QED
            BY <4>1, <6>1 DEF DeletePath
        <5>3. CASE ~delete_ok
          <6>1. Return(FALSE) /\ UNCHANGED <<path_ent, deleted>>
            BY <5>1, <5>3
          <6>2. QED
            BY <4>1, <6>1 DEF Return
        <5>4. QED
          BY <5>2, <5>3
      <4>4. QED
        BY <4>1, <4>2, <4>3
    <3>a. TypeRest'
      BY <1>0, <2>2, <3>1, Zenon DEF TypeRest
    <3>b. EntsTyped'
      BY <1>0, <2>2, <3>1, <1>u
    <3>c. Progress'
      BY <1>0, <2>2, <3>1 DEF Progress
    <3>d. Undisturbed'
      BY <1>0, <2>2, <3>1 DEF Undisturbed, TouchSuccessPostcondition
    <3>e. QED
      BY <3>a, <3>b, <3>c, <3>d, <1>q
  <2>5. QED
    BY <2>3, <2>4
<1>3. CASE Create
  <2>1. /\ pc = "create" /\ created = None
        /\ UNCHANGED <<perms, path_not_empty, seen, deleted, interference>>
    BY <1>0, <1>3 DEF Create, Progress
  <2>2. CASE path_ent' = next_ent
    <3> DEFINE e == [kind |-> "regular", owner |-> "match", mode |-> kPermissions600]
    <3>1. /\ ents' = [i \in DOMAIN ents \cup {next_ent} |->
                        IF i = next_ent THEN e ELSE ents[i]]
          /\ next_ent' = next_ent + 1 /\ fd' = next_ent /\ created' = next_ent
          /\ pc' = "chmod" /\ UNCHANGED ret
      <4>1. PICK mkdir_ok, open_ok \in BOOLEAN :
              IF mkdir_ok /\ open_ok /\ path_ent = None
                THEN /\ path_ent' = next_ent
                     /\ ents' = [i \in DOMAIN ents \cup {next_ent} |->
                                   IF i = next_ent THEN e ELSE ents[i]]
                     /\ next_ent' = next_ent + 1
                     /\ fd' = next_ent
                     /\ created' = next_ent
                     /\ pc' = "chmod"
                     /\ UNCHANGED ret
                ELSE Return(FALSE) /\ UNCHANGED <<path_ent, ents, next_ent, fd, created>>
        BY <1>3 DEF Create, e
      <4>2. path_ent # next_ent
        BY <1>0 DEF TypeRest, Progress, None
      <4>3. mkdir_ok /\ open_ok /\ path_ent = None
        <5>1. SUFFICES ASSUME ~(mkdir_ok /\ open_ok /\ path_ent = None) PROVE FALSE
          OBVIOUS
        <5>2. path_ent' = path_ent
          BY <4>1, <5>1
        <5>3. QED
          BY <2>2, <4>2, <5>2
      <4>4. QED
        BY <4>1, <4>3
    <3>2. e \in EntType
      BY DEF e, EntType, Kinds, Owners, kPermissions600
    <3>3. /\ DOMAIN ents' = DOMAIN ents \cup {next_ent}
          /\ DOMAIN ents' \subseteq 0 .. next_ent' - 1
          /\ ents' \in [DOMAIN ents' -> EntType]
          /\ ents'[next_ent] = e
      <4>1. /\ next_ent \in Nat /\ DOMAIN ents \subseteq 0 .. next_ent - 1
            /\ ents \in [DOMAIN ents -> EntType]
        BY <1>0 DEF TypeRest, Progress, EntsTyped
      <4>2. QED
        BY <3>1, <3>2, <4>1, AddEntity
    <3>a. TypeRest'
      BY <1>0, <2>1, <2>2, <3>1, <3>3 DEF TypeRest
    <3>b. EntsTyped'
      BY <3>3 DEF EntsTyped
    <3>c. Progress'
      BY <1>0, <2>1, <2>2, <3>1, <3>3 DEF Progress, None
    <3>d. Undisturbed'
      BY <2>2, <3>1, <3>3 DEF Undisturbed, TouchSuccessPostcondition, e
    <3>e. QED
      BY <3>a, <3>b, <3>c, <3>d, <1>q
  <2>3. CASE path_ent' # next_ent
    <3>1. pc' = "done" /\ ret' = FALSE /\ UNCHANGED <<path_ent, ents, next_ent, fd, created>>
      BY <1>3, <2>3 DEF Create, Return
    <3>a. TypeRest'
      BY <1>0, <2>1, <3>1, Zenon DEF TypeRest
    <3>b. EntsTyped'
      BY <1>0, <2>1, <3>1, <1>u
    <3>c. Progress'
      BY <1>0, <2>1, <3>1 DEF Progress
    <3>d. Undisturbed'
      BY <1>0, <2>1, <3>1 DEF Undisturbed, TouchSuccessPostcondition
    <3>e. QED
      BY <3>a, <3>b, <3>c, <3>d, <1>q
  <2>4. QED
    BY <2>2, <2>3
<1>4. CASE Chmod
  <2>1. /\ pc = "chmod" /\ fd = created /\ created # None /\ perms \in 0 .. 511
        /\ UNCHANGED <<next_ent, perms, fd, path_not_empty, seen, created, interference>>
    BY <1>0, <1>4 DEF Chmod, Progress
  <2>2. CASE ents' = [ents EXCEPT ![fd].mode = perms] /\ pc' = "done" /\ ret' = TRUE
             /\ UNCHANGED <<path_ent, deleted>>
    <3>1. /\ DOMAIN ents' = DOMAIN ents
          /\ ents'[fd] = [ents[fd] EXCEPT !.mode = perms]
          /\ \A i \in DOMAIN ents \ {fd} : ents'[i] = ents[i]
      BY <1>0, <2>1, <2>2 DEF TypeRest
    <3>2. EntsTyped'
      BY <1>0, <2>1, <2>2, <3>1 DEF EntsTyped, EntType, TypeRest
    <3>a. TypeRest'
      BY <1>0, <2>1, <2>2, <3>1 DEF TypeRest
    <3>b. EntsTyped'
      BY <3>2
    <3>c. Progress'
      BY <1>0, <2>1, <2>2, <3>1 DEF Progress
    <3>d. Undisturbed'
      <4>1. SUFFICES ASSUME interference = 0 PROVE Undisturbed'
        BY <2>1 DEF Undisturbed
      <4>2. path_ent = created /\ ents[created].kind = "regular"
            /\ ents[created].owner = "match"
        BY <1>0, <2>1, <4>1 DEF Undisturbed
      <4>3. created \in DOMAIN ents /\ ents[created] \in EntType
        BY <1>0, <2>1 DEF EntsTyped, TypeRest
      <4>4. /\ ents'[created].kind = "regular" /\ ents'[created].owner = "match"
            /\ ents'[created].mode = perms
        BY <2>1, <3>1, <4>2, <4>3 DEF EntType
      <4>5. QED
        BY <2>1, <2>2, <4>1, <4>2, <4>4 DEF Undisturbed, TouchSuccessPostcondition
    <3>e. QED
      BY <3>a, <3>b, <3>c, <3>d, <1>q
  <2>3. CASE pc' = "done" /\ ret' = FALSE /\ UNCHANGED ents
             /\ \/ path_ent' = None
                   /\ deleted' = IF path_ent = None THEN deleted ELSE deleted \cup {path_ent}
                \/ UNCHANGED <<path_ent, deleted>>
    <3>0. path_ent' \in DOMAIN ents \cup {None} /\ deleted' \subseteq DOMAIN ents
      BY <1>0, <2>3 DEF TypeRest
    <3>a. TypeRest'
      BY <1>0, <2>1, <2>3, <3>0, Zenon DEF TypeRest
    <3>b. EntsTyped'
      BY <1>0, <2>1, <2>3, <1>u
    <3>c. Progress'
      BY <1>0, <2>1, <2>3 DEF Progress
    <3>d. Undisturbed'
      BY <1>0, <2>1, <2>3 DEF Undisturbed, TouchSuccessPostcondition
    <3>e. QED
      BY <3>a, <3>b, <3>c, <3>d, <1>q
  <2>4. QED
    BY <1>4, <2>2, <2>3, Zenon DEF Chmod, Return, DeletePath
<1>5. CASE Interfere
  <2>1. /\ pc # "done" /\ interference' = interference + 1
        /\ interference' \in 0 .. MaxInterference
        /\ UNCHANGED <<pc, perms, fd, path_not_empty, seen, deleted, created, ret>>
    BY <1>0, <1>5 DEF Interfere, TypeRest
  <2>2. CASE path_ent' = None /\ UNCHANGED <<ents, next_ent>>
    <3>a. TypeRest'
      BY <1>0, <2>1, <2>2 DEF TypeRest
    <3>b. EntsTyped'
      BY <1>0, <2>1, <2>2, <1>u
    <3>c. Progress'
      BY <1>0, <2>1, <2>2 DEF Progress
    <3>d. Undisturbed'
      BY <1>0, <2>1, <2>2 DEF Undisturbed, TypeRest
    <3>e. QED
      BY <3>a, <3>b, <3>c, <3>d, <1>q
  <2>3. ASSUME NEW e \in Entities, path_ent' = next_ent,
               ents' = [i \in DOMAIN ents \cup {next_ent} |->
                          IF i = next_ent THEN e ELSE ents[i]],
               next_ent' = next_ent + 1
        PROVE  IInv'
    <3>1. e \in EntType
      BY DEF Entities, Modes, kPermissions600, EntType
    <3>2. /\ DOMAIN ents' = DOMAIN ents \cup {next_ent}
          /\ DOMAIN ents' \subseteq 0 .. next_ent' - 1
          /\ ents' \in [DOMAIN ents' -> EntType]
      BY <1>0, <2>3, <3>1, AddEntity DEF EntsTyped, TypeRest, Progress
    <3>a. TypeRest'
      BY <1>0, <2>1, <2>3, <3>2 DEF TypeRest
    <3>b. EntsTyped'
      BY <3>2 DEF EntsTyped
    <3>c. Progress'
      BY <1>0, <2>1, <2>3, <3>2 DEF Progress
    <3>d. Undisturbed'
      BY <1>0, <2>1, <2>3, <3>2 DEF Undisturbed, TypeRest
    <3>e. QED
      BY <3>a, <3>b, <3>c, <3>d, <1>q
  <2>4. QED
    BY <1>5, <2>2, <2>3 DEF Interfere
<1>6. CASE UNCHANGED vars
  <2>1. UNCHANGED <<path_ent, ents, next_ent, pc, perms, fd, path_not_empty, seen,
                    deleted, created, ret, interference>>
    BY <1>6 DEF vars
  <2>a. TypeRest'
    BY <1>0, <2>1, Zenon DEF TypeRest
  <2>b. EntsTyped'
    BY <1>0, <2>1, <1>u
  <2>c. Progress'
    BY <1>0, <2>1 DEF Progress
  <2>d. Undisturbed'
    BY <1>0, <2>1 DEF Undisturbed, TouchSuccessPostcondition
  <2>e. QED
    BY <2>a, <2>b, <2>c, <2>d, <1>q
<1>7. QED
  BY <1>1, <1>2, <1>3, <1>4, <1>5, <1>6 DEF Next


\* The inductive invariant holds in every reachable state.
LEMMA IInvHolds == Spec => []IInv
<1>1. Init => IInv
  BY IInvInit
<1>2. IInv /\ [Next]_vars => IInv'
  BY IInvNext
<1>3. QED
  BY <1>1, <1>2, PTL DEF Spec

\* Type correctness of TouchFile: entity ids stay below next_ent, every
\* handle the call keeps names an existing entity, and every mode, the one
\* fchmod sets from new_file_permissions included, lies in 0 .. 0777.
THEOREM TypeCorrect == Spec => []TypeOK
BY IInvHolds, PTL DEF IInv

\* When no other process touches |path| (MaxInterference = 0), a call that
\* returns true leaves a regular file of the caller's uid and gid at
\* |path|, with new_file_permissions as its mode when TouchFile created it.
THEOREM TouchSuccessPostconditionHolds ==
  ASSUME MaxInterference = 0
  PROVE  Spec => []TouchSuccessPostcondition
<1>1. IInv => TouchSuccessPostcondition
  BY DEF IInv, TypeOK, Undisturbed
<1>2. QED
  BY IInvHolds, <1>1, PTL

=============================================================================
