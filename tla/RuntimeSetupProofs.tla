--------------------------- MODULE RuntimeSetupProofs ---------------------------
(***************************************************************************)
(* Proofs about RuntimeSetup: every theorem holds for any set of fields,   *)
(* of keys, of installers and of environments.                             *)
(***************************************************************************)
EXTENDS RuntimeSetup, TLAPS

\* What a process of any deployment can rely on in its environment.
LEMMA EnvironmentShape ==
    ASSUME env \in Environments
    PROVE  /\ env.set \in SUBSET AllFields
           /\ env.key \in Keys \cup {"unusable"}
           /\ env.token \in BOOLEAN
           /\ env.root \in BOOLEAN
    BY SetupAssumption DEF SetupAssumption, EnvironmentRecords

\* A page shows one of the three sources for every field, or no form at all.
LEMMA PageShape == Form \in [AllFields -> Sources]
    BY DEF Form, Source, Sources

-------------------------------------------------------------------------------
(***************************************************************************)
(* Types                                                                   *)
(***************************************************************************)

LEMMA SaveTypes ==
    ASSUME TypeOK, NEW i \in Installers, NEW filled \in SUBSET Inputs(i),
           NEW method \in AuthFields, Save(i, filled, method)
    PROVE  TypeOK'
    <1> DEFINE config == [key |-> env.key, fields |-> Kept(filled, method)]
    <1>1. /\ env.key \in Keys
          /\ env.root \in BOOLEAN
        BY EnvironmentShape DEF TypeOK, Save, Available
    <1>2. Kept(filled, method) \in SUBSET AllFields
        BY DEF Kept, Inputs
    <1>3. config \in [key : Keys, fields : SUBSET AllFields]
        BY <1>1, <1>2
    <1>4. file' = [file EXCEPT ![env.root] = config]
        BY DEF Save
    <1>5. file' \in [BOOLEAN -> [key : Keys, fields : SUBSET AllFields] \cup {NoFile}]
        <2> HIDE DEF config
        <2> QED BY <1>1, <1>3, <1>4 DEF TypeOK
    <1> QED BY <1>5 DEF TypeOK, Save

\* The variables have their types under every sequence of deployments, pages
\* and forms: in particular the setup file is only ever written with a usable key.
THEOREM TypeCorrect == Spec => []TypeOK
    <1>1. Init => TypeOK
        BY DEF Init, TypeOK, NoForm, NoFile
    <1>2. TypeOK /\ [Next]_vars => TypeOK'
        <2> SUFFICES ASSUME TypeOK, [Next]_vars PROVE TypeOK'
            OBVIOUS
        <2>1. CASE Redeploy
            BY <2>1 DEF Redeploy, TypeOK
        <2>2. ASSUME NEW i \in Installers, OpenPage(i) PROVE TypeOK'
            BY <2>2, PageShape DEF OpenPage, TypeOK
        <2>3. ASSUME NEW i \in Installers, Submit(i) PROVE TypeOK'
            <3>1. ASSUME NEW filled \in SUBSET Inputs(i), NEW method \in AuthFields,
                         Save(i, filled, method)
                  PROVE  TypeOK'
                BY <3>1, SaveTypes
            <3>2. CASE SaveFails(i)
                BY <3>2 DEF SaveFails, TypeOK
            <3>3. CASE Reject(i)
                BY <3>3 DEF Reject, TypeOK
            <3>4. CASE Refuse(i)
                BY <3>4 DEF Refuse, TypeOK
            <3> QED BY <2>3, <3>1, <3>2, <3>3, <3>4 DEF Submit
        <2>4. CASE UNCHANGED vars
            BY <2>4 DEF vars, TypeOK
        <2> QED BY <2>1, <2>2, <2>3, <2>4 DEF Next
    <1> QED BY <1>1, <1>2, PTL DEF Spec

-------------------------------------------------------------------------------
(***************************************************************************)
(* The page and the readiness check                                        *)
(***************************************************************************)

\* With no blank variable both look-ups ask whether a field is set or stored.
LEMMA LookUpsAgree ==
    ASSUME env.blank = {}
    PROVE  /\ \A f \in Fields : Resolved(f) <=> Source(f) # "missing"
           /\ AuthResolved <=> \E f \in AuthFields : Source(f) # "missing"
    <1>1. \A f : (f \in env.set \/ f \in Stored) <=> Source(f) # "missing"
        BY DEF Source
    <1>2. \A f \in Fields : Resolved(f) <=> (f \in env.set \/ f \in Stored)
        BY DEF Resolved
    <1>3. AuthResolved <=> \E f \in AuthFields : f \in env.set \/ f \in Stored
        BY DEF AuthResolved, AuthFields
    <1> QED BY <1>1, <1>2, <1>3

\* The setup page asks for exactly what keeps GET /readyz from answering ready,
\* whatever fields the runtime has.
THEOREM PageCorrect == Spec => []PageAgreesWithReadiness
    <1>1. PageAgreesWithReadiness
        BY LookUpsAgree DEF PageAgreesWithReadiness, Ready, NothingMissing
    <1> QED BY <1>1, PTL

-------------------------------------------------------------------------------
(***************************************************************************)
(* Saving a full form                                                      *)
(***************************************************************************)

\* After the save the file holds what the form kept, under the key and in the
\* root that the next request reads.
LEMMA SavedIsStored ==
    ASSUME TypeOK, NEW i, NEW filled, NEW method, Save(i, filled, method)
    PROVE  Stored' = Kept(filled, method)
    <1>1. env.root \in BOOLEAN
        BY EnvironmentShape DEF TypeOK
    <1>2. file'[env.root] = [key |-> env.key, fields |-> Kept(filled, method)]
        BY <1>1 DEF Save, TypeOK
    <1>3. Available' /\ env' = env
        BY DEF Save, Available
    <1> QED BY <1>2, <1>3 DEF Stored

LEMMA FullFormStep ==
    ASSUME TypeOK,
           NEW i \in Installers, NEW filled \in SUBSET AllFields, NEW method \in AuthFields,
           env.root, env.blank = {}, Full(filled, method), Save(i, filled, method)
    PROVE  Ready'
    <1>1. env' = env
        BY DEF Save
    <1>2. Stored' = filled \cap (Fields \cup {method})
        BY SavedIsStored DEF Kept
    <1>3. (\A f \in Fields : Resolved(f))'
        BY <1>1, <1>2 DEF Resolved, Full
    <1>4. AuthResolved'
        BY <1>1, <1>2 DEF AuthResolved, Full, AuthFields
    <1> QED BY <1>1, <1>3, <1>4 DEF Ready

\* A full form makes the runtime ready in one step, for any number of
\* installers, keys and earlier files.
THEOREM FullFormCorrect == Spec => FullFormMakesReady
    <1>1. TypeOK /\ [Next]_vars =>
            [\A i \in Installers, filled \in SUBSET AllFields, method \in AuthFields :
                (env.root /\ env.blank = {} /\ Full(filled, method) /\ Save(i, filled, method))
                    => Ready']_vars
        BY FullFormStep
    <1> QED BY <1>1, TypeCorrect, PTL DEF Spec, FullFormMakesReady

-------------------------------------------------------------------------------
(***************************************************************************)
(* The first form                                                          *)
(***************************************************************************)

\* With nothing stored, what the page does not call missing is in the
\* environment.
LEMMA NothingStored ==
    ASSUME TypeOK, env.root, file[TRUE] = NoFile
    PROVE  Stored = {}
    <1>1. env.root = TRUE
        BY EnvironmentShape DEF TypeOK
    <1> QED BY <1>1 DEF Stored, NoFile

LEMMA FirstFormIsFull ==
    ASSUME TypeOK, env.root, file[TRUE] = NoFile,
           NEW i \in Installers, NEW filled \in SUBSET AllFields, NEW method \in AuthFields,
           page[i] = Form, Answers(i, filled, method)
    PROVE  Full(filled, method)
    <1>1. \A f \in AllFields : page[i][f] = IF f \in env.set THEN "environment" ELSE "missing"
        BY NothingStored DEF Form, Source
    <1>2. Fields \subseteq filled \cup env.set
        BY <1>1 DEF Answers, AllFields
    <1>3. method \in filled \/ AuthFields \cap env.set # {}
        BY <1>1 DEF Answers, AllFields
    <1> QED BY <1>2, <1>3 DEF Full

\* On a fresh installation the first form that supplies what its page calls
\* missing makes the runtime ready, for any fields, keys and environments.
THEOREM FirstFormCorrect == Spec => FirstFormMakesReady
    <1>1. TypeOK /\ [Next]_vars =>
            [\A i \in Installers, filled \in SUBSET AllFields, method \in AuthFields :
                (/\ env.root /\ env.blank = {} /\ page[i] = Form /\ file[TRUE] = NoFile
                 /\ Answers(i, filled, method) /\ Save(i, filled, method))
                    => Ready']_vars
        BY FirstFormIsFull, FullFormStep
    <1> QED BY <1>1, TypeCorrect, PTL DEF Spec, FirstFormMakesReady

===============================================================================
