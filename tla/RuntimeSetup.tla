------------------------------ MODULE RuntimeSetup ------------------------------
(***************************************************************************)
(* First-run setup and readiness.  A runtime field is ready when the       *)
(* environment of the process or the encrypted setup file holds a value    *)
(* for it; the environment wins, also when what it holds is blank.  Every  *)
(* request builds its context anew from the environment, which is fixed    *)
(* until the next deployment, and from the file, which any installer can   *)
(* replace through the setup form.  The same field is looked up by two     *)
(* pieces of code: RuntimeConfig::resolve decides whether the runtime is   *)
(* ready, setup_fields tells the installer what is still to be filled in.  *)
(*                                                                         *)
(* Values matter only by their presence, so a configuration is the set of  *)
(* its fields.  The file is the atomic register that SetupConfigStore      *)
(* implements.                                                             *)
(***************************************************************************)
EXTENDS Naturals

CONSTANTS
    Fields,         \* the runtime fields that are resolved one by one
    Keys,           \* usable values of IRONLOOM_CONFIG_KEY
    Installers,     \* browsers with a setup page
    Environments    \* the environments a deployment may give the process

\* The two alternatives of openai_auth.
AuthFields == {"openai_api_key", "openai_oauth_session"}
AllFields == Fields \cup AuthFields

\* set and blank are the fields whose variable has a value or only white space;
\* key is "unusable" if the variable is missing, blank or no 32-byte key.
EnvironmentRecords ==
    [set : SUBSET AllFields, blank : SUBSET AllFields,
     key : Keys \cup {"unusable"}, token : BOOLEAN, root : BOOLEAN]

ASSUME SetupAssumption ==
    /\ Environments \subseteq EnvironmentRecords
    /\ \A e \in Environments : e.set \cap e.blank = {}
    /\ "unusable" \notin Keys
    /\ AuthFields \cap Fields = {}

VARIABLES
    env,            \* the environment of the running process
    file,           \* the setup file in the configured and the default root
    page,           \* the setup page each installer has in front of them
    reply           \* what the last form was answered

vars == <<env, file, page, reply>>

NoFile == [key |-> "unusable", fields |-> {}]
Sources == {"environment", "stored", "missing"}
NoForm == [f \in AllFields |-> "none"]

TypeOK ==
    /\ env \in Environments
    /\ file \in [BOOLEAN -> [key : Keys, fields : SUBSET AllFields] \cup {NoFile}]
    /\ page \in [Installers -> [AllFields -> Sources] \cup {NoForm}]
    /\ reply \in {"none", "prerequisites", "rejected", "failed", "saved"}

-------------------------------------------------------------------------------
\* runtime_context_from_environment

\* RuntimeSetupGate::Available.
Available == env.key # "unusable" /\ env.token

\* Read and decrypted anew for every request; an error counts as no file, and
\* without the installer token the file is not even read.
Stored == IF Available /\ file[env.root].key = env.key THEN file[env.root].fields ELSE {}

\* resolve_field: the variable decides if it is there at all.
Resolved(f) == f \in env.set \/ (f \notin env.blank /\ f \in Stored)

\* Seeded fault: what is stored for openai_auth is not looked at.
AuthResolvedFromEnvironment == "openai_api_key" \in env.set \/ "openai_oauth_session" \in env.set

\* resolve_openai_auth: the key's variable, the session's, the stored key, the
\* stored session; the first one that is there decides.
AuthResolved ==
    /\ "openai_api_key" \notin env.blank
    /\ \/ "openai_api_key" \in env.set
       \/ /\ "openai_oauth_session" \notin env.blank
          /\ \/ "openai_oauth_session" \in env.set
             \/ AuthFields \cap Stored # {}

\* RuntimeConfig::resolve, which answers GET /readyz and lets Discord in.
Ready == env.root /\ AuthResolved /\ \A f \in Fields : Resolved(f)

\* setup_fields and field_model: a blank variable counts as none here.
Source(f) ==
    IF f \in env.set THEN "environment" ELSE IF f \in Stored THEN "stored" ELSE "missing"

Form == [f \in AllFields |-> Source(f)]

-------------------------------------------------------------------------------
Init ==
    /\ env \in Environments
    /\ file = [r \in BOOLEAN |-> NoFile]
    /\ page = [i \in Installers |-> NoForm]
    /\ reply = "none"

\* GET /setup: instructions without inputs, or the form.
OpenPage(i) ==
    /\ page' = [page EXCEPT ![i] = IF Available THEN Form ELSE NoForm]
    /\ UNCHANGED <<env, file, reply>>

\* Seeded fault: both alternatives of openai_auth are dropped.
KeptNoAuth(filled, method) == filled \cap Fields

\* submit_setup_form: a field left blank is None, and of the two alternatives
\* only the one the radio button selects is kept.
Kept(filled, method) == filled \cap (Fields \cup {method})

\* Seeded fault: the file of the default root is written.
SaveDefaultRoot(i, filled, method) ==
    /\ Available
    /\ file' = [file EXCEPT ![FALSE] = [key |-> env.key, fields |-> Kept(filled, method)]]
    /\ reply' = "saved"
    /\ UNCHANGED <<env, page>>

\* Seeded fault: the prerequisites are not asked for.
SaveUnguarded(i, filled, method) ==
    /\ file' = [file EXCEPT ![env.root] = [key |-> env.key, fields |-> Kept(filled, method)]]
    /\ reply' = "saved"
    /\ UNCHANGED <<env, page>>

\* POST /setup with the installer token: the file is replaced.
Save(i, filled, method) ==
    /\ Available
    /\ file' = [file EXCEPT ![env.root] = [key |-> env.key, fields |-> Kept(filled, method)]]
    /\ reply' = "saved"
    /\ UNCHANGED <<env, page>>

\* The file is replaced by a rename, or it is left as it was.
SaveFails(i) ==
    /\ Available
    /\ reply' = "failed"
    /\ UNCHANGED <<env, file, page>>

\* A wrong or missing installer token, or an unknown authentication method.
Reject(i) ==
    /\ Available
    /\ reply' = "rejected"
    /\ UNCHANGED <<env, file, page>>

Refuse(i) ==
    /\ ~Available
    /\ reply' = "prerequisites"
    /\ UNCHANGED <<env, file, page>>

\* An installer fills in some of the inputs the page has, and its form may have
\* been opened before another installer saved or the runtime was redeployed.
Inputs(i) == {f \in AllFields : page[i][f] \in {"stored", "missing"}}

Submit(i) ==
    \/ \E filled \in SUBSET Inputs(i), method \in AuthFields : Save(i, filled, method)
    \/ SaveFails(i)
    \/ Reject(i)
    \/ Refuse(i)

\* A deployment starts the process with another environment.
Redeploy ==
    /\ env' \in Environments
    /\ UNCHANGED <<file, page, reply>>

Next == Redeploy \/ \E i \in Installers : OpenPage(i) \/ (page[i] # NoForm /\ Submit(i))

Spec == Init /\ [][Next]_vars

-------------------------------------------------------------------------------
\* Properties

\* What the setup page shows as still missing is what keeps the runtime from
\* being ready: the two look-ups agree as long as no variable is blank.
NothingMissing ==
    /\ \A f \in Fields : Source(f) # "missing"
    /\ \E f \in AuthFields : Source(f) # "missing"

PageAgreesWithReadiness ==
    (Available /\ env.root /\ env.blank = {}) => (Ready <=> NothingMissing)

\* A form is full if it has a value for every field the environment of the
\* process does not set, counting one alternative of openai_auth as enough.
Full(filled, method) ==
    /\ Fields \subseteq filled \cup env.set
    /\ method \in filled \/ AuthFields \cap env.set # {}

\* Saving a full form makes the runtime ready, whatever was stored before under
\* whichever key, and however old the page it was filled in on.
FullFormMakesReady ==
    [][\A i \in Installers, filled \in SUBSET AllFields, method \in AuthFields :
        (env.root /\ env.blank = {} /\ Full(filled, method) /\ Save(i, filled, method))
            => Ready']_vars

\* A form answers the page if it fills in all that the page says is missing.
Answers(i, filled, method) ==
    /\ \A f \in Fields : page[i][f] = "missing" => f \in filled
    /\ (\A f \in AuthFields : page[i][f] = "missing") => method \in filled

\* Submitting the installer token and the missing values makes the runtime
\* ready, when the page is up to date and the state root is configured.
MissingValuesMakeReady ==
    [][\A i \in Installers, filled \in SUBSET AllFields, method \in AuthFields :
        (env.root /\ page[i] = Form /\ Answers(i, filled, method) /\ Save(i, filled, method))
            => Ready']_vars

\* The same for an installation that has nothing stored yet, if no variable is
\* blank: resolve_field would look at the blank one and not at the stored value.
FirstFormMakesReady ==
    [][\A i \in Installers, filled \in SUBSET AllFields, method \in AuthFields :
        (/\ env.root /\ env.blank = {} /\ page[i] = Form /\ file[TRUE] = NoFile
         /\ Answers(i, filled, method) /\ Save(i, filled, method))
            => Ready']_vars

===============================================================================
