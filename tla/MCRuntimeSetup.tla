---------------------------- MODULE MCRuntimeSetup ----------------------------
(***************************************************************************)
(* Bounds for the setup: one field that is resolved on its own beside the  *)
(* two alternatives of openai_auth, two keys and two installers.           *)
(***************************************************************************)
EXTENDS RuntimeSetup

OneField == {"discord_token"}

Deployment(set, blank, key, token, root) ==
    [set |-> set, blank |-> blank, key |-> key, token |-> token, root |-> root]

\* No variable is blank: the environment has nothing, a part, or all of the
\* values; the key is rotated or unusable, or token and state root are missing.
WithoutBlanks ==
    {Deployment(s, {}, "k1", TRUE, TRUE) :
        s \in {{}, {"openai_api_key"}, {"discord_token", "openai_oauth_session"}}}
    \cup {Deployment({}, {}, "k2", TRUE, TRUE),
          Deployment({}, {}, "unusable", TRUE, TRUE),
          Deployment({}, {}, "k1", FALSE, FALSE)}

\* A variable may also be bound to an empty secret.
WithABlank ==
    WithoutBlanks \cup {Deployment({"discord_token"}, {"openai_api_key"}, "k1", TRUE, TRUE)}

===============================================================================
