----------------------------- MODULE MCEventBus -----------------------------
(* An instance of EventBus: discoveries of two targets that share a        *)
(* database but not a scope.                                               *)
EXTENDS EventBus

CONSTANTS root, leaf, url, tech, wide, narrow

MCAssets == {root, leaf, url, tech}
MCTechnologies == {tech}
MCScopes == {wide, narrow}
\* narrow excludes `leaf`.
MCAllows == [s \in MCScopes |-> IF s = wide THEN {root, leaf, url}
                                            ELSE {root, url}]

\* A single checked link; a batch of which narrow allows one claim; and the
\* technologies of what the other two found.  The three write the graph in the
\* three ways the handlers have.
MCShape == <<"subdomain", "batch", "fingerprint">>
MCOrigin == <<root, root, leaf>>
MCClaims == << << <<root, leaf>> >>,
               << <<root, url>>, <<leaf, leaf>> >>,
               << <<leaf, tech>> >> >>
=============================================================================
