-------------------------------- MODULE Ids ---------------------------------
(* The identifiers that SandboxHub's v1 components share.                   *)
CONSTANTS
    Containers,   \* container ids
    Sandboxes,    \* sandbox ids, each minted at most once (uuid4)
    Keys,         \* (user_id, role_id) pairs
    None          \* no sandbox, no container, no key

ASSUME IdsAssumption == None \notin Sandboxes \union Keys \union Containers
=============================================================================
