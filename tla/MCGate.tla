-------------------------------- MODULE MCGate --------------------------------
EXTENDS GateProperties, TLC

CONSTANTS car, other   \* the failing vehicle and one built near it

\* One proposal scope, wide or of the failing vehicle alone; a client list
\* without the trigger; build events that yield nothing for the amended bounds.
MCProposed == {{car, other}}
MCTriggerOnly == {{car}}
MCClient == {{other}}
MCRescopes == {{}}

\* Containment ids and threads are only compared.
MCSymmetry == Permutations(Cid) \cup Permutations(Thread)

===============================================================================
