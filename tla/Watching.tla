------------------------------- MODULE Watching -------------------------------
(* A watch of the objects of one kind, from the informer to the workers. *)
EXTENDS Naturals

CONSTANTS Owners, RefLists, Watchings, mapsTo, MaxWrites, MaxNotes, Items, Nothing

VARIABLES watching, object, writes, inCache, notes, adding, q, holds, read, seen

V == INSTANCE Events
    WITH Configs <- Watchings, None <- Nothing, config <- watching, cached <- inCache

\* What Events assumes of its constants.
ASSUME EventsConstants == V!ConstantsAssumption

\* No wake-up is lost between informer and workers (Events.tla).
OwnersCurrent == V!TypeOK /\ V!OwnersCurrent

\* Filters hide no more than they say (Events.tla).
FilteredCurrent == V!FilteredCurrent

===============================================================================
