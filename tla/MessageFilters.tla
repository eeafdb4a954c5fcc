--------------------------- MODULE MessageFilters ---------------------------
(***************************************************************************)
(* mwfl::MessageLoop::PreTranslate: one message goes through the filters,   *)
(* the newest first, until one takes it.  A filter may register and remove  *)
(* filters, itself too, while it is asked; the loop then finds its place    *)
(* again.                                                                   *)
(***************************************************************************)
EXTENDS Integers, Sequences, SequencesExt

CONSTANTS
  Filter,
  MaxPassChanges,  \* bound on the changes one filter makes to one message's pass
  SelfRemoval      \* "alone": a filter that removes itself changes nothing else

ASSUME FilterAssumption ==
  0 \notin Filter /\ MaxPassChanges \in Nat /\ SelfRemoval \in {"alone", "any"}

VARIABLES
  filters,  \* filters_, the newest last
  index,    \* filters still to be asked are at 1..index; -1 between messages
  asked,    \* the filter being asked, or 0
  pass      \* of this message: who was there at first, who was asked in which
            \* order, who was removed, how many changes, who removed itself

filterVars == <<filters, index, asked, pass>>

NoPass == [first |-> {}, called |-> <<>>, removed |-> {}, changes |-> 0, self |-> FALSE]

FilterInit ==
  /\ filters = <<>>
  /\ index = -1 /\ asked = 0
  /\ pass = NoPass

-----------------------------------------------------------------------------
AddFilter(f) ==
  filters' = IF f \in Range(filters) THEN filters ELSE Append(filters, f)

(* A filter is in the list once.                                            *)
PositionIn(s, f) == CHOOSE i \in DOMAIN s : s[i] = f

RemoveFilter(f) == filters' = RemoveAt(filters, PositionIn(filters, f))

(* Between messages windows register and remove their filters.              *)
RegisterFilter(f) ==
  /\ index = -1 /\ f \notin Range(filters)
  /\ AddFilter(f)
  /\ UNCHANGED <<index, asked, pass>>

UnregisterFilter(f) ==
  /\ index = -1 /\ f \in Range(filters)
  /\ RemoveFilter(f)
  /\ UNCHANGED <<index, asked, pass>>

-----------------------------------------------------------------------------
StartPass ==
  /\ index = -1 /\ filters # <<>>
  /\ index' = Len(filters)
  /\ pass' = [NoPass EXCEPT !.first = Range(filters)]
  /\ UNCHANGED <<filters, asked>>

(* The next filter below; where the list has become shorter than that, the  *)
(* search goes on from its end.                                             *)
AskNext ==
  /\ index > 0 /\ asked = 0
  /\ IF index > Len(filters)
     THEN /\ index' = Len(filters)
          /\ UNCHANGED <<asked, pass>>
     ELSE /\ index' = index - 1
          /\ asked' = filters[index]
          /\ pass' = [pass EXCEPT !.called = Append(@, filters[index])]
  /\ UNCHANGED filters

(* What the asked filter may do before it answers.                          *)
MayChange == asked # 0 /\ pass.changes < MaxPassChanges

FilterAdds(f) ==
  /\ MayChange /\ f \notin Range(filters)
  /\ SelfRemoval = "alone" => ~pass.self
  /\ AddFilter(f)
  /\ pass' = [pass EXCEPT !.changes = @ + 1]
  /\ UNCHANGED <<index, asked>>

FilterRemoves(f) ==
  /\ MayChange /\ f \in Range(filters)
  /\ SelfRemoval = "alone" => ~pass.self /\ (f = asked => pass.changes = 0)
  /\ RemoveFilter(f)
  /\ pass' = [pass EXCEPT !.changes = @ + 1, !.removed = @ \cup {f}, !.self = f = asked]
  /\ UNCHANGED <<index, asked>>

(* Seeded fault: the loop does not look for the place of its filter.        *)
PassesOnBlindly ==
  /\ asked # 0
  /\ asked' = 0
  /\ pass' = [pass EXCEPT !.self = FALSE, !.changes = 0]
  /\ UNCHANGED <<filters, index>>

(* It passes the message on; below its own place, if it still has one.      *)
PassesOn ==
  /\ asked # 0
  /\ index' = IF asked \in Range(filters)
              THEN PositionIn(filters, asked) - 1 ELSE index
  /\ asked' = 0
  /\ pass' = [pass EXCEPT !.self = FALSE, !.changes = 0]
  /\ UNCHANGED filters

(* It takes the message, or all have passed it on.                          *)
Takes ==
  /\ asked # 0
  /\ index' = -1 /\ asked' = 0 /\ pass' = NoPass
  /\ UNCHANGED filters

EndPass ==
  /\ index = 0 /\ asked = 0
  /\ index' = -1 /\ pass' = NoPass
  /\ UNCHANGED <<filters, asked>>

FilterNext ==
  \/ \E f \in Filter : RegisterFilter(f) \/ UnregisterFilter(f) \/ FilterAdds(f) \/ FilterRemoves(f)
  \/ StartPass \/ AskNext \/ PassesOn \/ Takes \/ EndPass

FilterSpec == FilterInit /\ [][FilterNext]_filterVars

-----------------------------------------------------------------------------
(* Properties.                                                              *)

(* Whatever the filters register and remove while a message goes through    *)
(* them, none of them sees it twice, none registered meanwhile sees it, and *)
(* a message no filter took has been seen by all that stayed.               *)
FiltersSeeMessageOnce ==
  /\ IsInjective(pass.called)
  /\ Range(pass.called) \subseteq pass.first
  /\ index = 0 /\ asked = 0 => pass.first \ pass.removed \subseteq Range(pass.called)
=============================================================================
