------------------------------ MODULE ValueUse ------------------------------
(***************************************************************************)
(* A Value in use.  It comes from to_value of a datum, or is there (both   *)
(* ValueSerde), or its map is filled by a Serialize that calls the methods *)
(* of SerializeMap as it likes and goes on after their errors; what end    *)
(* returns is then read as any other Value is.                             *)
(***************************************************************************)
EXTENDS ValueSerde, SerializeMap

ByHand == datum = NoKey /\ value = Pending

UseInit ==
  /\ MapInit
  /\ \/ SerdeInit /\ length = 0
     \/ type \in Types /\ ByHand /\ borrowed = Pending /\ owned = Pending

\* A call on the map, the last of which makes it a Value.
FillMap ==
  /\ ByHand
  /\ MapNext
  /\ value' = IF result' = NoKey THEN Pending ELSE result'
  /\ UNCHANGED <<type, datum, borrowed, owned>>

UseSerde ==
  /\ SerdeNext
  /\ UNCHANGED mapVars

UseNext == FillMap \/ UseSerde

UseSpec == UseInit /\ [][UseNext]_<<serdeVars, mapVars>>
=============================================================================
