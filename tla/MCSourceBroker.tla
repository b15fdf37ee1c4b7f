--------------------------- MODULE MCSourceBroker ---------------------------
(* One read takes the whole staging budget of three bytes while two        *)
(* smaller ones of another reader queue.  That reader takes two provider   *)
(* calls at a time, so that both wait for bytes together, or one, so that  *)
(* a read queues behind a cancelled one whose call still runs.  Neither    *)
(* thread falls further behind the other than MaxToMain and MaxToWorker    *)
(* messages; closing an accessor with two reads posts three at once.       *)
EXTENDS SourceBroker

CONSTANTS s1, s2, r1, r2, r3

MCSources == {s1, s2}
MCReads == {r1, r2, r3}
MCSourceOf == [r \in MCReads |-> IF r = r1 THEN s1 ELSE s2]
MCLength == [r \in MCReads |-> IF r = r1 THEN 3 ELSE IF r = r2 THEN 2 ELSE 1]
MCConcurrencies == {[s \in MCSources |-> n] : n \in {1, 2}}
MaxToMain == 3
MaxToWorker == 2
ChannelsBounded == Len(toMain) <= MaxToMain /\ Len(toWorker) <= MaxToWorker
=============================================================================
