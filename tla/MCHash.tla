-------------------------------- MODULE MCHash --------------------------------
(* An instance of Hash for TLC.  The salts are as long as a digest, as those  *)
(* of the containers are.                                                     *)
EXTENDS Hash

MCPasses == {<<>>, << <<1>> >>, << <<1>>, <<2>>, <<3>>, <<4>>, <<5>> >>}
MCSalts  == {[j \in 1..Bytes1024 |-> <<j + 5>>]}
=============================================================================
