--------------------------- MODULE MCJavaProtocol ---------------------------
(* Two builds and output outside of builds, on two streams; payloads that  *)
(* begin with or look like a line end; chunks of one or two tokens; one    *)
(* unexpected end.                                                         *)
EXTENDS JavaProtocol, TLC

Byte == [token |-> "byte"]
TwoPayloads == {<<NL>>, <<CR, Byte>>}
EitherStream == Permutations(Streams)
=============================================================================
