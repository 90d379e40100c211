----------------------- MODULE MCBufferedReadStream -----------------------
(* Destinations of one and several buffers, empty ones among them.          *)
EXTENDS BufferedReadStream

DestinationShapes == {<<3>>, <<1, 2>>, <<2, 0, 1>>, <<0, 1, 1, 0>>}
=============================================================================
