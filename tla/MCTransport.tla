---------------------------- MODULE MCTransport -----------------------------
(* Bounds for UsbTransport: binary digits, so that lengths are 0..15.      *)
EXTENDS UsbTransport

MCPayloads == {<<>>, <<1>>, <<0, 1>>, <<1, 1, 1>>}
=============================================================================
