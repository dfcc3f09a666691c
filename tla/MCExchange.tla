----------------------------- MODULE MCExchange -----------------------------
(* SampleExchange between types that may be mixed.                           *)
EXTENDS MCExchangeTypes

\* The guarantees rest on no more than the instance has.
ASSUME ExchangeIsSound == AllCompatible /\ SamplesTyped /\ PayloadsFit
=============================================================================
