------------------------------ MODULE MCServing ------------------------------
EXTENDS Serving

CONSTANTS zipBoot, zipPlain

MCBlobs == {zipBoot, zipPlain}
MCBootstrap == {zipBoot}
=============================================================================
