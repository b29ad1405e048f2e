\* Every box, target and way of starting the server.
SPECIFICATION FairSpec
CONSTANTS
    Hardware <- MCHardware
INVARIANTS TypeOK OfferIsServed FilesFitTheBox
PROPERTIES BootEnds IPXEIsNotStranded
