SPECIFICATION GatewayFairSpec
CONSTANTS
    s1 = s1
    w1 = w1
    Main = Main
    None = None
    ChatRequests = {s1, w1}
    Streams = {s1}
    Probes = {"probe"}
    Length <- MCLength
INVARIANTS
    AnswersAreTheirOwn
    OneWorker
PROPERTIES
    ImplementsSerialAnswers
    EveryExchangeEnds
CHECK_DEADLOCK FALSE
