SPECIFICATION FairSpec
CONSTANTS
    Handlers = {h1}
    MaxOutput = 1
PROPERTIES
    FinishLosesNothing
    FollowsWrapperChild
    EndsWhenAsked
