SPECIFICATION Spec
CONSTANTS
    OtherHost <- OtherSite
    Subdomain = "eu"
    Landings <- LandingPages
INVARIANT BadRequestBlamesTheLink
PROPERTY EveryLinkIsAnswered
CHECK_DEADLOCK FALSE
