CONSTANT XidMod = 4
SPECIFICATION FairSpec
PROPERTY OfferIsTaken
