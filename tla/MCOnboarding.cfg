\* Two requests at a time for one address, one number, two codes, two identities.
SPECIFICATION OnboardingSpec
CONSTANTS
    Challenges = {d1, d2}
    Phones = {n1}
    Subjects = {s1, s2}
    Handlers = {h1, h2}
    MaxAttempts = 2
    Cooldown = 1
    Life = 2
    None = None
SYMMETRY Symmetry
INVARIANTS OnboardingTypeOK VerifiedHasProof OnceUnlessShared CooldownBound LinksBounded
