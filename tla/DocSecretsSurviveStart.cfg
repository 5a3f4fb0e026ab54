CONSTANTS
    Collection = {c1, c2}
    Output = {primary}
    Session = {ks1, ks2}
    Secret = {key}
    Blank = Blank
    Nothing = Nothing
    Id = {i1, i2, i3, i4}

SPECIFICATION Spec

PROPERTIES
    SecretsSurviveStart
