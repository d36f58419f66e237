\* Two databases; a setting whose cache starts empty, and one whose cache is preset
\* and that DuckDB's connections share.
CONSTANTS
    Schemas = {d1, d2}
    NoSchema = NoSchema
    Settings = {TimeZone, disabled_optimizers}
    Values = {dflt, v1}
    Default = dflt
    Unset = Unset
    Preset = {disabled_optimizers}
    Global = {disabled_optimizers}
SPECIFICATION Spec
SYMMETRY Symmetry
PROPERTIES
    SchemaStaleOnlyAfterUse
    SettingStaleOnlyIfAdrift
