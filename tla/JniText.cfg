SPECIFICATION Spec
CONSTANTS
    Bytes = {0, 127, 128, 143, 144, 159, 160, 191, 193, 194, 223, 224, 237, 240, 244, 248}
    Units = {0, 127, 128, 2047, 2048, 55295, 55296, 56319, 56320, 57343, 57344, 65535}
    Points = {0, 127, 128, 55296, 56320, 65535, 65536, 1114111, 1114112, 2147483647}
    MaxBytes = 4
    MaxUnits = 3
    Utf8Strings <- MCUtf8Strings
    WideStrings <- MCWideStrings
    JavaStrings <- MCJavaStrings
    AfterChars = {0, 55296, 56320}
CHECK_DEADLOCK FALSE
INVARIANTS TypeOK IndexInRange OnlyUTF8 StringsComeBack
